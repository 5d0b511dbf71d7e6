---------------------------- MODULE AddonsProofs ----------------------------
(***************************************************************************)
(* Theorems about the versions and the verdicts that Addons builds on, for *)
(* every version, manifest and pair of cores, and about Addons itself, for *)
(* any add-ons, manifests and releases, any number of commands and kills.  *)
(***************************************************************************)
EXTENDS Addons, SequenceTheorems, WellFoundedInduction, TLAPS

(***************************************************************************)
(* The comparison of versions is a strict total order, and a caret and a   *)
(* tilde admit what the docstring of semver.py says they do.               *)
(***************************************************************************)
(* A set of numbers that has a member has a least one. *)
LEMMA LeastOf ==
  ASSUME NEW T \in SUBSET Nat, T # {}
  PROVE  \E x \in T : \A y \in T : x <= y
<1>1. PICK x \in T : \A y \in T : <<y, x>> \notin OpToRel(<, Nat)
  BY WFMin, NatLessThanWellFounded
<1>2. \A y \in T : ~ (y < x)
  BY <1>1 DEF OpToRel
<1> QED BY <1>2

(* The triples are ordered by their first difference. *)
LEMMA TripleOrder ==
  ASSUME NEW s \in Triple, NEW t \in Triple
  PROVE  TripleLess(s, t) <=> \/ s[1] < t[1]
                              \/ s[1] = t[1] /\ s[2] < t[2]
                              \/ s[1] = t[1] /\ s[2] = t[2] /\ s[3] < t[3]
<1>1. 1..3 = {1, 2, 3} /\ 1..(1 - 1) = {} /\ 1..(2 - 1) = {1} /\ 1..(3 - 1) = {1, 2}
  OBVIOUS
<1> QED BY <1>1 DEF TripleLess

(* The components of a triple are numbers. *)
LEMMA TripleParts ==
  ASSUME NEW s \in Triple
  PROVE  /\ s[1] \in Nat /\ s[2] \in Nat /\ s[3] \in Nat
         /\ \A t \in Triple : s = t <=> s[1] = t[1] /\ s[2] = t[2] /\ s[3] = t[3]
<1>1. 1..3 = {1, 2, 3}
  OBVIOUS
<1> QED BY <1>1 DEF Triple

(* Of two different triples one is less. *)
LEMMA TripleTotal ==
  ASSUME NEW s \in Triple, NEW t \in Triple, NEW u \in Triple
  PROVE  /\ s # t => TripleLess(s, t) \/ TripleLess(t, s)
         /\ ~ (TripleLess(s, t) /\ TripleLess(t, s))
         /\ TripleLess(s, t) /\ TripleLess(t, u) => TripleLess(s, u)
  BY TripleParts, TripleOrder

(* So are the identifiers, a number before a word. *)
LEMMA IdentifierTotal ==
  ASSUME NEW a \in Identifier, NEW b \in Identifier, NEW c \in Identifier
  PROVE  /\ a # b => IdentifierLess(a, b) \/ IdentifierLess(b, a)
         /\ ~ (IdentifierLess(a, b) /\ IdentifierLess(b, a))
         /\ ~ IdentifierLess(a, a)
         /\ IdentifierLess(a, b) /\ IdentifierLess(b, c) => IdentifierLess(a, c)
  BY DEF IdentifierLess, Identifier

(* Two different lists have a first place in which they differ, which may *)
(* be the one after the end of the shorter.                               *)
LEMMA FirstDifference ==
  ASSUME NEW p \in Seq(Identifier), NEW q \in Seq(Identifier), p # q
  PROVE  \E i \in Nat \ {0} :
           /\ i <= Len(p) + 1 /\ i <= Len(q) + 1
           /\ i <= Len(p) \/ i <= Len(q)
           /\ i <= Len(p) /\ i <= Len(q) => p[i] # q[i]
           /\ \A j \in 1..(i - 1) : p[j] = q[j]
<1> DEFINE Differ == {i \in Nat \ {0} : \/ i <= Len(p) /\ i > Len(q)
                                        \/ i > Len(p) /\ i <= Len(q)
                                        \/ i <= Len(p) /\ i <= Len(q) /\ p[i] # q[i]}
<1>1. Len(p) \in Nat /\ Len(q) \in Nat
  BY LenProperties
<1>2. Differ # {}
  <2>1. CASE Len(p) # Len(q)
    <3>1. CASE Len(p) < Len(q)
      <4>1. Len(p) + 1 \in Differ BY <1>1, <3>1
      <4> QED BY <4>1
    <3>2. CASE Len(q) < Len(p)
      <4>1. Len(q) + 1 \in Differ BY <1>1, <3>2
      <4> QED BY <4>1
    <3> QED BY <1>1, <2>1, <3>1, <3>2
  <2>2. CASE Len(p) = Len(q)
    <3>1. PICK i \in 1..Len(p) : p[i] # q[i]
      BY <2>2, SeqEqual
    <3>2. i \in Differ
      BY <1>1, <2>2, <3>1
    <3> QED BY <3>2
  <2> QED BY <2>1, <2>2
<1>3. Differ \in SUBSET Nat
  OBVIOUS
<1>4. PICK i \in Differ : \A y \in Differ : i <= y
  BY <1>2, <1>3, LeastOf
<1>5. \A j \in 1..(i - 1) : j \in Nat \ {0} /\ j \notin Differ
  BY <1>3, <1>4
<1>6. \A j \in 1..(i - 1) : j <= Len(p) /\ j <= Len(q) /\ p[j] = q[j]
  <2> SUFFICES ASSUME NEW j \in 1..(i - 1)
               PROVE  j <= Len(p) /\ j <= Len(q) /\ p[j] = q[j]
    OBVIOUS
  <2>1. j < i /\ j \in Nat \ {0} /\ j \notin Differ
    BY <1>5
  <2>2. i <= Len(p) \/ i <= Len(q)
    OBVIOUS
  <2> QED BY <1>1, <2>1, <2>2
<1>7. i <= Len(p) + 1 /\ i <= Len(q) + 1
  <2>1. CASE i = 1
    BY <1>1, <2>1
  <2>2. CASE i > 1
    <3>1. i - 1 \in 1..(i - 1)
      BY <2>2
    <3> QED BY <1>1, <1>6, <3>1
  <2> QED BY <2>1, <2>2
<1> QED BY <1>1, <1>6, <1>7

(* Of two different pre-release lists one comes first. *)
LEMMA KeyTotal ==
  ASSUME NEW p \in Seq(Identifier), NEW q \in Seq(Identifier), p # q
  PROVE  KeyLess(p, q) \/ KeyLess(q, p)
<1>1. Len(p) \in Nat /\ Len(q) \in Nat
      /\ (\A i \in 1..Len(p) : p[i] \in Identifier) /\ (\A i \in 1..Len(q) : q[i] \in Identifier)
  BY LenProperties, ElementOfSeq
<1>2. PICK i \in Nat \ {0} :
         /\ i <= Len(p) + 1 /\ i <= Len(q) + 1
         /\ i <= Len(p) \/ i <= Len(q)
         /\ i <= Len(p) /\ i <= Len(q) => p[i] # q[i]
         /\ \A j \in 1..(i - 1) : p[j] = q[j]
  BY FirstDifference
<1>3. \A j \in 1..(i - 1) : j <= Len(p) /\ j <= Len(q)
  BY <1>1, <1>2
<1>4. CASE i = Len(p) + 1
  <2>1. i \in 1..Len(q) BY <1>1, <1>2, <1>4
  <2> QED BY <1>2, <1>3, <1>4, <2>1 DEF KeyLess
<1>5. CASE i = Len(q) + 1
  <2>1. i \in 1..Len(p) BY <1>1, <1>2, <1>5
  <2> QED BY <1>2, <1>3, <1>5, <2>1 DEF KeyLess
<1>6. CASE i <= Len(p) /\ i <= Len(q)
  <2>1. i \in 1..Len(p) /\ i \in 1..Len(q)
    BY <1>1, <1>6
  <2>2. IdentifierLess(p[i], q[i]) \/ IdentifierLess(q[i], p[i])
    BY <1>1, <1>2, <1>6, <2>1, IdentifierTotal
  <2> QED BY <1>2, <1>3, <1>6, <2>1, <2>2 DEF KeyLess
<1> QED BY <1>1, <1>2, <1>4, <1>5, <1>6

(* And only one of the two. *)
LEMMA KeyAsymmetric ==
  ASSUME NEW p \in Seq(Identifier), NEW q \in Seq(Identifier)
  PROVE  ~ (KeyLess(p, q) /\ KeyLess(q, p))
<1> SUFFICES ASSUME KeyLess(p, q), KeyLess(q, p) PROVE FALSE
  OBVIOUS
<1>1. Len(p) \in Nat /\ Len(q) \in Nat
      /\ (\A i \in 1..Len(p) : p[i] \in Identifier) /\ (\A i \in 1..Len(q) : q[i] \in Identifier)
  BY LenProperties, ElementOfSeq
<1>2. PICK i \in 1..Len(q) :
        /\ \A j \in 1..(i - 1) : j <= Len(p) /\ p[j] = q[j]
        /\ i = Len(p) + 1 \/ (i <= Len(p) /\ IdentifierLess(p[i], q[i]))
  BY DEF KeyLess
<1>3. PICK k \in 1..Len(p) :
        /\ \A j \in 1..(k - 1) : j <= Len(q) /\ q[j] = p[j]
        /\ k = Len(q) + 1 \/ (k <= Len(q) /\ IdentifierLess(q[k], p[k]))
  BY DEF KeyLess
<1>4. CASE i < k
  <2>1. i \in 1..(k - 1) /\ i \in 1..Len(p)
    BY <1>1, <1>4
  <2>2. p[i] = q[i] /\ IdentifierLess(p[i], q[i])
    BY <1>1, <1>2, <1>3, <2>1
  <2> QED BY <1>1, <2>1, <2>2, IdentifierTotal
<1>5. CASE k < i
  <2>1. k \in 1..(i - 1) /\ k \in 1..Len(q)
    BY <1>1, <1>5
  <2>2. p[k] = q[k] /\ IdentifierLess(q[k], p[k])
    BY <1>1, <1>2, <1>3, <2>1
  <2> QED BY <1>1, <2>1, <2>2, IdentifierTotal
<1>6. CASE i = k
  <2>1. i \in 1..Len(p) /\ IdentifierLess(p[i], q[i]) /\ IdentifierLess(q[i], p[i])
    BY <1>1, <1>2, <1>3, <1>6
  <2> QED BY <1>1, <2>1, IdentifierTotal
<1> QED BY <1>4, <1>5, <1>6

(* The order of pre-release lists is transitive. *)
LEMMA KeyTransitive ==
  ASSUME NEW p \in Seq(Identifier), NEW q \in Seq(Identifier), NEW r \in Seq(Identifier),
         KeyLess(p, q), KeyLess(q, r)
  PROVE  KeyLess(p, r)
<1>1. Len(p) \in Nat /\ Len(q) \in Nat /\ Len(r) \in Nat
      /\ (\A i \in 1..Len(p) : p[i] \in Identifier) /\ (\A i \in 1..Len(q) : q[i] \in Identifier)
      /\ (\A i \in 1..Len(r) : r[i] \in Identifier)
  BY LenProperties, ElementOfSeq
<1>2. PICK i \in 1..Len(q) :
        /\ \A j \in 1..(i - 1) : j <= Len(p) /\ p[j] = q[j]
        /\ i = Len(p) + 1 \/ (i <= Len(p) /\ IdentifierLess(p[i], q[i]))
  BY DEF KeyLess
<1>3. PICK k \in 1..Len(r) :
        /\ \A j \in 1..(k - 1) : j <= Len(q) /\ q[j] = r[j]
        /\ k = Len(q) + 1 \/ (k <= Len(q) /\ IdentifierLess(q[k], r[k]))
  BY DEF KeyLess
<1>4. CASE i < k
  <2>1. i \in 1..(k - 1) /\ i \in 1..Len(r)
    BY <1>1, <1>4
  <2>2. q[i] = r[i] /\ \A j \in 1..(i - 1) : p[j] = r[j] /\ j <= Len(p)
    BY <1>1, <1>2, <1>3, <1>4, <2>1
  <2> QED BY <1>2, <2>1, <2>2 DEF KeyLess
<1>5. CASE k < i
  <2>1. k \in 1..(i - 1) /\ k \in 1..Len(q) /\ k <= Len(p)
    BY <1>1, <1>2, <1>5
  <2>2. p[k] = q[k] /\ IdentifierLess(q[k], r[k])
        /\ \A j \in 1..(k - 1) : p[j] = r[j] /\ j <= Len(p)
    BY <1>1, <1>2, <1>3, <1>5, <2>1
  <2> QED BY <2>1, <2>2 DEF KeyLess
<1>6. CASE i = k
  <2>1. \A j \in 1..(i - 1) : p[j] = r[j] /\ j <= Len(p)
    BY <1>1, <1>2, <1>3, <1>6
  <2>2. IdentifierLess(q[i], r[i]) /\ q[i] \in Identifier /\ r[i] \in Identifier
    BY <1>1, <1>3, <1>6
  <2>3. i = Len(p) + 1 \/ (i <= Len(p) /\ IdentifierLess(p[i], r[i]))
    <3>1. CASE i <= Len(p) /\ IdentifierLess(p[i], q[i])
      <4>1. p[i] \in Identifier BY <1>1, <3>1
      <4> QED BY <2>2, <3>1, <4>1, IdentifierTotal
    <3> QED BY <1>2, <3>1
  <2> QED BY <1>6, <2>1, <2>3 DEF KeyLess
<1> QED BY <1>4, <1>5, <1>6

-----------------------------------------------------------------------------
(* What each answer of compare means in terms of the two orders above. *)
LEMMA CompareAsOrder ==
  ASSUME NEW a \in Version, NEW b \in Version
  PROVE  /\ compare(a, b) \in {-1, 0, 1}
         /\ compare(a, b) = 0 <=> a = b
         /\ compare(a, b) = -1 <=>
              \/ TripleLess(a.triple, b.triple)
              \/ /\ a.triple = b.triple /\ a.pre # <<>>
                 /\ b.pre = <<>> \/ KeyLess(a.pre, b.pre)
<1>1. /\ a.triple \in Triple /\ b.triple \in Triple
      /\ a.pre \in Seq(Identifier) /\ b.pre \in Seq(Identifier)
      /\ a = b <=> a.triple = b.triple /\ a.pre = b.pre
  BY DEF Version
<1>2. CASE a.triple # b.triple
  BY <1>1, <1>2 DEF compare
<1>3. CASE a.triple = b.triple
  <2>1. ~ TripleLess(a.triple, b.triple)
    BY <1>1, <1>3, TripleTotal
  <2>2. ~ KeyLess(a.pre, a.pre)
    BY <1>1, KeyAsymmetric
  <2> QED BY <1>1, <1>3, <2>1, <2>2 DEF compare
<1> QED BY <1>2, <1>3

(* compare (semver.py:84-100) is a strict total order on the versions: it  *)
(* answers 0 for a version and itself only, the two directions disagree,   *)
(* and it is transitive, pre-releases and releases mixed.                  *)
THEOREM CompareIsTotalOrder ==
  ASSUME NEW a \in Version, NEW b \in Version, NEW c \in Version
  PROVE  /\ compare(a, b) = 0 <=> a = b
         /\ compare(a, b) = -1 <=> compare(b, a) = 1
         /\ compare(a, b) = -1 /\ compare(b, c) = -1 => compare(a, c) = -1
<1>1. \A v \in {a, b, c} : v.triple \in Triple /\ v.pre \in Seq(Identifier)
  BY DEF Version
<1>2. a = b <=> a.triple = b.triple /\ a.pre = b.pre
  BY DEF Version
<1>3. compare(a, b) = 0 <=> a = b
  BY CompareAsOrder
<1>4. compare(a, b) = -1 => compare(b, a) = 1
  <2> SUFFICES ASSUME compare(a, b) = -1 PROVE compare(b, a) # 0 /\ compare(b, a) # -1
    BY CompareAsOrder
  <2>1. CASE TripleLess(a.triple, b.triple)
    <3>1. a.triple # b.triple /\ ~ TripleLess(b.triple, a.triple)
      BY <1>1, <2>1, TripleTotal
    <3> QED BY <3>1, CompareAsOrder
  <2>2. CASE a.triple = b.triple /\ a.pre # <<>> /\ (b.pre = <<>> \/ KeyLess(a.pre, b.pre))
    <3>1. ~ TripleLess(b.triple, a.triple) /\ ~ (KeyLess(a.pre, b.pre) /\ KeyLess(b.pre, a.pre))
      BY <1>1, <2>2, TripleTotal, KeyAsymmetric
    <3>2. a.pre # b.pre
      BY <1>1, <2>2, KeyAsymmetric
    <3> QED BY <2>2, <3>1, <3>2, CompareAsOrder
  <2> QED BY <2>1, <2>2, CompareAsOrder
<1>5. compare(b, a) = 1 => compare(a, b) = -1
  <2> SUFFICES ASSUME compare(b, a) = 1 PROVE compare(a, b) = -1
    OBVIOUS
  <2>1. a # b /\ ~ TripleLess(b.triple, a.triple)
        /\ (a.triple = b.triple => b.pre = <<>> \/ (a.pre # <<>> /\ ~ KeyLess(b.pre, a.pre)))
    BY CompareAsOrder
  <2>2. CASE a.triple # b.triple
    <3>1. TripleLess(a.triple, b.triple)
      BY <1>1, <2>1, <2>2, TripleTotal
    <3> QED BY <3>1, CompareAsOrder
  <2>3. CASE a.triple = b.triple
    <3>1. a.pre # b.pre
      BY <1>2, <2>1, <2>3
    <3>2. KeyLess(a.pre, b.pre) \/ KeyLess(b.pre, a.pre)
      BY <1>1, <3>1, KeyTotal
    <3> QED BY <2>1, <2>3, <3>1, <3>2, CompareAsOrder
  <2> QED BY <2>2, <2>3
<1>6. compare(a, b) = -1 /\ compare(b, c) = -1 => compare(a, c) = -1
  <2> SUFFICES ASSUME compare(a, b) = -1, compare(b, c) = -1 PROVE compare(a, c) = -1
    OBVIOUS
  <2>1. CASE a.triple = b.triple /\ b.triple = c.triple
    <3>1. /\ a.pre # <<>> /\ (b.pre = <<>> \/ KeyLess(a.pre, b.pre))
          /\ b.pre # <<>> /\ (c.pre = <<>> \/ KeyLess(b.pre, c.pre))
      BY <1>1, <2>1, TripleTotal, CompareAsOrder
    <3>2. c.pre = <<>> \/ KeyLess(a.pre, c.pre)
      BY <1>1, <3>1, KeyTransitive
    <3> QED BY <2>1, <3>1, <3>2, CompareAsOrder
  <2>2. CASE ~ (a.triple = b.triple /\ b.triple = c.triple)
    <3>1. TripleLess(a.triple, c.triple)
      BY <1>1, <2>2, TripleTotal, CompareAsOrder
    <3> QED BY <3>1, CompareAsOrder
  <2> QED BY <2>1, <2>2
<1> QED BY <1>3, <1>4, <1>5, <1>6

(* What lies below the release that closes a caret or a tilde. *)
LEMMA BelowRelease ==
  ASSUME NEW v \in Version, NEW u \in Triple
  PROVE  compare(v, Release(u)) = -1 <=>
           TripleLess(v.triple, u) \/ (v.triple = u /\ v.pre # <<>>)
<1>1. Release(u) \in Version /\ Release(u).triple = u /\ Release(u).pre = <<>>
  BY EmptySeq DEF Release, Version
<1> QED BY <1>1, CompareAsOrder

(* What the two clauses of a caret or a tilde admit together. *)
LEMMA BetweenAdmits ==
  ASSUME NEW v \in Version, NEW b \in Version, NEW u \in Triple, TripleLess(b.triple, u)
  PROVE  satisfies(v, Between(b, u)) <=>
           /\ v.pre = <<>> \/ (b.pre # <<>> /\ v.triple = b.triple)
           /\ compare(v, b) \in {0, 1}
           /\ TripleLess(v.triple, u)
<1>1. v.triple \in Triple /\ b.triple \in Triple
  BY DEF Version
<1>2. b.triple # u
  BY <1>1, TripleTotal
<1>3. OptedIn(v, Between(b, u)) <=> v.pre = <<>> \/ (b.pre # <<>> /\ v.triple = b.triple)
  BY DEF OptedIn, Between, Release
<1>4. (\A c \in Between(b, u) : compare(v, c.bound) \in Accepts(c.op)) <=>
        compare(v, b) \in {0, 1} /\ compare(v, Release(u)) = -1
  BY DEF Between, Accepts
<1> QED BY <1>1, <1>2, <1>3, <1>4, BelowRelease DEF satisfies

(* "locks the leftmost non-zero component": those of t up to the first one *)
(* that is not 0, the patch of 0.0.z included.                             *)
Locked(t) == IF t[1] # 0 THEN 1..1 ELSE IF t[2] # 0 THEN 1..2 ELSE 1..3

(* ^X.Y.Z admits exactly the versions from X.Y.Z on that agree with it in  *)
(* the leftmost non-zero component and before; and a pre-release only on   *)
(* the triple of a bound that is one itself (semver.py:8-10, 15-18).       *)
THEOREM CaretLocksLeftmost ==
  ASSUME NEW v \in Version, NEW b \in Version
  PROVE  satisfies(v, Caret(b)) <=>
           /\ v.pre = <<>> \/ (b.pre # <<>> /\ v.triple = b.triple)
           /\ compare(v, b) \in {0, 1}
           /\ \A i \in Locked(b.triple) : v.triple[i] = b.triple[i]
<1> DEFINE u == CaretUpper(b.triple)
<1>1. v.triple \in Triple /\ b.triple \in Triple
  BY DEF Version
<1>2. v.triple[1] \in Nat /\ v.triple[2] \in Nat /\ v.triple[3] \in Nat
      /\ b.triple[1] \in Nat /\ b.triple[2] \in Nat /\ b.triple[3] \in Nat
  BY <1>1, TripleParts
<1>3. u \in Triple
  BY <1>2 DEF CaretUpper, Triple
<1>4. TripleLess(b.triple, u)
  <2>1. b.triple[1] < u[1] \/ (b.triple[1] = u[1] /\ b.triple[2] < u[2])
          \/ (b.triple[1] = u[1] /\ b.triple[2] = u[2] /\ b.triple[3] < u[3])
    BY <1>2 DEF CaretUpper
  <2> QED BY <1>1, <1>3, <2>1, TripleOrder
<1>5. compare(v, b) \in {0, 1} => ~ TripleLess(v.triple, b.triple)
  BY CompareAsOrder
<1>6. ASSUME compare(v, b) \in {0, 1}
      PROVE  TripleLess(v.triple, u) <=> \A i \in Locked(b.triple) : v.triple[i] = b.triple[i]
  <2> HIDE DEF u
  <2>1. ~ \/ v.triple[1] < b.triple[1]
          \/ v.triple[1] = b.triple[1] /\ v.triple[2] < b.triple[2]
          \/ v.triple[1] = b.triple[1] /\ v.triple[2] = b.triple[2] /\ v.triple[3] < b.triple[3]
    BY <1>1, <1>5, <1>6, TripleOrder
  <2>2. TripleLess(v.triple, u) <=>
          \/ v.triple[1] < u[1]
          \/ v.triple[1] = u[1] /\ v.triple[2] < u[2]
          \/ v.triple[1] = u[1] /\ v.triple[2] = u[2] /\ v.triple[3] < u[3]
    BY <1>1, <1>3, TripleOrder
  <2>3. 1..1 = {1} /\ 1..2 = {1, 2} /\ 1..3 = {1, 2, 3}
    OBVIOUS
  <2>4. CASE b.triple[1] # 0
    <3>1. u[1] = b.triple[1] + 1 /\ u[2] = 0 /\ u[3] = 0
      BY <1>2, <2>4 DEF u, CaretUpper
    <3> QED BY <1>2, <2>1, <2>2, <2>3, <2>4, <3>1 DEF Locked
  <2>5. CASE b.triple[1] = 0 /\ b.triple[2] # 0
    <3>1. u[1] = 0 /\ u[2] = b.triple[2] + 1 /\ u[3] = 0
      BY <1>2, <2>5 DEF u, CaretUpper
    <3> QED BY <1>2, <2>1, <2>2, <2>3, <2>5, <3>1 DEF Locked
  <2>6. CASE b.triple[1] = 0 /\ b.triple[2] = 0
    <3>1. u[1] = 0 /\ u[2] = 0 /\ u[3] = b.triple[3] + 1
      BY <1>2, <2>6 DEF u, CaretUpper
    <3> QED BY <1>2, <2>1, <2>2, <2>3, <2>6, <3>1 DEF Locked
  <2> QED BY <2>4, <2>5, <2>6
<1> QED BY <1>3, <1>4, <1>6, BetweenAdmits DEF Caret

(* ~X.Y.Z admits the patches of X.Y from X.Y.Z on (semver.py:11).          *)
THEOREM TildeLocksMinor ==
  ASSUME NEW v \in Version, NEW b \in Version
  PROVE  satisfies(v, Tilde(b)) <=>
           /\ v.pre = <<>> \/ (b.pre # <<>> /\ v.triple = b.triple)
           /\ compare(v, b) \in {0, 1}
           /\ \A i \in 1..2 : v.triple[i] = b.triple[i]
<1> DEFINE u == <<b.triple[1], b.triple[2] + 1, 0>>
<1>1. v.triple \in Triple /\ b.triple \in Triple
  BY DEF Version
<1>2. v.triple[1] \in Nat /\ v.triple[2] \in Nat /\ v.triple[3] \in Nat
      /\ b.triple[1] \in Nat /\ b.triple[2] \in Nat /\ b.triple[3] \in Nat
  BY <1>1, TripleParts
<1>3. u \in Triple
  BY <1>2 DEF Triple
<1>4. TripleLess(b.triple, u)
  BY <1>1, <1>2, <1>3, TripleOrder
<1>5. ASSUME compare(v, b) \in {0, 1}
      PROVE  TripleLess(v.triple, u) <=> \A i \in 1..2 : v.triple[i] = b.triple[i]
  <2>1. ~ \/ v.triple[1] < b.triple[1]
          \/ v.triple[1] = b.triple[1] /\ v.triple[2] < b.triple[2]
    BY <1>1, <1>5, CompareAsOrder, TripleOrder
  <2>2. TripleLess(v.triple, u) <=>
          \/ v.triple[1] < b.triple[1]
          \/ v.triple[1] = b.triple[1] /\ v.triple[2] < b.triple[2] + 1
    BY <1>1, <1>2, <1>3, TripleOrder
  <2>3. 1..2 = {1, 2}
    OBVIOUS
  <2> QED BY <1>2, <2>1, <2>2, <2>3
<1> QED BY <1>3, <1>4, <1>5, BetweenAdmits DEF Tilde

-----------------------------------------------------------------------------
(* The verdicts. *)

(* A core that changes its seams additively keeps every add-on that        *)
(* declares a generation and was OK (ADR 0002: "an additive one bumps      *)
(* current only"; compat.py:221-250, 270-285).                             *)
THEOREM AdditiveKeepsAddons ==
  ASSUME NEW m, IsManifest(m), NEW old, IsCore(old), NEW new, IsCore(new),
         m.addon_api # None, Additive(old, new),
         evaluate_addon(m, old) = "OK"
  PROVE  evaluate_addon(m, new) = "OK"
<1>1. The(old.addon_api) \in Window /\ The(new.addon_api) \in Window
      /\ The(m.addon_api) \in SUBSET Nat
  BY DEF IsCore, IsManifest, IsOption, The, Additive, None
<1>2. Serves(The(old.addon_api), The(m.addon_api)) /\ Attaches(m, old) /\ ~ m.malformed
  BY DEF evaluate_addon, AxisStatus, Additive
<1>3. Serves(The(new.addon_api), The(m.addon_api))
  BY <1>1, <1>2 DEF Serves, Additive, Window
<1>4. Attaches(m, new)
  BY <1>2 DEF Attaches, Additive
<1> QED BY <1>2, <1>3, <1>4 DEF evaluate_addon, AxisStatus, Additive

(* A breaking change refuses every add-on of an older generation, whatever *)
(* its papaia_compat range says: the range cannot vouch for it.            *)
THEOREM BreakingRefusesOlder ==
  ASSUME NEW m, IsManifest(m), NEW old, IsCore(old), NEW new, IsCore(new),
         m.addon_api # None, Breaking(old, new),
         \A g \in The(m.addon_api) : g <= The(old.addon_api).current
  PROVE  evaluate_addon(m, new) \in {"INCOMPATIBLE", "ERROR"}
<1>1. The(old.addon_api) \in Window /\ The(new.addon_api) \in Window
      /\ The(m.addon_api) \in SUBSET Nat
  BY DEF IsCore, IsManifest, IsOption, The, Breaking, None
<1>2. ~ Serves(The(new.addon_api), The(m.addon_api))
  BY <1>1 DEF Serves, Breaking, Window
<1> QED BY <1>2 DEF evaluate_addon, AxisStatus, Breaking

-----------------------------------------------------------------------------
(* The add-on commands.                                                    *)

Steps == {"idle", "seed", "save", "unlink", "rmtree", "drop", "overrides",
          "certs", "addons", "materialize", "up", "core"}
Starts == {"start", "start --addons"}
AddonStarts == {"addon start", "start --addons"}
Removals == {"remove", "uninstall"}
CommandNames == {"none", "install"} \cup Starts \cup AddonStarts \cup Removals
Commands == [name : CommandNames, addon : SUBSET Names, force : BOOLEAN, cleanup : BOOLEAN,
             unlisted : BOOLEAN]

TypeOK ==
  /\ core \in Cores
  /\ manifest \in [Names -> UNION {Manifests[a] : a \in Names}]
  /\ \A a \in Names : manifest[a] \in Manifests[a]
  /\ entry \in [Names -> {"none", "active", "inactive"}]
  /\ bundle \in [Names -> Nat]
  /\ overrides \in [Names -> SUBSET Services] /\ certs \subseteq Names
  /\ local \in [Names -> Nat] /\ running \subseteq Names
  /\ volume \in [Names -> Nat] /\ nets \subseteq Names
  /\ coreUp \in BOOLEAN /\ joined \subseteq Names
  /\ pc \in Steps
  /\ cmd \in Commands
  /\ queue \subseteq Names
  /\ secrets \in Nat /\ faults \in Nat
  /\ hurt \subseteq Names /\ orphaned \subseteq Names

(* Which command is at which step; it works on one add-on at a time.       *)
Control ==
  /\ pc = "idle" <=> cmd.name = "none"
  /\ pc \in {"seed", "save"} => cmd.name = "install"
  /\ pc = "unlink" => cmd.name \in Removals
  /\ pc \in {"rmtree", "drop"} => cmd.name = "uninstall"
  /\ pc \in {"materialize", "up"} => cmd.name \in AddonStarts
  /\ pc = "addons" => cmd.name = "start --addons"
  /\ pc = "core" => cmd.name \in Starts
  /\ pc = "certs" => cmd.name # "addon start"
  /\ \A x, y \in Of(cmd) : x = y
  /\ cmd.name = "addon start" => Of(cmd) # {}

(* A start works on active add-ons, which the gate has let through against *)
(* the checkouts as they still are.                                        *)
Gated ==
  /\ queue \subseteq Active
  /\ cmd.name # "start --addons" => queue = {}
  /\ cmd.name \in AddonStarts => Of(cmd) \subseteq Active
  /\ cmd.name = "addon start" => Passes(Of(cmd), cmd.force)
  /\ cmd.name \in Starts => Passes(Active, cmd.force)

(* On the way of a start to the core: the overrides are those that the     *)
(* manifests ask for, and the active add-ons have their networks or wait   *)
(* for them, unless there was no list of them.                             *)
Attached ==
  cmd.name \in Starts =>
    /\ pc \in {"certs", "addons", "materialize", "up", "core"} =>
         \A a \in Active : Attach(a) # {} => overrides[a] = Attach(a)
    /\ cmd.name = "start --addons" /\ ~ cmd.unlisted =>
         /\ pc \in {"addons", "core"} => Active \subseteq nets \cup queue
         /\ pc \in {"materialize", "overrides", "up"} /\ Of(cmd) # {} =>
              Active \subseteq nets \cup queue \cup Of(cmd)
    /\ cmd.name = "start --addons" /\ pc = "core" => queue = {}

(* Nothing generated outlives its add-on: what is left is that of one      *)
(* being removed, which its command will delete.                           *)
Tidy ==
  /\ \A a \in Names \ hurt :
       /\ a \notin Active =>
            /\ overrides[a] = {} \/ (pc = "unlink" /\ a \in Of(cmd))
            /\ \/ a \notin certs
               \/ a \in Of(cmd) /\ cmd.name = "remove"
               \/ a \in Of(cmd) /\ pc = "unlink"
       /\ a \notin Registered => a \notin running
  /\ \A a \in Of(cmd) :
       /\ cmd.name = "remove" => entry[a] = "inactive"
       /\ cmd.name = "uninstall" =>
            /\ a \notin running
            /\ pc # "unlink" => overrides[a] = {} /\ a \notin certs
            /\ pc \in {"overrides", "certs"} => entry[a] = "none"

(* Data has the secrets of the bundle, and an add-on that has an entry has *)
(* a bundle, from which its start has just made the .env beside it.        *)
Kept ==
  /\ SecretsFitData
  /\ \A a \in WithData \ hurt :
       entry[a] # "none" =>
         bundle[a] # 0 \/ (pc = "drop" /\ a \in Of(cmd))
  /\ \A a \in Of(cmd) :
       /\ pc = "save" /\ a \in WithData => bundle[a] # 0
       /\ cmd.name \in AddonStarts /\ pc \in {"overrides", "up"} /\ bundle[a] # 0
            => local[a] = bundle[a]
       /\ cmd.name = "uninstall" /\ cmd.cleanup => volume[a] = 0

IInv == TypeOK /\ Control /\ Gated /\ Attached /\ Tidy /\ Kept

-----------------------------------------------------------------------------
(* A manifest attaches services, an unreadable one none.                   *)
LEMMA AttachType ==
  ASSUME TypeOK, NEW a \in Names
  PROVE  Attach(a) \in SUBSET Services
<1>1. CASE manifest[a] = None
  BY <1>1 DEF Attach
<1>2. CASE manifest[a] # None
  <2>1. The(manifest[a]) \in manifest[a]
    BY <1>2 DEF The, None
  <2>2. IsManifest(The(manifest[a]))
    BY <2>1, AddonsAssumption DEF TypeOK
  <2> QED BY <2>2 DEF Attach, IsManifest
<1> QED BY <1>1, <1>2

LEMMA CommandType ==
  /\ NoCommand \in Commands
  /\ \A name \in CommandNames, a \in Names, force, cleanup \in BOOLEAN :
       Command(name, {a}, force, cleanup) \in Commands
  /\ \A name \in CommandNames, force, cleanup \in BOOLEAN :
       Command(name, {}, force, cleanup) \in Commands
BY DEF NoCommand, Command, Commands, CommandNames

(* What a start --addons without a list of the add-ons does.               *)
LEMMA Unlisted ==
  ASSUME AddonsUnlisted, cmd \in Commands
  PROVE  /\ pc = "addons" /\ pc' = "addons" /\ Of(cmd) = {} /\ queue' = {}
         /\ cmd' \in Commands /\ cmd'.name = cmd.name /\ Of(cmd') = {}
         /\ cmd'.force = cmd.force /\ cmd'.unlisted = TRUE
         /\ UNCHANGED <<checkouts, entry, bundle, generated, addon, coreVars, history>>
BY DEF AddonsUnlisted, Commands, Of

(* The start of the system. *)
LEMMA InitInvariant == Init => IInv
<1> SUFFICES ASSUME Init PROVE IInv
  OBVIOUS
<1>1. TypeOK
  BY AddonsAssumption, CommandType DEF Init, TypeOK, Steps
<1>2. Control
  BY DEF Init, Control, NoCommand, Command, Of, AddonStarts, Starts, Removals
<1>3. Gated /\ Attached
  BY DEF Init, Gated, Attached, NoCommand, Command, Of, AddonStarts, Starts, Active
<1>4. Tidy /\ Kept
  BY AddonsAssumption DEF Init, Tidy, Kept, SecretsFitData, NoCommand, Command, Of, Active,
                          Registered
<1> QED BY <1>1, <1>2, <1>3, <1>4 DEF IInv

-----------------------------------------------------------------------------
LEMMA TypeStep ==
  ASSUME TypeOK, [Next]_vars
  PROVE  TypeOK'
<1> USE CommandType DEF TypeOK, checkouts, generated, addon, coreVars, bounds, history
<1>1. ASSUME NEW a \in Names, NEW yes \in BOOLEAN, Install(a, yes)
      PROVE  TypeOK'
  BY <1>1 DEF Install, Issue, Quiet, GoTo, Steps, CommandNames
<1>2. ASSUME NEW a \in Names, NEW yes \in BOOLEAN, AddonStart(a, yes)
      PROVE  TypeOK'
  BY <1>2 DEF AddonStart, Issue, Quiet, GoTo, Steps, CommandNames, AddonStarts
<1>3. ASSUME NEW a \in Names, NEW yes \in BOOLEAN, Uninstall(a, yes)
      PROVE  TypeOK'
  BY <1>3 DEF Uninstall, Issue, GoTo, Steps, CommandNames, Removals, NetsAfterDown
<1>4. ASSUME NEW a \in Names, NEW yes \in BOOLEAN, AddonStop(a, yes)
      PROVE  TypeOK'
  BY <1>4 DEF AddonStop, Halted, NetsAfterDown
<1>5. ASSUME NEW a \in Names, Remove(a)
      PROVE  TypeOK'
  BY <1>5 DEF Remove, Issue, GoTo, Steps, CommandNames, Removals
<1>6. ASSUME NEW a \in Names, Update(a)
      PROVE  TypeOK'
  BY <1>6 DEF Update
<1>7. ASSUME NEW yes \in BOOLEAN, NEW flag \in BOOLEAN, Start(yes, flag)
      PROVE  TypeOK'
  BY <1>7 DEF Start, Issue, Quiet, GoTo, Steps, CommandNames, Starts
<1>8. ASSUME NEW yes \in BOOLEAN, NEW flag \in BOOLEAN, Stop(yes, flag)
      PROVE  TypeOK'
  BY <1>8 DEF Stop, Halted, NetsAfterDown, Active
<1>9. CASE Seed
  BY <1>9 DEF Seed, GoTo, Steps
<1>10. CASE Save
  BY <1>10 DEF Save, GoTo, Steps
<1>11. CASE Unlink
  BY <1>11 DEF Unlink, GoTo, Steps
<1>12. CASE Rmtree
  BY <1>12 DEF Rmtree, GoTo, Steps, Of, Commands
<1>13. CASE Drop
  BY <1>13 DEF Drop, GoTo, Steps
<1>14. CASE GenerateOverrides
  BY <1>14, AttachType DEF GenerateOverrides, GoTo, Steps
<1>15. CASE GenerateCerts
  <2>1. certs' \subseteq Names /\ hurt' \subseteq Names /\ queue' \subseteq Names
    BY <1>15 DEF GenerateCerts, Finish, Active
  <2>2. pc' \in Steps /\ cmd' \in {cmd, NoCommand}
    BY <1>15 DEF GenerateCerts, Finish, GoTo, Steps
  <2> QED BY <1>15, <2>1, <2>2 DEF GenerateCerts
<1>16. CASE NextAddon
  BY <1>16 DEF NextAddon, GoTo, Steps, Commands
<1>17. CASE AddonsStarted
  BY <1>17 DEF AddonsStarted, GoTo, Steps, Commands
<1>18. CASE Materialize
  BY <1>18 DEF Materialize, GoTo, Steps
<1>19. CASE Up
  <2>1. PICK a \in Names :
          /\ running' = running \cup {a} /\ nets' = nets \cup {a}
          /\ volume' = IF a \in WithData /\ volume[a] = 0
                       THEN [volume EXCEPT ![a] = local[a]] ELSE volume
    BY <1>19 DEF Up, Of, Commands
  <2>2. pc' \in Steps /\ cmd' \in {cmd, NoCommand} /\ queue' \in {queue, {}}
    BY <1>19 DEF Up, Finish, GoTo, Steps
  <2>3. UNCHANGED <<checkouts, entry, bundle, generated, local, coreVars, bounds, history>>
    BY <1>19 DEF Up
  <2> QED BY <2>1, <2>2, <2>3
<1>20. CASE CoreUp
  BY <1>20 DEF CoreUp, Finish, GoTo, Steps, Applied
<1>21. CASE ComposeFails
  BY <1>21 DEF ComposeFails, Finish, GoTo, Steps
<1>22. CASE Checkout
  BY <1>22 DEF Checkout
<1>23. CASE Kill
  BY <1>23 DEF Kill, Finish, GoTo, Steps, Of, Commands
<1>24. CASE UNCHANGED vars
  BY <1>24 DEF vars
<1>25. CASE AddonsUnlisted
  BY <1>25, Unlisted DEF AddonsUnlisted
<1> QED
  BY <1>1, <1>2, <1>3, <1>4, <1>5, <1>6, <1>7, <1>8, <1>9, <1>10, <1>11, <1>12, <1>13,
     <1>14, <1>15, <1>16, <1>17, <1>18, <1>19, <1>20, <1>21, <1>22, <1>23, <1>24, <1>25
     DEF Next

(* Every variable keeps its type (TypeOK).                                 *)
THEOREM TypeCorrect == Spec => []TypeOK
<1>1. Init => TypeOK
  BY InitInvariant DEF IInv
<1>2. TypeOK /\ [Next]_vars => TypeOK'
  BY TypeStep
<1> QED BY <1>1, <1>2, PTL DEF Spec

-----------------------------------------------------------------------------
(* What steps leave alone keeps its meaning.                               *)
LEMMA SameEntries ==
  UNCHANGED entry => Active' = Active /\ Registered' = Registered
BY DEF Active, Registered

LEMMA SameCheckouts ==
  UNCHANGED checkouts =>
    /\ \A a : Attach(a)' = Attach(a)
    /\ \A a : Status(a)' = Status(a)
BY DEF checkouts, Attach, Status

(* The gate asks for one add-on after the other.                           *)
LEMMA PassesEach ==
  /\ \A S, force : Passes(S, force) <=> \A a \in S : Tolerated(Status(a), Mode, force)
  /\ \A S, force : Passes(S, force)' <=> \A a \in S : Tolerated(Status(a)', Mode, force)
BY DEF Passes, gate

(* A command that ends leaves nothing to the next one.                     *)
LEMMA Finished ==
  Finish => pc' = "idle" /\ cmd'.name = "none" /\ Of(cmd') = {} /\ queue' = {}
            /\ ~ cmd'.cleanup /\ ~ cmd'.force
BY DEF Finish, GoTo, NoCommand, Command, Of

LEMMA ControlStep ==
  ASSUME TypeOK, Control, [Next]_vars
  PROVE  Control'
<1> USE DEF Control, Starts, AddonStarts, Removals
<1>1. ASSUME NEW a \in Names, NEW yes \in BOOLEAN,
             Install(a, yes) \/ AddonStart(a, yes) \/ Uninstall(a, yes) \/ Remove(a)
      PROVE  Control'
  <2>1. CASE Install(a, yes)
    BY <2>1 DEF Install, Issue, Command, GoTo, Of
  <2>2. CASE AddonStart(a, yes)
    BY <2>2 DEF AddonStart, Issue, Command, GoTo, Of
  <2>3. CASE Uninstall(a, yes)
    BY <2>3 DEF Uninstall, Issue, Command, GoTo, Of
  <2>4. CASE Remove(a)
    BY <2>4 DEF Remove, Issue, Command, GoTo, Of
  <2> QED BY <1>1, <2>1, <2>2, <2>3, <2>4
<1>2. ASSUME NEW yes \in BOOLEAN, NEW flag \in BOOLEAN, Start(yes, flag)
      PROVE  Control'
  BY <1>2 DEF Start, Issue, Command, GoTo, Of
<1>3. ASSUME NEW a \in Names, NEW yes \in BOOLEAN, AddonStop(a, yes) \/ Update(a)
      PROVE  Control'
  BY <1>3 DEF AddonStop, Update
<1>14. ASSUME NEW yes \in BOOLEAN, NEW flag \in BOOLEAN, Stop(yes, flag) \/ Checkout
      PROVE  Control'
  BY <1>14 DEF Stop, Checkout
<1>4. CASE Seed \/ Save \/ Rmtree \/ Drop
  BY <1>4 DEF Seed, Save, Rmtree, Drop, GoTo
<1>5. CASE Unlink
  BY <1>5 DEF Unlink, GoTo
<1>6. CASE GenerateOverrides
  BY <1>6 DEF GenerateOverrides, GoTo
<1>7. CASE GenerateCerts
  <2>1. CASE Finish
    BY <2>1, Finished
  <2>2. CASE ~ Finish
    BY <1>7, <2>2 DEF GenerateCerts, GoTo
  <2> QED BY <2>1, <2>2
<1>8. CASE NextAddon
  BY <1>8, ZenonT(30) DEF NextAddon, GoTo, Of, TypeOK, Commands
<1>9. CASE AddonsStarted
  BY <1>9 DEF AddonsStarted, GoTo, Of, TypeOK, Commands
<1>10. CASE Materialize
  BY <1>10 DEF Materialize, GoTo
<1>11. CASE Up
  <2>1. CASE Finish
    BY <2>1, Finished
  <2>2. CASE cmd.name # "addon start"
    <3>1. pc = "up" /\ pc' = "addons" /\ cmd' = cmd
      BY <1>11, <2>2 DEF Up, GoTo
    <3> QED BY <2>2, <3>1
  <2> QED BY <1>11, <2>1, <2>2 DEF Up
<1>12. CASE CoreUp \/ ComposeFails \/ Kill
  BY <1>12, Finished DEF CoreUp, ComposeFails, Kill
<1>13. CASE UNCHANGED vars
  BY <1>13 DEF vars
<1>15. CASE AddonsUnlisted
  BY <1>15, Unlisted DEF TypeOK
<1> QED
  BY <1>1, <1>2, <1>3, <1>4, <1>5, <1>6, <1>7, <1>8, <1>9, <1>10, <1>11, <1>12, <1>13, <1>14,
     <1>15 DEF Next

-----------------------------------------------------------------------------
(* Only what a start relies on has to be looked at.                        *)
LEMMA GatedOther ==
  ASSUME queue' = {}, cmd'.name \notin Starts \cup AddonStarts
  PROVE  Gated'
BY DEF Gated, Starts, AddonStarts

LEMMA GatedFrame ==
  ASSUME Gated, UNCHANGED <<checkouts, entry, cmd, queue>>
  PROVE  Gated'
<1>1. Active' = Active /\ \A S, force : Passes(S, force)' <=> Passes(S, force)
  BY SameEntries, SameCheckouts, PassesEach
<1>2. Of(cmd)' = Of(cmd)
  BY DEF Of
<1> QED BY <1>1, <1>2 DEF Gated

LEMMA GatedStep ==
  ASSUME TypeOK, Control, Gated, [Next]_vars
  PROVE  Gated'
<1>1. pc = "idle" => queue = {} /\ cmd.name \notin Starts \cup AddonStarts
  BY DEF Control, Gated, Starts, AddonStarts
<1>2. ASSUME NEW a \in Names, NEW yes \in BOOLEAN, Install(a, yes)
      PROVE  Gated'
  BY <1>1, <1>2, GatedOther DEF Install, Issue, Command, Quiet, Starts, AddonStarts
<1>3. ASSUME NEW a \in Names, NEW yes \in BOOLEAN, Uninstall(a, yes)
      PROVE  Gated'
  BY <1>1, <1>3, GatedOther DEF Uninstall, Issue, Command, Starts, AddonStarts
<1>4. ASSUME NEW a \in Names, Remove(a)
      PROVE  Gated'
  BY <1>1, <1>4, GatedOther DEF Remove, Issue, Command, Starts, AddonStarts
<1>5. ASSUME NEW a \in Names, NEW yes \in BOOLEAN, AddonStart(a, yes)
      PROVE  Gated'
  <2>1. cmd'.name = "addon start" /\ Of(cmd') = {a} /\ cmd'.force = yes /\ queue' = {}
    BY <1>1, <1>5 DEF AddonStart, Issue, Command, Quiet, Of
  <2>2. a \in Active /\ Passes({a}, yes) /\ UNCHANGED <<checkouts, entry>>
    BY <1>5 DEF AddonStart, Quiet
  <2>3. Active' = Active /\ Passes({a}, yes)'
    BY <2>2, SameEntries, SameCheckouts, PassesEach
  <2> QED BY <2>1, <2>2, <2>3 DEF Gated, Starts, AddonStarts, Of
<1>6. ASSUME NEW yes \in BOOLEAN, NEW flag \in BOOLEAN, Start(yes, flag)
      PROVE  Gated'
  <2>1. cmd'.name \in Starts /\ Of(cmd') = {} /\ cmd'.force = flag /\ queue' = {}
    BY <1>1, <1>6 DEF Start, Issue, Command, Quiet, Of, Starts
  <2>2. Passes(Active, flag) /\ UNCHANGED <<checkouts, entry>>
    BY <1>6 DEF Start, Quiet
  <2>3. Active' = Active /\ Passes(Active, flag)'
    BY <2>2, SameEntries, SameCheckouts, PassesEach
  <2> QED BY <2>1, <2>2, <2>3 DEF Gated, Starts, AddonStarts, Of
<1>7. ASSUME NEW a \in Names, NEW yes \in BOOLEAN, AddonStop(a, yes)
      PROVE  Gated'
  BY <1>7, GatedFrame DEF AddonStop
<1>8. ASSUME NEW yes \in BOOLEAN, NEW flag \in BOOLEAN, Stop(yes, flag)
      PROVE  Gated'
  BY <1>8, GatedFrame DEF Stop
<1>9. ASSUME NEW a \in Names, Update(a)
      PROVE  Gated'
  BY <1>1, <1>9, GatedOther DEF Update
<1>10. CASE Checkout
  BY <1>1, <1>10, GatedOther DEF Checkout
<1>11. CASE Save
  BY <1>11, GatedOther DEF Save, Control, Gated, Starts, AddonStarts
<1>12. CASE Drop
  BY <1>12, GatedOther DEF Drop, Control, Gated, Starts, AddonStarts
<1>13. CASE Seed
  BY <1>13, GatedFrame DEF Seed
<1>14. CASE Unlink
  BY <1>14, GatedFrame DEF Unlink
<1>15. CASE Rmtree
  BY <1>15, GatedFrame DEF Rmtree
<1>16. CASE GenerateOverrides
  BY <1>16, GatedFrame DEF GenerateOverrides
<1>17. CASE Materialize
  BY <1>17, GatedFrame DEF Materialize
<1>18. ASSUME Finish PROVE Gated'
  BY <1>18, Finished, GatedOther DEF Starts, AddonStarts
<1>19. CASE GenerateCerts
  <2>1. CASE cmd.name = "start"
    BY <1>19, <2>1, GatedFrame DEF GenerateCerts, Finish
  <2>2. CASE cmd.name = "start --addons"
    <3>1. queue' = Active /\ UNCHANGED <<cmd, entry, checkouts>>
      BY <1>19, <2>2 DEF GenerateCerts
    <3>2. Active' = Active /\ \A S, force : Passes(S, force)' <=> Passes(S, force)
      BY <3>1, SameEntries, SameCheckouts, PassesEach
    <3> QED BY <2>2, <3>1, <3>2 DEF Gated, Of, Starts, AddonStarts
  <2> QED BY <1>18, <1>19, <2>1, <2>2 DEF GenerateCerts
<1>20. CASE NextAddon
  <2>1. PICK a \in queue : cmd' = [cmd EXCEPT !.addon = {a}] /\ queue' = queue \ {a}
    BY <1>20 DEF NextAddon
  <2>2. cmd'.name = "start --addons" /\ Of(cmd') = {a} /\ cmd'.force = cmd.force
    BY <1>20, <2>1 DEF NextAddon, Control, Of, TypeOK, Commands
  <2>3. Active' = Active /\ \A S, force : Passes(S, force)' <=> Passes(S, force)
    BY <1>20, SameEntries, SameCheckouts, PassesEach DEF NextAddon
  <2>4. cmd.name = "start --addons"
    BY <1>20 DEF NextAddon, Control
  <2> QED BY <2>1, <2>2, <2>3, <2>4 DEF Gated, Of, Starts, AddonStarts
<1>21. CASE AddonsStarted
  <2>1. cmd'.name = "start --addons" /\ Of(cmd') = {} /\ cmd'.force = cmd.force
    BY <1>21 DEF AddonsStarted, Control, Of, TypeOK, Commands
  <2>2. Active' = Active /\ queue' = queue /\ \A S, force : Passes(S, force)' <=> Passes(S, force)
    BY <1>21, SameEntries, SameCheckouts, PassesEach DEF AddonsStarted
  <2>3. cmd.name = "start --addons"
    BY <1>21 DEF AddonsStarted, Control
  <2> QED BY <2>1, <2>2, <2>3 DEF Gated, Of, Starts, AddonStarts
<1>22. CASE Up
  <2>1. CASE cmd.name = "addon start"
    BY <1>18, <1>22, <2>1 DEF Up
  <2>2. CASE cmd.name # "addon start"
    <3>1. UNCHANGED <<checkouts, entry, cmd, queue>>
      BY <1>22, <2>2 DEF Up
    <3> QED BY <3>1, GatedFrame
  <2> QED BY <2>1, <2>2
<1>23. CASE CoreUp
  BY <1>18, <1>23 DEF CoreUp
<1>24. CASE ComposeFails
  BY <1>18, <1>24 DEF ComposeFails
<1>25. CASE Kill
  BY <1>18, <1>25 DEF Kill
<1>26. CASE UNCHANGED vars
  BY <1>26, GatedFrame DEF vars
<1>27. CASE AddonsUnlisted
  <2>1. /\ cmd'.name = "start --addons" /\ Of(cmd') = {} /\ cmd'.force = cmd.force
        /\ cmd.name = "start --addons" /\ queue' = {}
    BY <1>27, Unlisted DEF Control, TypeOK
  <2>2. Active' = Active /\ \A S, force : Passes(S, force)' <=> Passes(S, force)
    BY <1>27, SameEntries, SameCheckouts, PassesEach DEF AddonsUnlisted
  <2> QED BY <2>1, <2>2 DEF Gated, Of, Starts, AddonStarts
<1> QED
  BY <1>2, <1>3, <1>4, <1>5, <1>6, <1>7, <1>8, <1>9, <1>10, <1>11, <1>12, <1>13, <1>14,
     <1>15, <1>16, <1>17, <1>19, <1>20, <1>21, <1>22, <1>23, <1>24, <1>25, <1>26, <1>27
     DEF Next

-----------------------------------------------------------------------------
LEMMA AttachedOther == cmd'.name \notin Starts => Attached'
BY DEF Attached

LEMMA AttachedFrame ==
  ASSUME Attached, UNCHANGED <<checkouts, entry, overrides, nets, pc, cmd, queue>>
  PROVE  Attached'
<1>1. Active' = Active /\ Of(cmd)' = Of(cmd) /\ \A a : Attach(a)' = Attach(a)
  BY SameEntries, SameCheckouts DEF Of
<1> QED BY <1>1 DEF Attached

LEMMA AttachedStep ==
  ASSUME TypeOK, Control, Gated, Attached, [Next]_vars
  PROVE  Attached'
<1>1. ASSUME NEW a \in Names, NEW yes \in BOOLEAN, Install(a, yes)
      PROVE  Attached'
  BY <1>1, AttachedOther DEF Install, Issue, Command, Starts
<1>2. ASSUME NEW a \in Names, NEW yes \in BOOLEAN, Uninstall(a, yes)
      PROVE  Attached'
  BY <1>2, AttachedOther DEF Uninstall, Issue, Command, Starts
<1>3. ASSUME NEW a \in Names, Remove(a)
      PROVE  Attached'
  BY <1>3, AttachedOther DEF Remove, Issue, Command, Starts
<1>4. ASSUME NEW a \in Names, NEW yes \in BOOLEAN, AddonStart(a, yes)
      PROVE  Attached'
  BY <1>4, AttachedOther DEF AddonStart, Issue, Command, Starts
<1>5. ASSUME NEW yes \in BOOLEAN, NEW flag \in BOOLEAN, Start(yes, flag)
      PROVE  Attached'
  <2>1. pc' = "overrides" /\ Of(cmd)' = {}
    BY <1>5 DEF Start, Issue, Command, GoTo, Of
  <2> QED BY <2>1 DEF Attached
<1>6. ASSUME pc = "idle", UNCHANGED cmd PROVE Attached'
  BY <1>6, AttachedOther DEF Control, Starts
<1>7. ASSUME cmd.name \notin Starts, UNCHANGED cmd PROVE Attached'
  BY <1>7, AttachedOther
<1>8. ASSUME Finish PROVE Attached'
  BY <1>8, Finished, AttachedOther DEF Starts
<1>9. ASSUME NEW a \in Names, NEW yes \in BOOLEAN, AddonStop(a, yes)
      PROVE  Attached'
  BY <1>6, <1>9 DEF AddonStop
<1>10. ASSUME NEW yes \in BOOLEAN, NEW flag \in BOOLEAN, Stop(yes, flag)
       PROVE  Attached'
  BY <1>6, <1>10 DEF Stop
<1>11. ASSUME NEW a \in Names, Update(a)
       PROVE  Attached'
  BY <1>6, <1>11 DEF Update
<1>12. CASE Checkout
  BY <1>6, <1>12 DEF Checkout
<1>13. CASE Seed
  BY <1>7, <1>13 DEF Seed, Control, Starts
<1>14. CASE Save
  BY <1>7, <1>14 DEF Save, Control, Starts
<1>15. CASE Unlink
  BY <1>7, <1>15 DEF Unlink, Control, Starts, Removals
<1>16. CASE Rmtree
  BY <1>7, <1>16 DEF Rmtree, Control, Starts
<1>17. CASE Drop
  BY <1>7, <1>17 DEF Drop, Control, Starts
<1>18. CASE GenerateOverrides
  <2>1. CASE cmd.name \notin Starts
    BY <1>7, <1>18, <2>1 DEF GenerateOverrides
  <2>2. CASE cmd.name \in Starts
    <3>1. pc = "overrides" /\ UNCHANGED <<checkouts, entry, nets, cmd, queue>>
      BY <1>18 DEF GenerateOverrides, addon
    <3>2. Active' = Active /\ Of(cmd)' = Of(cmd) /\ \A a : Attach(a)' = Attach(a)
      BY <3>1, SameEntries, SameCheckouts DEF Of
    <3>3. \A a \in Active : Attach(a) # {} => overrides'[a] = Attach(a)
      BY <1>18 DEF GenerateOverrides, Active
    <3>4. cmd.name = "start --addons" /\ ~ cmd.unlisted /\ Of(cmd) # {} =>
            Active \subseteq nets \cup queue \cup Of(cmd)
      BY <2>2, <3>1 DEF Attached
    <3>5. \/ pc' = "certs"
          \/ pc' = "up" /\ Of(cmd) # {}
      BY <1>18 DEF GenerateOverrides, GoTo
    <3> QED BY <3>1, <3>2, <3>3, <3>4, <3>5 DEF Attached
  <2> QED BY <2>1, <2>2
<1>19. CASE GenerateCerts
  <2>1. CASE Finish
    BY <1>8, <2>1
  <2>2. CASE ~ Finish
    <3>1. /\ pc = "certs" /\ UNCHANGED <<checkouts, entry, nets, cmd, overrides>>
          /\ cmd.name \in Starts
      BY <1>19, <2>2 DEF GenerateCerts, addon, Starts
    <3>2. Active' = Active /\ Of(cmd)' = Of(cmd) /\ \A a : Attach(a)' = Attach(a)
      BY <3>1, SameEntries, SameCheckouts DEF Of
    <3>3. CASE cmd.name = "start"
      BY <1>19, <3>1, <3>2, <3>3 DEF Attached
    <3>4. CASE cmd.name = "start --addons"
      <4>1. pc' = "addons" /\ queue' = Active
        BY <1>19, <2>2, <3>4 DEF GenerateCerts, GoTo
      <4> QED BY <3>1, <3>2, <4>1 DEF Attached
    <3> QED BY <3>1, <3>3, <3>4 DEF Starts
  <2> QED BY <2>1, <2>2
<1>20. CASE NextAddon
  <2>1. PICK a \in queue : cmd' = [cmd EXCEPT !.addon = {a}] /\ queue' = queue \ {a}
    BY <1>20 DEF NextAddon
  <2>2. /\ cmd.name = "start --addons" /\ cmd'.name = "start --addons" /\ Of(cmd)' = {a}
        /\ cmd'.unlisted = cmd.unlisted
    BY <1>20, <2>1 DEF NextAddon, Control, Of, TypeOK, Commands
  <2>3. /\ pc = "addons" /\ pc' = "materialize"
        /\ UNCHANGED <<checkouts, entry, nets, overrides>>
    BY <1>20 DEF NextAddon, GoTo, addon, generated
  <2>4. Active' = Active /\ \A b : Attach(b)' = Attach(b)
    BY <2>3, SameEntries, SameCheckouts
  <2>5. ~ cmd.unlisted => Active \subseteq nets \cup queue
    BY <2>2, <2>3 DEF Attached, Starts
  <2>6. ~ cmd.unlisted => Active \subseteq nets' \cup queue' \cup {a}
    BY <2>1, <2>3, <2>5
  <2> QED BY <2>2, <2>3, <2>4, <2>6 DEF Attached, Starts
<1>21. CASE AddonsStarted
  <2>1. /\ cmd.name = "start --addons" /\ cmd'.name = "start --addons"
        /\ cmd'.unlisted = cmd.unlisted
    BY <1>21 DEF AddonsStarted, Control, TypeOK, Commands
  <2>2. /\ pc = "addons" /\ queue = {} /\ pc' = "core"
        /\ UNCHANGED <<checkouts, entry, nets, overrides, queue>>
    BY <1>21 DEF AddonsStarted, GoTo, addon, generated
  <2>3. Active' = Active /\ \A b : Attach(b)' = Attach(b)
    BY <2>2, SameEntries, SameCheckouts
  <2> QED BY <2>1, <2>2, <2>3 DEF Attached, Starts
<1>22. CASE Materialize
  <2>1. /\ pc = "materialize" /\ pc' = "overrides"
        /\ UNCHANGED <<checkouts, entry, nets, cmd, queue>>
    BY <1>22 DEF Materialize, GoTo
  <2>2. Active' = Active /\ Of(cmd)' = Of(cmd)
    BY <2>1, SameEntries DEF Of
  <2> QED BY <2>1, <2>2 DEF Attached
<1>23. CASE Up
  <2>1. CASE cmd.name \notin Starts
    BY <1>7, <1>8, <1>23, <2>1 DEF Up, Control, AddonStarts, Starts
  <2>2. CASE cmd.name \in Starts
    <3>1. /\ pc = "up" /\ pc' = "addons" /\ cmd.name = "start --addons"
          /\ UNCHANGED <<checkouts, entry, overrides, cmd, queue>>
      BY <1>23, <2>2 DEF Up, GoTo, generated, Control, Starts, AddonStarts
    <3>2. Of(cmd) # {} /\ nets' = nets \cup Of(cmd)
      BY <1>23 DEF Up, Control
    <3>3. ~ cmd.unlisted => Active \subseteq nets \cup queue \cup Of(cmd)
      BY <2>2, <3>1, <3>2 DEF Attached
    <3>4. Active' = Active /\ \A b : Attach(b)' = Attach(b)
      BY <3>1, SameEntries, SameCheckouts
    <3> QED BY <2>2, <3>1, <3>2, <3>3, <3>4 DEF Attached
  <2> QED BY <2>1, <2>2
<1>24. CASE CoreUp
  BY <1>8, <1>24 DEF CoreUp
<1>25. CASE ComposeFails
  BY <1>8, <1>25 DEF ComposeFails
<1>26. CASE Kill
  BY <1>8, <1>26 DEF Kill
<1>27. CASE UNCHANGED vars
  BY <1>27, AttachedFrame DEF vars, generated, addon
<1>28. CASE AddonsUnlisted
  <2>1. /\ cmd.name = "start --addons" /\ cmd'.name = cmd.name /\ cmd'.unlisted = TRUE
        /\ pc = "addons" /\ pc' = "addons" /\ UNCHANGED <<checkouts, entry, overrides>>
    BY <1>28, Unlisted DEF Control, TypeOK, generated
  <2>2. Active' = Active /\ \A b : Attach(b)' = Attach(b)
    BY <2>1, SameEntries, SameCheckouts
  <2> QED BY <2>1, <2>2 DEF Attached, Starts
<1> QED
  BY <1>1, <1>2, <1>3, <1>4, <1>5, <1>9, <1>10, <1>11, <1>12, <1>13, <1>14, <1>15, <1>16,
     <1>17, <1>18, <1>19, <1>20, <1>21, <1>22, <1>23, <1>24, <1>25, <1>26, <1>27, <1>28
     DEF Next

-----------------------------------------------------------------------------
(* A command that removes nothing leaves nothing behind.                   *)
LEMMA TidyStart ==
  ASSUME Tidy, pc # "unlink", cmd.name \notin Removals,
         pc' # "unlink", cmd'.name \notin Removals,
         UNCHANGED <<entry, overrides, certs, hurt>>,
         \A a \in running' \ running : a \in Active
  PROVE  Tidy'
<1>1. Active' = Active /\ Registered' = Registered /\ Active \subseteq Registered
  BY SameEntries DEF Active, Registered
<1> QED BY <1>1 DEF Tidy, Removals

LEMMA TidyFrame ==
  ASSUME Tidy, UNCHANGED <<entry, overrides, certs, pc, cmd, hurt>>, running' \subseteq running
  PROVE  Tidy'
<1>1. Active' = Active /\ Registered' = Registered /\ Of(cmd)' = Of(cmd)
  BY SameEntries DEF Of
<1> QED BY <1>1 DEF Tidy

LEMMA TidyStep ==
  ASSUME TypeOK, Control, Gated, Tidy, [Next]_vars
  PROVE  Tidy'
<1>1. pc # "unlink" /\ cmd.name \notin Removals =>
        \A a \in Names \ hurt :
          a \notin Active => overrides[a] = {} /\ a \notin certs
  BY DEF Tidy, Removals
<1>2. ASSUME NEW a \in Names, NEW yes \in BOOLEAN, Install(a, yes)
      PROVE  Tidy'
  BY <1>2, TidyStart DEF Install, Issue, Command, GoTo, Quiet, Control, Removals, addon, generated,
                         history
<1>3. ASSUME NEW a \in Names, NEW yes \in BOOLEAN, AddonStart(a, yes)
      PROVE  Tidy'
  BY <1>3, TidyStart DEF AddonStart, Issue, Command, GoTo, Quiet, Control, Removals, addon, generated,
                         history
<1>4. ASSUME NEW yes \in BOOLEAN, NEW flag \in BOOLEAN, Start(yes, flag)
      PROVE  Tidy'
  BY <1>4, TidyStart DEF Start, Issue, Command, GoTo, Quiet, Control, Removals, addon, generated,
                         history
<1>5. ASSUME NEW a \in Names, NEW yes \in BOOLEAN, Uninstall(a, yes)
      PROVE  Tidy'
  <2>1. pc = "idle" /\ pc' = "unlink" /\ cmd'.name = "uninstall" /\ Of(cmd)' = {a}
    BY <1>5 DEF Uninstall, Issue, Command, GoTo, Of
  <2>2. running' = running \ {a} /\ UNCHANGED <<entry, overrides, certs, hurt>>
    BY <1>5 DEF Uninstall, generated, history
  <2>3. Active' = Active /\ Registered' = Registered
    BY <2>2, SameEntries
  <2>4. cmd.name \notin Removals
    BY <2>1 DEF Control, Removals
  <2> QED BY <1>1, <2>1, <2>2, <2>3, <2>4 DEF Tidy
<1>6. ASSUME NEW a \in Names, Remove(a)
      PROVE  Tidy'
  <2>1. pc = "idle" /\ pc' = "unlink" /\ cmd'.name = "remove" /\ Of(cmd)' = {a}
    BY <1>6 DEF Remove, Issue, Command, GoTo, Of
  <2>2. /\ entry' = [entry EXCEPT ![a] = "inactive"] /\ a \in Registered
        /\ UNCHANGED <<overrides, certs, running, hurt>>
    BY <1>6 DEF Remove, generated, history, addon
  <2>3. /\ Registered' = Registered /\ entry'[a] = "inactive"
        /\ \A b \in Names \ {a} : b \notin Active' => b \notin Active
    BY <2>2 DEF Active, Registered, TypeOK
  <2>4. cmd.name \notin Removals
    BY <2>1 DEF Control, Removals
  <2> QED BY <1>1, <2>1, <2>2, <2>3, <2>4 DEF Tidy
<1>7. ASSUME NEW a \in Names, NEW yes \in BOOLEAN, AddonStop(a, yes)
      PROVE  Tidy'
  BY <1>7, TidyFrame DEF AddonStop, Halted, generated, history
<1>8. ASSUME NEW yes \in BOOLEAN, NEW flag \in BOOLEAN, Stop(yes, flag)
      PROVE  Tidy'
  BY <1>8, TidyFrame DEF Stop, Halted, generated, history
<1>9. ASSUME NEW a \in Names, Update(a)
      PROVE  Tidy'
  BY <1>9, TidyFrame DEF Update, generated, addon, history
<1>10. CASE Checkout
  BY <1>10, TidyFrame DEF Checkout, generated, addon, history
<1>11. CASE Seed
  BY <1>11, TidyStart DEF Seed, GoTo, Control, Removals, addon, generated, history
<1>12. CASE Save
  <2>1. pc = "save" /\ pc' = "overrides" /\ cmd.name = "install" /\ cmd' = cmd
    BY <1>12 DEF Save, GoTo, Control
  <2>2. /\ entry' = [a \in Names |-> IF a \in Of(cmd) THEN "active" ELSE entry[a]]
        /\ UNCHANGED <<overrides, certs, running, hurt>>
    BY <1>12 DEF Save, generated, addon, history
  <2>3. \A a \in Names : /\ a \notin Active' => a \notin Active
                         /\ a \notin Registered' => a \notin Registered
    BY <2>2 DEF Active, Registered
  <2> QED BY <1>1, <2>1, <2>2, <2>3 DEF Tidy, Removals
<1>13. CASE Unlink
  <2>1. /\ pc = "unlink" /\ cmd.name \in Removals /\ UNCHANGED <<entry, cmd, running, hurt>>
        /\ overrides' = [a \in Names |-> IF a \in Of(cmd) THEN {} ELSE overrides[a]]
    BY <1>13 DEF Unlink, addon, history, Control
  <2>2. Active' = Active /\ Registered' = Registered /\ Of(cmd)' = Of(cmd) /\ Of(cmd) \subseteq Names
    BY <2>1, SameEntries DEF Of, TypeOK, Commands
  <2>3. CASE cmd.name = "remove"
    <3>1. pc' = "overrides" /\ certs' = certs
      BY <1>13, <2>3 DEF Unlink, GoTo
    <3> QED BY <2>1, <2>2, <2>3, <3>1 DEF Tidy
  <2>4. CASE cmd.name = "uninstall"
    <3>1. pc' = "rmtree" /\ certs' = certs \ Of(cmd)
      BY <1>13, <2>4 DEF Unlink, GoTo
    <3> QED BY <2>1, <2>2, <2>4, <3>1 DEF Tidy
  <2> QED BY <2>1, <2>3, <2>4 DEF Removals
<1>14. CASE Rmtree
  <2>1. /\ pc = "rmtree" /\ pc' = "drop" /\ cmd.name = "uninstall"
        /\ UNCHANGED <<entry, overrides, certs, cmd, running, hurt>>
    BY <1>14 DEF Rmtree, GoTo, Control, generated, addon
  <2>2. Active' = Active /\ Registered' = Registered /\ Of(cmd)' = Of(cmd)
    BY <2>1, SameEntries DEF Of
  <2> QED BY <2>1, <2>2 DEF Tidy
<1>15. CASE Drop
  <2>1. /\ pc = "drop" /\ pc' = "overrides" /\ cmd.name = "uninstall"
        /\ UNCHANGED <<overrides, certs, cmd, running, hurt>>
        /\ entry' = [a \in Names |-> IF a \in Of(cmd) THEN "none" ELSE entry[a]]
    BY <1>15 DEF Drop, GoTo, Control, generated, addon, history
  <2>2. Of(cmd)' = Of(cmd) /\ Of(cmd) \subseteq Names
    BY <2>1 DEF Of, TypeOK, Commands
  <2>3. \A a \in Names \ Of(cmd) : /\ a \in Active' <=> a \in Active
                                   /\ a \in Registered' <=> a \in Registered
    BY <2>1 DEF Active, Registered
  <2> QED BY <2>1, <2>2, <2>3 DEF Tidy
<1>16. CASE GenerateOverrides
  <2>1. /\ pc = "overrides" /\ pc' \in {"up", "certs"}
        /\ UNCHANGED <<entry, certs, cmd, running, hurt>>
        /\ \A a \in Names \ Active : overrides'[a] = overrides[a]
    BY <1>16 DEF GenerateOverrides, GoTo, addon, history
  <2>2. Active' = Active /\ Registered' = Registered /\ Of(cmd)' = Of(cmd) /\ Of(cmd) \subseteq Names
    BY <2>1, SameEntries DEF Of, TypeOK, Commands
  <2>3. \A a \in Of(cmd) : cmd.name = "uninstall" => a \notin Active
    BY <2>1 DEF Tidy, Active
  <2> QED BY <2>1, <2>2, <2>3 DEF Tidy
<1>17. CASE GenerateCerts
  <2>1. /\ pc = "certs" /\ UNCHANGED <<entry, overrides, running>>
        /\ \A a \in Names : a \in certs' => a \in Active \/ (a \notin Registered /\ a \in certs)
    BY <1>17 DEF GenerateCerts, addon
  <2>2. Active' = Active /\ Registered' = Registered /\ Of(cmd) \subseteq Names
    BY <2>1, SameEntries DEF Of, TypeOK, Commands
  <2>3. \A a \in Of(cmd) : cmd.name = "remove" => a \in Registered
    BY <2>2 DEF Tidy, Registered
  <2>4. \A a \in Names \ hurt : a \notin Active => overrides[a] = {} /\ a \notin certs'
    BY <2>1, <2>3 DEF Tidy
  <2>5. \A a \in Names \ hurt' : a \notin hurt \/ (cmd.name = "uninstall" /\ a \in Of(cmd))
    BY <1>17 DEF GenerateCerts
  <2>6. pc' # "unlink" /\ cmd'.name \notin Removals
    BY <1>17, Finished DEF GenerateCerts, GoTo, Control, Removals
  <2>7. \A a \in Names \ hurt : a \notin Registered => a \notin running
    BY DEF Tidy
  <2> QED BY <2>1, <2>2, <2>4, <2>5, <2>6, <2>7 DEF Tidy, Removals
<1>18. CASE NextAddon
  BY <1>18, TidyStart DEF NextAddon, GoTo, Control, Removals, TypeOK, Commands, addon, generated, history
<1>19. CASE AddonsStarted
  BY <1>19, TidyStart DEF AddonsStarted, GoTo, Control, Removals, TypeOK, Commands, addon, generated,
                          history
<1>20. CASE Materialize
  BY <1>20, TidyStart DEF Materialize, GoTo, Control, Removals, AddonStarts, generated, history
<1>21. CASE Up
  <2>1. pc = "up" /\ cmd.name \in AddonStarts /\ UNCHANGED <<entry, overrides, certs, hurt>>
    BY <1>21 DEF Up, Control, generated, history
  <2>2. \A a \in running' \ running : a \in Active
    BY <1>21, <2>1 DEF Up, Gated
  <2>3. pc' # "unlink" /\ cmd'.name \notin Removals
    BY <1>21, <2>1, Finished DEF Up, GoTo, AddonStarts, Removals
  <2> QED BY <2>1, <2>2, <2>3, TidyStart DEF AddonStarts, Removals
<1>22. CASE CoreUp
  <2>1. pc = "core" /\ cmd.name \in Starts /\ UNCHANGED <<entry, overrides, certs, hurt, running>>
    BY <1>22 DEF CoreUp, Control, generated, history, addon
  <2>2. pc' = "idle" /\ cmd'.name = "none"
    BY <1>22, Finished DEF CoreUp
  <2> QED BY <2>1, <2>2, TidyStart DEF Starts, Removals
<1>23. CASE ComposeFails
  <2>1. /\ pc \in {"up", "core"} /\ cmd.name \in Starts \cup AddonStarts
        /\ UNCHANGED <<entry, overrides, certs, hurt, running>>
    BY <1>23 DEF ComposeFails, Control, generated, history, addon
  <2>2. pc' = "idle" /\ cmd'.name = "none"
    BY <1>23, Finished DEF ComposeFails
  <2> QED BY <2>1, <2>2, TidyStart DEF Starts, AddonStarts, Removals
<1>24. CASE Kill
  <2>1. /\ pc' = "idle" /\ cmd'.name = "none" /\ Of(cmd)' = {}
        /\ UNCHANGED <<entry, overrides, certs, running>>
        /\ hurt' = IF cmd.name \in Removals THEN hurt \cup Of(cmd) ELSE hurt
    BY <1>24, Finished DEF Kill, generated, addon, Removals
  <2>2. Active' = Active /\ Registered' = Registered
    BY <2>1, SameEntries
  <2>3. pc = "unlink" => cmd.name \in Removals
    BY DEF Control
  <2> QED BY <2>1, <2>2, <2>3 DEF Tidy, Removals
<1>25. CASE UNCHANGED vars
  BY <1>25, TidyFrame DEF vars, generated, addon, history
<1>26. CASE AddonsUnlisted
  <2>1. /\ pc = "addons" /\ pc' = "addons" /\ cmd.name = "start --addons" /\ cmd'.name = cmd.name
        /\ UNCHANGED <<entry, generated, addon, history>>
    BY <1>26, Unlisted DEF Control, TypeOK
  <2> QED BY <2>1, TidyStart DEF Removals, addon, generated, history
<1> QED
  BY <1>2, <1>3, <1>4, <1>5, <1>6, <1>7, <1>8, <1>9, <1>10, <1>11, <1>12, <1>13, <1>14,
     <1>15, <1>16, <1>17, <1>18, <1>19, <1>20, <1>21, <1>22, <1>23, <1>24, <1>25, <1>26 DEF Next

-----------------------------------------------------------------------------
(* A step that moves no secrets, from a step that promises nothing to one  *)
(* that promises nothing.                                                  *)
LEMMA KeptFrame ==
  ASSUME Kept, UNCHANGED <<bundle, volume, local, orphaned>>,
         \A a \in Names : entry'[a] # "none" => entry[a] # "none",
         hurt \subseteq hurt',
         \A a \in Of(cmd) : pc = "drop" => a \in hurt' \/ entry'[a] = "none",
         \A a \in Of(cmd') :
           /\ pc' \notin {"save", "drop"}
           /\ cmd'.name \in AddonStarts => pc' \notin {"overrides", "up"}
           /\ cmd'.name = "uninstall" => cmd' = cmd
  PROVE  Kept'
<1>1. Of(cmd)' = Of(cmd')
  BY DEF Of
<1>2. SecretsFitData'
  BY DEF Kept, SecretsFitData
<1>3. \A a \in WithData \ hurt' : entry'[a] # "none" => bundle'[a] # 0
  BY AddonsAssumption DEF Kept
<1>4. \A a \in Of(cmd') : cmd'.name = "uninstall" /\ cmd'.cleanup => volume'[a] = 0
  BY DEF Kept
<1> QED BY <1>1, <1>2, <1>3, <1>4 DEF Kept

LEMMA KeptSame ==
  ASSUME Kept, UNCHANGED <<entry, bundle, volume, local, hurt, orphaned, cmd>>,
         \/ pc' = pc
         \/ /\ pc # "drop" /\ pc' \notin {"save", "drop"}
            /\ cmd.name \in AddonStarts /\ pc' \in {"overrides", "up"} => pc \in {"overrides", "up"}
  PROVE  Kept'
<1>1. Of(cmd)' = Of(cmd)
  BY DEF Of
<1>2. SecretsFitData'
  BY DEF Kept, SecretsFitData
<1> QED BY <1>1, <1>2 DEF Kept

LEMMA KeptStep ==
  ASSUME TypeOK, Control, Gated, Tidy, Kept, [Next]_vars
  PROVE  Kept'
<1> USE DEF addon, history
<1>1. ASSUME NEW a \in Names, NEW yes \in BOOLEAN, Install(a, yes)
      PROVE  Kept'
  BY <1>1, KeptFrame DEF Install, Issue, Command, GoTo, Quiet, AddonStarts
<1>2. ASSUME NEW a \in Names, NEW yes \in BOOLEAN, AddonStart(a, yes)
      PROVE  Kept'
  BY <1>2, KeptFrame DEF AddonStart, Issue, Command, GoTo, Quiet
<1>3. ASSUME NEW yes \in BOOLEAN, NEW flag \in BOOLEAN, Start(yes, flag)
      PROVE  Kept'
  BY <1>3, KeptFrame DEF Start, Issue, Command, GoTo, Quiet, Of
<1>4. ASSUME NEW a \in Names, NEW yes \in BOOLEAN, Uninstall(a, yes)
      PROVE  Kept'
  <2>1. /\ pc = "idle" /\ pc' = "unlink" /\ cmd'.name = "uninstall" /\ Of(cmd)' = {a}
        /\ cmd'.cleanup = yes
    BY <1>4 DEF Uninstall, Issue, Command, GoTo, Of
  <2>2. /\ UNCHANGED <<entry, bundle, local, hurt, orphaned>>
        /\ volume' = IF yes THEN [volume EXCEPT ![a] = 0] ELSE volume
    BY <1>4 DEF Uninstall
  <2>3. SecretsFitData'
    BY <2>2 DEF Kept, SecretsFitData, TypeOK
  <2>4. yes => volume'[a] = 0
    BY <2>2 DEF TypeOK
  <2> QED BY <2>1, <2>2, <2>3, <2>4 DEF Kept, AddonStarts
<1>5. ASSUME NEW a \in Names, Remove(a)
      PROVE  Kept'
  <2>1. /\ pc = "idle" /\ pc' = "unlink" /\ cmd'.name = "remove"
        /\ UNCHANGED <<bundle, local, volume, hurt, orphaned>>
    BY <1>5 DEF Remove, Issue, Command, GoTo
  <2>2. \A b \in Names : entry'[b] # "none" => entry[b] # "none"
    BY <1>5 DEF Remove, Registered, TypeOK
  <2> QED BY <2>1, <2>2, KeptFrame DEF AddonStarts
<1>6. ASSUME NEW a \in Names, NEW yes \in BOOLEAN, AddonStop(a, yes)
      PROVE  Kept'
  BY <1>6, KeptSame DEF AddonStop
<1>7. ASSUME NEW yes \in BOOLEAN, NEW flag \in BOOLEAN, Stop(yes, flag)
      PROVE  Kept'
  BY <1>7, KeptSame DEF Stop
<1>8. ASSUME NEW a \in Names, Update(a)
      PROVE  Kept'
  BY <1>8, KeptSame DEF Update
<1>9. CASE Checkout
  BY <1>9, KeptSame DEF Checkout
<1>10. CASE Seed
  <2>1. /\ pc = "seed" /\ pc' = "save" /\ cmd.name = "install" /\ cmd' = cmd
        /\ UNCHANGED <<entry, local, volume, hurt, orphaned>>
    BY <1>10 DEF Seed, GoTo, Control
  <2>2. PICK a \in Of(cmd) :
          IF a \notin WithData \/ bundle[a] # 0 THEN UNCHANGED bundle
          ELSE bundle' = [bundle EXCEPT ![a] = secrets + 1]
    BY <1>10 DEF Seed
  <2>3. a \in Names /\ Of(cmd)' = {a}
    BY <2>1, <2>2 DEF Of, TypeOK, Commands, Control
  <2>4. \A b \in Names : bundle'[b] # bundle[b] => b = a /\ bundle[a] = 0 /\ bundle'[a] # 0
    BY <2>2, <2>3 DEF TypeOK
  <2>5. SecretsFitData'
    BY <2>1, <2>4 DEF Kept, SecretsFitData
  <2>6. a \in WithData => bundle'[a] # 0
    BY <2>2, <2>3 DEF TypeOK
  <2> QED BY <2>1, <2>3, <2>4, <2>5, <2>6, AddonsAssumption DEF Kept, AddonStarts
<1>11. CASE Save
  <2>1. /\ pc = "save" /\ pc' = "overrides" /\ cmd.name = "install" /\ cmd' = cmd
        /\ UNCHANGED <<bundle, local, volume, hurt, orphaned>>
        /\ entry' = [a \in Names |-> IF a \in Of(cmd) THEN "active" ELSE entry[a]]
    BY <1>11 DEF Save, GoTo, Control
  <2>2. SecretsFitData'
    BY <2>1 DEF Kept, SecretsFitData
  <2>3. \A a \in WithData \ hurt' : entry'[a] # "none" => bundle'[a] # 0
    BY <2>1, AddonsAssumption DEF Kept
  <2> QED BY <2>1, <2>2, <2>3 DEF Kept, AddonStarts
<1>12. CASE Unlink
  <2>1. /\ pc = "unlink" /\ pc' \in {"overrides", "rmtree"} /\ cmd.name \in Removals
        /\ UNCHANGED <<entry, bundle, local, volume, hurt, orphaned, cmd>>
    BY <1>12 DEF Unlink, GoTo, Control
  <2> QED BY <2>1, KeptSame DEF Removals, AddonStarts
<1>13. CASE Rmtree
  <2>1. /\ pc = "rmtree" /\ pc' = "drop" /\ cmd.name = "uninstall" /\ cmd' = cmd
        /\ UNCHANGED <<entry, local, volume, hurt>>
        /\ bundle' = [a \in Names |-> IF a \in Of(cmd) THEN 0 ELSE bundle[a]]
        /\ orphaned' = {a \in orphaned \cup Of(cmd) : volume[a] # 0}
    BY <1>13 DEF Rmtree, GoTo, Control
  <2>2. SecretsFitData'
    BY <2>1 DEF Kept, SecretsFitData, TypeOK
  <2>3. \A a \in WithData \ hurt' : entry'[a] # "none" => bundle'[a] # 0 \/ a \in Of(cmd)
    BY <2>1, AddonsAssumption DEF Kept
  <2> QED BY <2>1, <2>2, <2>3 DEF Kept, AddonStarts, Of
<1>14. CASE Drop
  <2>1. /\ pc = "drop" /\ pc' = "overrides" /\ cmd.name = "uninstall" /\ cmd' = cmd
        /\ UNCHANGED <<bundle, local, volume, hurt, orphaned>>
        /\ entry' = [a \in Names |-> IF a \in Of(cmd) THEN "none" ELSE entry[a]]
    BY <1>14 DEF Drop, GoTo, Control
  <2>2. Of(cmd) \subseteq Names
    BY DEF Of, TypeOK, Commands
  <2> QED BY <2>1, <2>2, KeptFrame DEF AddonStarts
<1>15. CASE GenerateOverrides
  BY <1>15, KeptSame DEF GenerateOverrides, GoTo
<1>16. CASE GenerateCerts
  <2>1. pc = "certs" /\ UNCHANGED <<entry, bundle, local, volume, orphaned>>
    BY <1>16 DEF GenerateCerts
  <2>2. CASE cmd.name \in Starts
    BY <1>16, <2>1, <2>2, KeptSame DEF GenerateCerts, GoTo, Starts, Finish, NoCommand, Command
  <2>3. CASE cmd.name \notin Starts
    <3>1. pc' = "idle" /\ cmd'.name = "none" /\ Of(cmd)' = {}
      BY <1>16, <2>3, Finished DEF GenerateCerts, Starts
    <3>2. \A a \in Names \ hurt' :
            a \in hurt => a \in Of(cmd) /\ cmd.name = "uninstall" /\ cmd.cleanup
      BY <1>16, <2>3 DEF GenerateCerts, Starts
    <3>3. \A a \in Names \ hurt' : a \in hurt => volume[a] = 0 /\ entry[a] = "none"
      BY <2>1, <3>2 DEF Kept, Tidy
    <3>4. SecretsFitData'
      BY <2>1, <3>3 DEF Kept, SecretsFitData
    <3>5. \A a \in WithData \ hurt' : entry'[a] # "none" => bundle'[a] # 0
      BY <2>1, <3>3, AddonsAssumption DEF Kept
    <3> QED BY <3>1, <3>4, <3>5 DEF Kept
  <2> QED BY <2>2, <2>3
<1>17. CASE NextAddon
  <2>1. /\ pc = "addons" /\ pc' = "materialize" /\ cmd'.name = "start --addons"
        /\ UNCHANGED <<entry, bundle, local, volume, hurt, orphaned>>
    BY <1>17 DEF NextAddon, GoTo, Control, TypeOK, Commands
  <2> QED BY <2>1, KeptFrame
<1>18. CASE AddonsStarted
  <2>1. /\ pc = "addons" /\ pc' = "core" /\ cmd'.name = "start --addons"
        /\ UNCHANGED <<entry, bundle, local, volume, hurt, orphaned>>
    BY <1>18 DEF AddonsStarted, GoTo, Control, TypeOK, Commands
  <2> QED BY <2>1, KeptFrame
<1>19. CASE Materialize
  <2>1. /\ pc = "materialize" /\ pc' = "overrides" /\ cmd.name \in AddonStarts /\ cmd' = cmd
        /\ UNCHANGED <<entry, bundle, volume, hurt, orphaned>>
        /\ local' = [a \in Names |-> IF a \in Of(cmd) /\ bundle[a] # 0 THEN bundle[a] ELSE local[a]]
    BY <1>19 DEF Materialize, GoTo, Control
  <2>2. SecretsFitData'
    BY <2>1 DEF Kept, SecretsFitData
  <2>3. Of(cmd)' = Of(cmd) /\ Of(cmd) \subseteq Names
    BY <2>1 DEF Of, TypeOK, Commands
  <2> QED BY <2>1, <2>2, <2>3 DEF Kept, AddonStarts
<1>20. CASE Up
  <2>1. /\ pc = "up" /\ cmd.name \in AddonStarts
        /\ UNCHANGED <<entry, bundle, local, hurt, orphaned>>
    BY <1>20 DEF Up, Control
  <2>2. PICK a \in Of(cmd) : volume' = IF a \in WithData /\ volume[a] = 0
                                       THEN [volume EXCEPT ![a] = local[a]] ELSE volume
    BY <1>20 DEF Up
  <2>3. a \in Names /\ entry[a] = "active"
    BY <2>1, <2>2 DEF Gated, Active
  <2>4. a \in WithData \ hurt => bundle[a] # 0 /\ local[a] = bundle[a]
    BY <2>1, <2>2, <2>3 DEF Kept
  <2>5. SecretsFitData'
    BY <2>1, <2>2, <2>3, <2>4 DEF Kept, SecretsFitData, TypeOK
  <2>6. \A b \in WithData \ hurt' : entry'[b] # "none" => bundle'[b] # 0
    BY <2>1 DEF Kept
  <2>7. \/ pc' = "idle" /\ Of(cmd)' = {}
        \/ pc' = "addons" /\ cmd' = cmd
    BY <1>20, Finished DEF Up, GoTo, Of
  <2> QED BY <2>1, <2>5, <2>6, <2>7 DEF Kept, AddonStarts
<1>21. CASE CoreUp
  <2>1. pc = "core" /\ UNCHANGED <<entry, bundle, local, volume, hurt, orphaned>>
    BY <1>21 DEF CoreUp
  <2> QED BY <1>21, <2>1, Finished, KeptFrame DEF CoreUp, Of
<1>22. CASE ComposeFails
  <2>1. pc \in {"up", "core"} /\ UNCHANGED <<entry, bundle, local, volume, hurt, orphaned>>
    BY <1>22 DEF ComposeFails
  <2> QED BY <1>22, <2>1, Finished, KeptFrame DEF ComposeFails, Of
<1>23. CASE Kill
  <2>1. /\ UNCHANGED <<entry, bundle, local, volume, orphaned>>
        /\ hurt' = IF cmd.name \in Removals THEN hurt \cup Of(cmd) ELSE hurt
    BY <1>23 DEF Kill, Removals
  <2>2. pc = "drop" => cmd.name \in Removals
    BY DEF Control, Removals
  <2> QED BY <1>23, <2>1, <2>2, Finished, KeptFrame DEF Kill, Of
<1>24. CASE UNCHANGED vars
  BY <1>24, KeptSame DEF vars
<1>25. CASE AddonsUnlisted
  BY <1>25, Unlisted, KeptFrame DEF TypeOK, Of
<1> QED
  BY <1>1, <1>2, <1>3, <1>4, <1>5, <1>6, <1>7, <1>8, <1>9, <1>10, <1>11, <1>12, <1>13,
     <1>14, <1>15, <1>16, <1>17, <1>18, <1>19, <1>20, <1>21, <1>22, <1>23, <1>24, <1>25
     DEF Next

-----------------------------------------------------------------------------
LEMMA Invariance == Spec => []IInv
<1>1. Init => IInv
  BY InitInvariant
<1>2. IInv /\ [Next]_vars => IInv'
  BY TypeStep, ControlStep, GatedStep, AttachedStep, TidyStep, KeptStep DEF IInv
<1> QED BY <1>1, <1>2, PTL DEF Spec

(* An add-on's data never loses its secrets (SecretsFitData): whatever is  *)
(* installed, started, removed, installed again and killed in between,     *)
(* nothing but an uninstall that keeps the volumes, or one that was        *)
(* killed, separates them (addons.py:29-32, README.md:553-554).            *)
THEOREM SecretsAreKept == Spec => []SecretsFitData
<1>1. IInv => SecretsFitData
  BY DEF IInv, Kept
<1> QED BY <1>1, Invariance, PTL

(* remove and uninstall clean up (NothingLeft): between commands no        *)
(* override of an inactive add-on and no container of an unregistered one  *)
(* is left (cli_addon.py:303-371, addon.sh:264-291).                       *)
THEOREM RemovedForGood == Spec => []NothingLeft
<1>1. IInv => NothingLeft
  <2> SUFFICES ASSUME IInv, pc = "idle", NEW a \in Names \ hurt
               PROVE  /\ a \notin Active => overrides[a] = {} /\ a \notin certs
                      /\ a \notin Registered => a \notin running
    BY DEF NothingLeft
  <2>1. cmd.name = "none"
    BY DEF IInv, Control
  <2> QED BY <2>1 DEF IInv, Tidy
<1> QED BY <1>1, Invariance, PTL

(* When start brings the core up, it sees every active add-on that has a   *)
(* network, with the services it asks for today, and no other; and after a *)
(* start --addons that had a list of them, every active add-on that is     *)
(* attached has one (StartSeesAddons; lifecycle.sh:99-132,                 *)
(* README.md:307-309).                                                     *)
THEOREM CoreSeesAddons == Spec => []StartSeesAddons
<1>1. IInv => StartSeesAddons
  <2> SUFFICES ASSUME IInv, pc = "core" PROVE StartSeesAddons
    BY DEF StartSeesAddons
  <2> DEFINE asking == {a \in Active : Attach(a) # {}}
  <2>1. cmd.name \in Starts
    BY DEF IInv, Control
  <2>2. \A a \in asking : overrides[a] = Attach(a)
    BY <2>1 DEF IInv, Attached
  <2>3. asking \cap nets \subseteq Applied
    BY <2>2 DEF Applied
  <2>4. cmd.name = "start --addons" /\ ~ cmd.unlisted => asking \subseteq nets
    BY <2>1 DEF IInv, Attached
  <2>5. Applied \ hurt \subseteq Active
    BY DEF IInv, Tidy, TypeOK, Applied
  <2> QED BY <2>2, <2>3, <2>4, <2>5 DEF StartSeesAddons
<1> QED BY <1>1, Invariance, PTL

-----------------------------------------------------------------------------
(* What the gate of an enforcing deployment lets through without force     *)
(* attaches nothing that the core does not have.                           *)
LEMMA ToleratedAttaches ==
  ASSUME NEW m, NEW c, Tolerated(evaluate_addon(m, c), "enforce", FALSE)
  PROVE  Attaches(m, c)
<1>1. evaluate_addon(m, c) \notin {"ERROR", "INCOMPATIBLE"}
  BY DEF Tolerated
<1>2. AxisStatus(m, c) \in {"OK", "UNKNOWN", "ERROR", "INCOMPATIBLE"}
  BY DEF AxisStatus, RangeStatus
<1> QED BY <1>1, <1>2 DEF evaluate_addon

(* An unforced start under enforce comes to no compose call that an        *)
(* override of an active add-on must break (OverridesNameServices;         *)
(* compat.py:186-250, gen_override.py:69-102).                             *)
THEOREM ComposeFindsServices == Spec => []OverridesNameServices
<1>1. IInv => OverridesNameServices
  <2> SUFFICES ASSUME IInv, pc = "core", Mode = "enforce", ~ cmd.force,
                      NEW a \in Applied \ hurt, Attach(a) # {}
               PROVE  core.services = None \/ overrides[a] \subseteq The(core.services)
    BY DEF OverridesNameServices
  <2>1. cmd.name \in Starts /\ cmd.force = FALSE
    BY DEF IInv, Control, TypeOK, Commands
  <2>2. a \in Active
    BY DEF IInv, Tidy, TypeOK, Applied
  <2>3. manifest[a] # None /\ overrides[a] = The(manifest[a]).attach
    BY <2>1, <2>2 DEF IInv, Attached, Attach
  <2>4. Tolerated(Status(a), "enforce", FALSE)
    BY <2>1, <2>2, PassesEach DEF IInv, Gated
  <2>5. Attaches(The(manifest[a]), core)
    BY <2>3, <2>4, ToleratedAttaches DEF Status
  <2> QED BY <2>3, <2>5 DEF Attaches, Attach
<1> QED BY <1>1, Invariance, PTL

(* Nothing comes up that the gate does not tolerate at that moment         *)
(* (OnlyToleratedStart; cli_addon.py:161-169, lifecycle.sh:70-78).         *)
THEOREM GatedStart == Spec => OnlyToleratedStart
<1> DEFINE A == /\ \A a \in running' \ running : Tolerated(Status(a), Mode, cmd.force)
                /\ coreUp' /\ ~ coreUp => Passes(Active, cmd.force)
<1>1. IInv /\ [Next]_vars => [A]_vars
  <2> SUFFICES ASSUME IInv, Next PROVE A
    OBVIOUS
  <2> USE DEF addon, coreVars
  <2>1. ASSUME UNCHANGED coreUp \/ ~ coreUp', running' \subseteq running PROVE A
    BY <2>1
  <2>2. ASSUME NEW a \in Names, NEW yes \in BOOLEAN, Install(a, yes) \/ AddonStart(a, yes)
        PROVE  A
    BY <2>1, <2>2 DEF Install, AddonStart, Quiet
  <2>3. ASSUME NEW a \in Names, NEW yes \in BOOLEAN, Uninstall(a, yes) \/ AddonStop(a, yes)
        PROVE  A
    BY <2>1, <2>3 DEF Uninstall, AddonStop, Halted
  <2>4. ASSUME NEW a \in Names, Remove(a) \/ Update(a)
        PROVE  A
    BY <2>1, <2>4 DEF Remove, Update
  <2>5. ASSUME NEW yes \in BOOLEAN, NEW flag \in BOOLEAN, Start(yes, flag) \/ Stop(yes, flag)
        PROVE  A
    BY <2>1, <2>5 DEF Start, Stop, Quiet, Halted
  <2>6. CASE Seed \/ Save \/ Unlink \/ Rmtree \/ Drop \/ GenerateOverrides \/ GenerateCerts
    BY <2>1, <2>6 DEF Seed, Save, Unlink, Rmtree, Drop, GenerateOverrides, GenerateCerts
  <2>7. CASE NextAddon \/ AddonsUnlisted \/ AddonsStarted \/ Materialize \/ ComposeFails
               \/ Checkout \/ Kill
    BY <2>1, <2>7 DEF NextAddon, AddonsUnlisted, AddonsStarted, Materialize, ComposeFails,
                      Checkout, Kill
  <2>8. CASE Up
    <3>1. cmd.name \in AddonStarts /\ coreUp' = coreUp /\ running' \ running \subseteq Of(cmd)
      BY <2>8 DEF Up, IInv, Control
    <3>2. Passes(Of(cmd), cmd.force)
      BY <3>1, PassesEach DEF IInv, Gated, Starts, AddonStarts
    <3> QED BY <3>1, <3>2, PassesEach
  <2>9. CASE CoreUp
    <3>1. cmd.name \in Starts /\ running' = running
      BY <2>9 DEF CoreUp, IInv, Control
    <3> QED BY <3>1 DEF IInv, Gated
  <2> QED BY <2>2, <2>3, <2>4, <2>5, <2>6, <2>7, <2>8, <2>9 DEF Next
<1> QED BY <1>1, Invariance, PTL DEF Spec, OnlyToleratedStart
=============================================================================
