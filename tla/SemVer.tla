------------------------------- MODULE SemVer -------------------------------
(***************************************************************************)
(* The version arithmetic of tools/lib/semver.py.  A version is its triple *)
(* and the identifiers of its pre-release, none for a release.  An         *)
(* identifier is <<0, n>> for the number n and <<1, w>> for the word that  *)
(* is the w-th in the order of strings; build metadata is dropped.         *)
(***************************************************************************)
EXTENDS Integers, Sequences

Triple == [1..3 -> Nat]
Identifier == {0, 1} \X Nat
Version == [triple : Triple, pre : Seq(Identifier)]
Release(triple) == [triple |-> triple, pre |-> <<>>]

(* Tuples of Python compare by their first difference. *)
TripleLess(s, t) ==
  \E i \in 1..3 : s[i] < t[i] /\ \A j \in 1..(i - 1) : s[j] = t[j]

IdentifierLess(a, b) == a[1] < b[1] \/ (a[1] = b[1] /\ a[2] < b[2])

(* Lists too, and a list comes before the longer ones that it begins. *)
KeyLess(p, q) ==
  \E i \in 1..Len(q) :
    /\ \A j \in 1..(i - 1) : j <= Len(p) /\ p[j] = q[j]
    /\ i = Len(p) + 1 \/ (i <= Len(p) /\ IdentifierLess(p[i], q[i]))

compare(a, b) ==
  IF a.triple # b.triple THEN IF TripleLess(a.triple, b.triple) THEN -1 ELSE 1
  ELSE IF a.pre = b.pre THEN 0
  ELSE IF a.pre = <<>> THEN 1
  ELSE IF b.pre = <<>> THEN -1
  ELSE IF KeyLess(a.pre, b.pre) THEN -1 ELSE 1

-----------------------------------------------------------------------------
(* Constraints: sets of clauses, all of which must hold. *)
Operators == {">=", ">", "<", "<=", "==", "!="}
Clause == [op : Operators, bound : Version]

Accepts(op) ==
  CASE op = ">=" -> {0, 1} [] op = ">" -> {1}  [] op = "<" -> {-1}
    [] op = "<=" -> {-1, 0} [] op = "==" -> {0} [] op = "!=" -> {-1, 1}

CaretUpper(t) ==
  IF t[1] > 0 THEN <<t[1] + 1, 0, 0>>
  ELSE IF t[2] > 0 THEN <<0, t[2] + 1, 0>>
  ELSE <<0, 0, t[3] + 1>>

Between(lower, upper) ==
  {[op |-> ">=", bound |-> lower], [op |-> "<", bound |-> Release(upper)]}
Caret(lower) == Between(lower, CaretUpper(lower.triple))
Tilde(lower) == Between(lower, <<lower.triple[1], lower.triple[2] + 1, 0>>)

(* A pre-release needs a clause that names a pre-release of its triple. *)
OptedIn(v, clauses) ==
  v.pre = <<>> \/ \E c \in clauses : c.bound.pre # <<>> /\ c.bound.triple = v.triple

satisfies(v, clauses) ==
  OptedIn(v, clauses) /\ \A c \in clauses : compare(v, c.bound) \in Accepts(c.op)
=============================================================================
