------------------------- MODULE QueryPolicy_proofs -------------------------
(***************************************************************************)
(* What the policy does to a statement before it is sent, proved for every *)
(* set of statements, pages and catalogs and every number of visible rows: *)
(* that one statement is run, and it reads; that MySQL takes it if it took *)
(* the statement of the user; that no SELECT of the editor reads more than *)
(* is shown and the row that proves there is more; and, with what the      *)
(* proofs of QueryPath_proofs say of the bytes, that a statement of the    *)
(* editor shows its own rows.                                              *)
(*                                                                         *)
(* A statement is a sequence, and what the policy and MySQL read of it are *)
(* the words at some of its places.  So the proofs are about places: At is *)
(* proved to give the words at a set of places in their order, a statement *)
(* with a probe or an order in it is a Spliced one, and Inserts is enough  *)
(* for every word to be read after as it was read before.                  *)
(***************************************************************************)
EXTENDS QueryPath_proofs, FiniteSetTheorems, WellFoundedInduction

(***************************************************************************)
(* Induction over numbers, for a set of them, and recursion along them.    *)
(***************************************************************************)
LEMMA LeastNumber ==
    ASSUME NEW T, T \subseteq Nat, T # {}
    PROVE  \E x \in T : \A y \in T : x <= y
<1> DEFINE R == OpToRel(<, Nat)
<1>1. IsWellFoundedOn(R, Nat)
  BY NatLessThanWellFounded
<1>2. \A x, y \in Nat : x < y => <<x, y>> \in R
  BY DEF OpToRel
<1> HIDE DEF R
<1>3. PICK x \in T : \A y \in T : ~ (<<y, x>> \in R)
  BY <1>1, WFMin
<1>4. \A y \in T : x \in Nat /\ y \in Nat /\ ~(y < x)
  BY <1>2, <1>3
<1>5. \A y \in T : x <= y
  BY <1>4
<1> QED BY <1>5

LEMMA Induct ==
    ASSUME NEW T, 0 \in T, \A n \in Nat : n \in T => n + 1 \in T
    PROVE  Nat \subseteq T
<1> DEFINE B == Nat \ T
<1>1. SUFFICES ASSUME B # {} PROVE FALSE
  OBVIOUS
<1>2. PICK x \in B : \A y \in B : x <= y
  <2>1. B \subseteq Nat OBVIOUS
  <2> HIDE DEF B
  <2> QED BY <1>1, <2>1, LeastNumber
<1>3. x # 0 /\ x - 1 \in Nat
  OBVIOUS
<1>4. x - 1 \notin B
  BY <1>2, <1>3
<1> QED BY <1>3, <1>4

\* What a function on 0..n has that is defined from each place to the next.
Steps(f, base, step, n) ==
    f[0] = base /\ \A i \in 1..n : f[i] = step[<<f[i - 1], i>>]

LEMMA Recursion ==
    ASSUME NEW S, NEW base \in S, NEW step \in [S \X Nat -> S], NEW n \in Nat
    PROVE  \E f \in [0..n -> S] : Steps(f, base, step, n)
<1> DEFINE T == {m \in Nat : \E f \in [0..m -> S] : Steps(f, base, step, m)}
<1>1. 0 \in T
  <2> DEFINE f == [i \in 0..0 |-> base]
  <2>1. f \in [0..0 -> S] /\ Steps(f, base, step, 0)
    BY DEF Steps
  <2> QED BY <2>1
<1>2. ASSUME NEW m \in Nat, m \in T PROVE m + 1 \in T
  <2>1. PICK f \in [0..m -> S] : Steps(f, base, step, m)
    BY <1>2
  <2> DEFINE g == [i \in 0..(m + 1) |-> IF i = m + 1 THEN step[<<f[m], m + 1>>] ELSE f[i]]
  <2>2. g \in [0..(m + 1) -> S]
    OBVIOUS
  <2>3. g[0] = base
    BY <2>1 DEF Steps
  <2>4. ASSUME NEW i \in 1..(m + 1) PROVE g[i] = step[<<g[i - 1], i>>]
    <3>1. i - 1 \in 0..m /\ g[i - 1] = f[i - 1]
      OBVIOUS
    <3>2. CASE i = m + 1
      BY <3>1, <3>2, SMTT(30)
    <3>3. CASE i # m + 1
      <4>1. i \in 1..m /\ g[i] = f[i]
        BY <3>3
      <4> QED BY <4>1, <3>1, <2>1 DEF Steps
    <3> QED BY <3>2, <3>3
  <2>5. Steps(g, base, step, m + 1)
    BY <2>3, <2>4 DEF Steps
  <2> HIDE DEF g
  <2> QED BY <2>2, <2>5
<1> HIDE DEF T
<1>3. Nat \subseteq T
  BY <1>1, <1>2, Induct
<1> QED BY <1>3 DEF T

Glued(s, t) == s \o t

LEMMA GluedFacts ==
    ASSUME NEW S, NEW s \in Seq(S), NEW t \in Seq(S)
    PROVE  /\ Glued(s, t) \in Seq(S) /\ Len(Glued(s, t)) = Len(s) + Len(t)
           /\ \A k \in 1..(Len(s) + Len(t)) :
                 Glued(s, t)[k] = IF k <= Len(s) THEN s[k] ELSE t[k - Len(s)]
BY DEF Glued

LEMMA SequenceOf ==
    ASSUME NEW S, NEW T, S \subseteq T, NEW s \in Seq(S)
    PROVE  s \in Seq(T) /\ Len(s) \in Nat /\ DOMAIN s = 1..Len(s) /\ \A k \in 1..Len(s) : s[k] \in S
OBVIOUS

(***************************************************************************)
(* InOrder.                                                                *)
(***************************************************************************)
Enumerates(at, P) ==
    /\ at \in Seq(P)
    /\ \A j, k \in DOMAIN at : j < k => at[j] < at[k]
    /\ \A p \in P : \E k \in DOMAIN at : at[k] = p

LEMMA InOrderSteps ==
    ASSUME NEW P, NEW n \in Nat
    PROVE  \E f \in [0..n -> Seq(Nat)] :
               /\ f[0] = <<>>
               /\ \A i \in 1..n : f[i] = IF i \in P THEN Append(f[i - 1], i) ELSE f[i - 1]
               /\ InOrder(P, n) = f[n]
<1> DEFINE step == [a \in Seq(Nat) \X Nat |-> IF a[2] \in P THEN Append(a[1], a[2]) ELSE a[1]]
           next(f) == [i \in 0..n |-> IF i = 0 THEN <<>>
                                      ELSE IF i \in P THEN Append(f[i - 1], i) ELSE f[i - 1]]
           upTo == CHOOSE f : f = next(f)
<1>1. step \in [Seq(Nat) \X Nat -> Seq(Nat)]
  OBVIOUS
<1>2. <<>> \in Seq(Nat)
  OBVIOUS
<1>3. PICK f \in [0..n -> Seq(Nat)] : Steps(f, <<>>, step, n)
  <2> HIDE DEF step
  <2> QED BY <1>1, <1>2, Recursion
<1>4. \A i \in 1..n : f[i] = IF i \in P THEN Append(f[i - 1], i) ELSE f[i - 1]
  <2> TAKE i \in 1..n
  <2>1. f[i] = step[<<f[i - 1], i>>]
    BY <1>3 DEF Steps
  <2>2. <<f[i - 1], i>> \in Seq(Nat) \X Nat
    OBVIOUS
  <2> QED BY <2>1, <2>2
<1>5. f[0] = <<>>
  BY <1>3 DEF Steps
<1>6. f = next(f)
  <2>1. \A i \in 0..n : f[i] = next(f)[i]
    <3> TAKE i \in 0..n
    <3>1. CASE i = 0
      BY <3>1, <1>5
    <3>2. CASE i # 0
      <4>1. i \in 1..n
        BY <3>2
      <4> QED BY <4>1, <3>2, <1>4
    <3> QED BY <3>1, <3>2
  <2>2. next(f) = [i \in 0..n |-> next(f)[i]]
    OBVIOUS
  <2>3. f = [i \in 0..n |-> f[i]]
    OBVIOUS
  <2> HIDE DEF next
  <2> QED BY <2>1, <2>2, <2>3
<1>7. upTo = next(upTo)
  <2> HIDE DEF next
  <2> QED BY <1>6
<1>8. InOrder(P, n) = upTo[n]
  BY DEF InOrder
<1> HIDE DEF upTo
<1> DEFINE T == {m \in Nat : m <= n => upTo[m] = f[m]}
<1>9. 0 \in T
  BY <1>5, <1>7
<1>10. ASSUME NEW m \in Nat, m \in T PROVE m + 1 \in T
  <2>1. CASE m + 1 <= n
    <3>1. m + 1 \in 0..n /\ m + 1 \in 1..n /\ m + 1 # 0 /\ (m + 1) - 1 = m /\ upTo[m] = f[m]
      BY <2>1, <1>10
    <3>2. upTo[m + 1] = IF m + 1 \in P THEN Append(upTo[m], m + 1) ELSE upTo[m]
      BY <3>1, <1>7
    <3>3. f[m + 1] = IF m + 1 \in P THEN Append(f[m], m + 1) ELSE f[m]
      BY <3>1, <1>4
    <3> QED BY <3>1, <3>2, <3>3
  <2> QED BY <2>1
<1> HIDE DEF T
<1>11. Nat \subseteq T
  BY <1>9, <1>10, Induct
<1>12. InOrder(P, n) = f[n]
  BY <1>8, <1>11 DEF T
<1> QED BY <1>4, <1>5, <1>12

LEMMA InOrderFacts ==
    ASSUME NEW n \in Nat, NEW P \in SUBSET (1..n)
    PROVE  Enumerates(InOrder(P, n), P)
<1>1. PICK f \in [0..n -> Seq(Nat)] :
         /\ f[0] = <<>>
         /\ \A i \in 1..n : f[i] = IF i \in P THEN Append(f[i - 1], i) ELSE f[i - 1]
         /\ InOrder(P, n) = f[n]
  BY InOrderSteps
<1> DEFINE T == {m \in Nat : m <= n => Enumerates(f[m], P \cap (1..m))}
<1>2. 0 \in T
  BY <1>1 DEF Enumerates
<1>3. ASSUME NEW m \in Nat, m \in T, m + 1 <= n PROVE Enumerates(f[m + 1], P \cap (1..(m + 1)))
  <2>1. Enumerates(f[m], P \cap (1..m)) /\ f[m] \in Seq(Nat) /\ Len(f[m]) \in Nat
    BY <1>3
  <2>2. CASE m + 1 \notin P
    <3>1. f[m + 1] = f[m] /\ P \cap (1..(m + 1)) = P \cap (1..m)
      BY <1>1, <1>3, <2>2
    <3> QED BY <2>1, <3>1
  <2>3. CASE m + 1 \in P
    <3> DEFINE at == f[m]
               next == Append(at, m + 1)
    <3>1. f[m + 1] = next
      <4>1. m + 1 \in 1..n /\ (m + 1) - 1 = m
        BY <1>3
      <4> QED BY <1>1, <4>1, <2>3
    <3>2. \A i \in DOMAIN at : at[i] \in P /\ at[i] \in 1..m
      BY <2>1 DEF Enumerates
    <3>3. Len(next) = Len(at) + 1 /\ next[Len(at) + 1] = m + 1
          /\ \A i \in 1..Len(at) : next[i] = at[i]
      BY <2>1
    <3>4. next \in Seq(P \cap (1..(m + 1)))
      <4>1. at \in Seq(P \cap (1..m))
        BY <2>1 DEF Enumerates
      <4>2. at \in Seq(P \cap (1..(m + 1)))
        BY <4>1, <3>2
      <4>3. m + 1 \in P \cap (1..(m + 1))
        BY <2>3
      <4> HIDE DEF at
      <4> QED BY <4>2, <4>3
    <3>5. DOMAIN next = 1..(Len(at) + 1) /\ DOMAIN at = 1..Len(at)
      BY <2>1
    <3> HIDE DEF next
    <3>6. \A j, k \in DOMAIN next : j < k => next[j] < next[k]
      <4> TAKE j, k \in DOMAIN next
      <4> HAVE j < k
      <4>0. j \in 1..(Len(at) + 1) /\ k \in 1..(Len(at) + 1) /\ Len(at) \in Nat
        BY <3>5, <2>1
      <4>1. j \in 1..Len(at) /\ next[j] = at[j]
        <5> HIDE DEF at
        <5>1. j \in 1..Len(at)
          BY <4>0
        <5> QED BY <5>1, <3>3
      <4>2. CASE k = Len(at) + 1
        <5>1. at[j] \in 1..m /\ next[k] = m + 1
          BY <4>1, <4>2, <3>2, <3>3, <3>5
        <5> HIDE DEF at
        <5> QED BY <5>1, <4>1
      <4>3. CASE k # Len(at) + 1
        <5>1. k \in 1..Len(at) /\ next[k] = at[k]
          <6> HIDE DEF at
          <6>1. k \in 1..Len(at)
            BY <4>0, <4>3
          <6> QED BY <6>1, <3>3
        <5>2. at[j] < at[k]
          BY <4>1, <5>1, <3>5, <2>1 DEF Enumerates
        <5> HIDE DEF at
        <5> QED BY <5>1, <5>2, <4>1
      <4> QED BY <4>2, <4>3
    <3>7. ASSUME NEW p \in P \cap (1..(m + 1)) PROVE \E k \in DOMAIN next : next[k] = p
      <4>1. CASE p = m + 1
        <5>1. Len(at) + 1 \in DOMAIN next
          BY <3>5, <2>1
        <5> QED BY <4>1, <5>1, <3>3
      <4>2. CASE p # m + 1
        <5>1. PICK k \in DOMAIN at : at[k] = p
          BY <4>2, <2>1 DEF Enumerates
        <5> QED BY <5>1, <3>3, <3>5, <2>1
      <4> QED BY <4>1, <4>2
    <3> QED BY <3>1, <3>4, <3>6, <3>7 DEF Enumerates
  <2> QED BY <2>2, <2>3
<1>4. ASSUME NEW m \in Nat, m \in T PROVE m + 1 \in T
  <2>1. CASE m + 1 <= n
    <3>1. Enumerates(f[m + 1], P \cap (1..(m + 1)))
      <4> HIDE DEF T
      <4> QED BY <1>3, <1>4, <2>1
    <3> QED BY <3>1
  <2> QED BY <2>1
<1> HIDE DEF T
<1>5. Nat \subseteq T
  BY <1>2, <1>4, Induct
<1>6. n \in T
  BY <1>5
<1>7. Enumerates(f[n], P \cap (1..n))
  BY <1>6 DEF T
<1>8. P \cap (1..n) = P
  OBVIOUS
<1> QED BY <1>1, <1>7, <1>8

\* There is one enumeration of a set.
LEMMA OneEnumeration ==
    ASSUME NEW P, P \subseteq Nat, NEW a, NEW b, Enumerates(a, P), Enumerates(b, P)
    PROVE  a = b
<1>1. /\ a \in Seq(Nat) /\ b \in Seq(Nat) /\ Len(a) \in Nat /\ Len(b) \in Nat
      /\ DOMAIN a = 1..Len(a) /\ DOMAIN b = 1..Len(b)
      /\ \A k \in 1..Len(a) : a[k] \in P
      /\ \A k \in 1..Len(b) : b[k] \in P
  <2>1. a \in Seq(P) /\ b \in Seq(P)
    BY DEF Enumerates
  <2> QED BY <2>1, SequenceOf
<1> DEFINE Same(k) == k \in 1..Len(a) /\ k \in 1..Len(b) /\ a[k] = b[k]
           D == {k \in Nat : k \in 1..Len(a) \cup 1..Len(b) /\ ~Same(k)}
<1>2. ASSUME D # {} PROVE FALSE
  <2>1. PICK k \in D : \A j \in D : k <= j
    <3>1. D \subseteq Nat OBVIOUS
    <3> HIDE DEF D
    <3> QED BY <1>2, <3>1, LeastNumber
  <2>2. k \in Nat /\ k \in 1..Len(a) \cup 1..Len(b) /\ ~Same(k) /\ \A j \in D : k <= j
    BY <2>1
  <2>3. \A j \in 1..(k - 1) : Same(j)
    <3> TAKE j \in 1..(k - 1)
    <3>1. j \notin D
      BY <2>2
    <3>2. j \in Nat /\ j \in 1..Len(a) \cup 1..Len(b)
      BY <2>2, <1>1
    <3> QED BY <3>1, <3>2
  <2>4. ASSUME k \in 1..Len(a) PROVE FALSE
    <3>1. PICK j \in 1..Len(b) : b[j] = a[k]
      BY <2>4, <1>1 DEF Enumerates
    <3>2. ASSUME j < k PROVE FALSE
      <4>1. j \in 1..(k - 1)
        BY <2>2, <3>2, <1>1
      <4>2. j \in 1..Len(a) /\ a[j] = b[j]
        BY <4>1, <2>3
      <4>3. a[j] < a[k]
        BY <4>2, <2>4, <1>1, <3>2 DEF Enumerates
      <4>4. a[k] \in Nat
        BY <2>4, <1>1
      <4> QED BY <4>2, <4>3, <4>4, <3>1
    <3>3. k \in 1..Len(b)
      BY <3>1, <3>2, <2>2, <1>1
    <3>4. j # k
      BY <2>2, <2>4, <3>1, <3>3
    <3>5. b[k] < b[j]
      <4>1. k < j
        BY <3>2, <3>4, <2>2, <1>1
      <4> QED BY <4>1, <3>3, <3>1, <1>1 DEF Enumerates
    <3>6. PICK l \in 1..Len(a) : a[l] = b[k]
      BY <3>3, <1>1 DEF Enumerates
    <3>7. a[l] < a[k] /\ a[l] \in Nat /\ a[k] \in Nat
      BY <3>5, <3>6, <3>1, <2>4, <1>1
    <3>8. l < k
      <4>1. k < l => a[k] < a[l]
        BY <3>6, <2>4, <1>1 DEF Enumerates
      <4>2. ~(k < l) /\ k # l
        BY <4>1, <3>7
      <4> QED BY <4>2, <2>2, <1>1
    <3>9. l \in 1..Len(b) /\ a[l] = b[l]
      BY <2>3, <3>8, <2>2, <1>1
    <3>10. b[l] < b[k] /\ b[l] \in Nat
      BY <3>9, <3>8, <3>3, <1>1 DEF Enumerates
    <3> QED BY <3>9, <3>10, <3>6
  <2>5. ASSUME k \in 1..Len(b) PROVE FALSE
    <3>1. PICK j \in 1..Len(a) : a[j] = b[k]
      BY <2>5, <1>1 DEF Enumerates
    <3>2. ASSUME j < k PROVE FALSE
      <4>1. j \in 1..(k - 1)
        BY <2>2, <3>2, <1>1
      <4>2. j \in 1..Len(b) /\ a[j] = b[j]
        BY <4>1, <2>3
      <4>3. b[j] < b[k]
        BY <4>2, <2>5, <1>1, <3>2 DEF Enumerates
      <4>4. b[k] \in Nat
        BY <2>5, <1>1
      <4> QED BY <4>2, <4>3, <4>4, <3>1
    <3>3. k \in 1..Len(a)
      BY <3>1, <3>2, <2>2, <1>1
    <3> QED BY <3>3, <2>4
  <2> QED BY <2>2, <2>4, <2>5
<1>3. D = {}
  BY <1>2
<1>4. Len(a) = Len(b)
  <2>1. ASSUME Len(a) < Len(b) PROVE FALSE
    <3>1. Len(b) \in 1..Len(b) /\ Len(b) \notin 1..Len(a)
      BY <1>1, <2>1
    <3>2. Len(b) \in D
      BY <1>1, <3>1
    <3> QED BY <3>2, <1>3
  <2>2. ASSUME Len(b) < Len(a) PROVE FALSE
    <3>1. Len(a) \in 1..Len(a) /\ Len(a) \notin 1..Len(b)
      BY <1>1, <2>2
    <3>2. Len(a) \in D
      BY <1>1, <3>1
    <3> QED BY <3>2, <1>3
  <2>3. Len(a) \in Nat /\ Len(b) \in Nat
    BY <1>1
  <2>4. ~(Len(a) < Len(b)) /\ ~(Len(b) < Len(a))
    BY <2>1, <2>2
  <2> QED BY <2>3, <2>4
<1>5. \A k \in 1..Len(a) : a[k] = b[k]
  <2> TAKE k \in 1..Len(a)
  <2>1. k \in Nat /\ k \notin D
    BY <1>1, <1>3
  <2> QED BY <2>1
<1> QED BY <1>1, <1>4, <1>5

(***************************************************************************)
(* At: the words at some places of a text.                                 *)
(***************************************************************************)
\* w is what stands in seq at the places of at.
Reads(w, seq, at) == w = [k \in DOMAIN at |-> seq[at[k]]]

LEMMA AtFacts ==
    ASSUME NEW S, NEW seq \in Seq(S), NEW P \in SUBSET (1..Len(seq)), NEW at, Enumerates(at, P)
    PROVE  /\ Reads(At(seq, P), seq, at)
           /\ at \in Seq(Nat)
           /\ Len(At(seq, P)) = Len(at)
           /\ At(seq, P) \in Seq(S)
<1>1. Len(seq) \in Nat
  OBVIOUS
<1>2. Enumerates(InOrder(P, Len(seq)), P)
  BY <1>1, InOrderFacts
<1>3. at = InOrder(P, Len(seq))
  <2>1. P \subseteq Nat
    BY <1>1
  <2> QED BY <1>2, <2>1, OneEnumeration
<1>4. Reads(At(seq, P), seq, at)
  BY <1>3 DEF At, Reads
<1>5. at \in Seq(P)
  BY DEF Enumerates
<1>6. at \in Seq(Nat) /\ DOMAIN at = 1..Len(at) /\ \A k \in 1..Len(at) : at[k] \in 1..Len(seq)
  <2>1. P \subseteq Nat
    BY <1>1
  <2> QED BY <1>5, <2>1, SequenceOf
<1>7. \A k \in 1..Len(at) : seq[at[k]] \in S
  BY <1>6
<1>8. [k \in 1..Len(at) |-> seq[at[k]]] \in Seq(S)
  BY <1>6, <1>7
<1> QED BY <1>4, <1>6, <1>8 DEF Reads

LEMMA AnEnumeration ==
    ASSUME NEW n \in Nat, NEW P \in SUBSET (1..n)
    PROVE  \E at : Enumerates(at, P)
BY InOrderFacts

FirstIn(P, p) == p \in P /\ \A r \in P : p <= r
LastIn(P, q) == q \in P /\ \A r \in P : r <= q

\* The words at P begin at p and end at q; the others lie before q.
Between(w, seq, P, p, q) ==
    /\ FirstIn(P, p) /\ LastIn(P, q)
    /\ Len(w) \in Nat \ {0}
    /\ w[1] = seq[p] /\ w[Len(w)] = seq[q]
    /\ \A k \in 1..(Len(w) - 1) : \E r \in P : r < q /\ w[k] = seq[r]
    /\ \A r \in P : r < q => \E k \in 1..(Len(w) - 1) : w[k] = seq[r]

LEMMA AtBetween ==
    ASSUME NEW S, NEW seq \in Seq(S), NEW P \in SUBSET (1..Len(seq)), P # {}
    PROVE  \E p, q \in P : Between(At(seq, P), seq, P, p, q)
<1>0. Len(seq) \in Nat
  OBVIOUS
<1>1. PICK at : Enumerates(at, P)
  BY <1>0, AnEnumeration
<1> DEFINE w == At(seq, P)
<1>2. Reads(w, seq, at) /\ at \in Seq(Nat) /\ Len(w) = Len(at) /\ w \in Seq(S)
  BY <1>1, AtFacts
<1> HIDE DEF w
<1>3. /\ Len(at) \in Nat /\ DOMAIN at = 1..Len(at) /\ Len(w) \in Nat
      /\ \A k \in 1..Len(at) : at[k] \in P /\ at[k] \in Nat /\ w[k] = seq[at[k]]
  <2>1. at \in Seq(P)
    BY <1>1 DEF Enumerates
  <2> QED BY <2>1, <1>2 DEF Reads
<1>4. \A r \in P : \E k \in 1..Len(at) : at[k] = r
  BY <1>1, <1>3 DEF Enumerates
<1>5. \A j, k \in 1..Len(at) : j < k => at[j] < at[k]
  BY <1>1, <1>3 DEF Enumerates
<1>6. Len(at) # 0
  <2>1. PICK r \in P : TRUE
    OBVIOUS
  <2>2. PICK k \in 1..Len(at) : at[k] = r
    BY <1>4
  <2> QED BY <2>2, <1>3
<1>7. 1 \in 1..Len(at) /\ Len(at) \in 1..Len(at)
  BY <1>6, <1>3
<1>8. \A j, k \in 1..Len(at) : j <= k => at[j] <= at[k]
  BY <1>5, <1>3
<1> DEFINE p == at[1]
           q == at[Len(at)]
<1>9. FirstIn(P, p) /\ LastIn(P, q)
  BY <1>3, <1>4, <1>7, <1>8 DEF FirstIn, LastIn
<1>10. ASSUME NEW k \in 1..(Len(w) - 1) PROVE \E r \in P : r < q /\ w[k] = seq[r]
  <2>1. k \in 1..Len(at) /\ k < Len(at)
    BY <1>2, <1>3
  <2>2. at[k] < q
    BY <2>1, <1>5, <1>7
  <2> QED BY <2>1, <2>2, <1>3
<1>11. ASSUME NEW r \in P, r < q PROVE \E k \in 1..(Len(w) - 1) : w[k] = seq[r]
  <2>1. PICK k \in 1..Len(at) : at[k] = r
    BY <1>4
  <2>2. ASSUME k = Len(at) PROVE FALSE
    <3>1. r = q /\ r \in Nat
      BY <2>1, <2>2, <1>3
    <3> QED BY <3>1, <1>11
  <2>3. k \in 1..(Len(w) - 1)
    BY <2>1, <2>2, <1>2, <1>3
  <2> QED BY <2>1, <2>3, <1>3
<1>12. w[1] = seq[p] /\ w[Len(w)] = seq[q] /\ Len(w) \in Nat \ {0} /\ p \in P /\ q \in P
  BY <1>2, <1>3, <1>6, <1>7
<1> HIDE DEF p, q
<1>13. Between(w, seq, P, p, q)
  BY <1>9, <1>10, <1>11, <1>12 DEF Between
<1> QED BY <1>12, <1>13 DEF w

(***************************************************************************)
(* A statement, its tokens and what of it is run.                          *)
(***************************************************************************)
Lexemes == STRING \cup Numerals \cup {"LIMIT", "ORDER", "BY", ","}

Lexed(sql) ==
    /\ sql \in Seq(Lexemes)
    /\ \A i \in DOMAIN sql : sql[i] = "--" => i = Len(sql)

LEMMA TextFacts ==
    ASSUME NEW sql, Lexed(sql)
    PROVE  /\ sql \in Seq(Lexemes) /\ Len(sql) \in Nat /\ DOMAIN sql = 1..Len(sql)
           /\ \A i \in 1..Len(sql) : sql[i] \in Lexemes
BY DEF Lexed

LEMMA RunsAllButComments ==
    ASSUME NEW sql, Lexed(sql)
    PROVE  ExecutedAt(sql) = {i \in 1..Len(sql) : sql[i] \notin Comments}
<1>1. ASSUME NEW i \in 1..Len(sql)
      PROVE  i \in ExecutedAt(sql) <=> sql[i] \notin Comments
  <2>1. \A j \in 1..i : j \in DOMAIN sql
    BY TextFacts
  <2>2. i \in ExecutedAt(sql) => sql[i] \notin Comments
    BY TextFacts DEF ExecutedAt, Comments
  <2>3. sql[i] \notin Comments => \A j \in 1..i : sql[j] # "--"
    BY <2>1, TextFacts DEF Lexed, Comments
  <2> QED BY <2>2, <2>3, TextFacts DEF ExecutedAt, Comments
<1> QED BY <1>1, TextFacts DEF ExecutedAt

LEMMA TokensAre ==
    ASSUME NEW sql, Lexed(sql)
    PROVE  /\ Tokens(sql) \in Seq({Tokens(sql)[i] : i \in 1..Len(sql)})
           /\ Len(Tokens(sql)) = Len(sql) /\ DOMAIN Tokens(sql) = 1..Len(sql)
           /\ \A i \in 1..Len(sql) : /\ Tokens(sql)[i].raw = sql[i] /\ Tokens(sql)[i].start = i
                                     /\ Tokens(sql)[i].depth = Depth(sql, i)
<1>1. Tokens(sql) = [i \in 1..Len(sql) |-> [raw |-> sql[i], start |-> i, depth |-> Depth(sql, i)]]
  BY TextFacts DEF Tokens
<1>2. Len(sql) \in Nat
  BY TextFacts
<1> QED BY <1>1, <1>2

\* The words the rules see are those that are run.
LEMMA WordsAreRun ==
    ASSUME NEW sql, Lexed(sql), NEW P \in SUBSET (1..Len(sql))
    PROVE  /\ Raw(At(Tokens(sql), P)) = At(sql, P)
           /\ Significant(Tokens(sql)) = At(Tokens(sql), ExecutedAt(sql))
<1>0. Len(sql) \in Nat /\ sql \in Seq(Lexemes) /\ DOMAIN sql = 1..Len(sql)
  BY TextFacts
<1>1. PICK at : Enumerates(at, P)
  BY <1>0, AnEnumeration
<1> DEFINE S == {Tokens(sql)[i] : i \in 1..Len(sql)}
           tokens == Tokens(sql)
<1>2. tokens \in Seq(S) /\ Len(tokens) = Len(sql) /\ DOMAIN tokens = 1..Len(sql)
      /\ \A i \in 1..Len(sql) : tokens[i].raw = sql[i]
  BY TokensAre
<1> HIDE DEF S, tokens
<1>3. Reads(At(tokens, P), tokens, at)
  BY <1>1, <1>2, AtFacts
<1>4. Reads(At(sql, P), sql, at) /\ at \in Seq(Nat)
  BY <1>0, <1>1, AtFacts
<1>5. \A k \in DOMAIN at : at[k] \in 1..Len(sql)
  <2>1. at \in Seq(P) /\ P \subseteq 1..Len(sql)
    BY <1>1 DEF Enumerates
  <2> QED BY <2>1, SequenceOf
<1>6. Raw(At(tokens, P)) = At(sql, P)
  BY <1>2, <1>3, <1>4, <1>5 DEF Raw, Reads
<1>7. {i \in DOMAIN tokens : tokens[i].raw \notin Comments} = ExecutedAt(sql)
  BY <1>2, RunsAllButComments
<1> QED BY <1>6, <1>7 DEF Significant, tokens

\* A name for a literal that the SMT backend does not read.
IsSemicolon(w) == w = ";"

\* The first word that is run reads, and only the last may be a semicolon.
ReadsOne(sql) ==
    /\ \E p \in ExecutedAt(sql) : FirstIn(ExecutedAt(sql), p) /\ sql[p] \in Readable
    /\ \A i \in ExecutedAt(sql) : IsSemicolon(sql[i]) => LastIn(ExecutedAt(sql), i)

RunsOneRead(sql) ==
    LET run == Executed(sql)
    IN  run[1] \in Readable /\ \A i \in DOMAIN run : run[i] = ";" => i = Len(run)

LEMMA ReadsOneRuns ==
    ASSUME NEW sql, Lexed(sql), ReadsOne(sql)
    PROVE  RunsOneRead(sql)
<1> DEFINE X == ExecutedAt(sql)
           run == Executed(sql)
<1>0. X \in SUBSET (1..Len(sql)) /\ sql \in Seq(Lexemes) /\ Len(sql) \in Nat
  BY TextFacts DEF ExecutedAt
<1>1. PICK f \in X : FirstIn(X, f) /\ sql[f] \in Readable
  BY DEF ReadsOne
<1>2. \A i \in X : IsSemicolon(sql[i]) => LastIn(X, i)
  BY DEF ReadsOne
<1>3. run = At(sql, X) /\ X # {}
  BY <1>1 DEF Executed
<1> HIDE DEF X, run
<1>4. PICK p, q \in X : Between(run, sql, X, p, q)
  BY <1>0, <1>3, AtBetween
<1>5. \A i \in X : i \in Nat
  BY <1>0
<1>6. p = f
  BY <1>1, <1>4, <1>5 DEF Between, FirstIn
<1>7. run[1] \in Readable
  BY <1>1, <1>4, <1>6 DEF Between
<1>8. run \in Seq(Lexemes) /\ DOMAIN run = 1..Len(run) /\ Len(run) \in Nat
  <2>1. PICK at : Enumerates(at, X)
    BY <1>0, AnEnumeration
  <2>2. run \in Seq(Lexemes)
    BY <2>1, <1>0, <1>3, AtFacts
  <2> QED BY <2>2
<1>9. ASSUME NEW i \in DOMAIN run, IsSemicolon(run[i]), i # Len(run) PROVE FALSE
  <2>0. i \in 1..Len(run) /\ Len(run) \in Nat /\ i # Len(run)
    BY <1>8, <1>9
  <2>1. i \in 1..(Len(run) - 1)
    BY <2>0
  <2>2. PICK r \in X : r < q /\ run[i] = sql[r]
    BY <2>1, <1>4 DEF Between
  <2>3. q <= r
    BY <2>2, <1>9, <1>2 DEF LastIn
  <2> QED BY <2>2, <2>3, <1>5
<1> QED BY <1>7, <1>9, Zenon DEF RunsOneRead, run, IsSemicolon

LEMMA ValidReadsOne ==
    ASSUME NEW sql, Lexed(sql), ValidReadOnly(sql)
    PROVE  ReadsOne(sql)
<1> DEFINE X == ExecutedAt(sql)
           words == Raw(Significant(Tokens(sql)))
<1>0. X \in SUBSET (1..Len(sql)) /\ sql \in Seq(Lexemes) /\ Len(sql) \in Nat
  BY TextFacts DEF ExecutedAt
<1>1. words = At(sql, X)
  BY <1>0, WordsAreRun
<1>2. /\ StatementWords(words) # <<>>
      /\ SingleStatement(words)
      /\ StatementWords(words)[1] \in Readable
  BY DEF ValidReadOnly
<1> HIDE DEF X, words
<1>3. X # {}
  <2> SUFFICES ASSUME X = {} PROVE FALSE
    OBVIOUS
  <2>1. PICK at : Enumerates(at, X)
    BY <1>0, AnEnumeration
  <2>2. at \in Seq(X) /\ Len(At(sql, X)) = Len(at) /\ At(sql, X) \in Seq(Lexemes)
    BY <2>1, <1>0, AtFacts DEF Enumerates
  <2>3. Len(words) = 0 /\ words \in Seq(Lexemes)
    BY <2>2, <1>1
  <2>4. words = <<>>
    BY <2>3
  <2> QED BY <2>4, <1>2 DEF StatementWords, TerminalSemicolon
<1>4. PICK p, q \in X : Between(words, sql, X, p, q)
  BY <1>0, <1>1, <1>3, AtBetween
<1>5. \A i \in X : i \in Nat
  BY <1>0
<1>6. words \in Seq(Lexemes) /\ DOMAIN words = 1..Len(words) /\ Len(words) \in Nat
  <2>1. PICK at : Enumerates(at, X)
    BY <1>0, AnEnumeration
  <2>2. words \in Seq(Lexemes)
    BY <2>1, <1>0, <1>1, AtFacts
  <2> QED BY <2>2
<1>7. words[1] \in Readable
  <2>1. CASE TerminalSemicolon(words)
    <3>1. StatementWords(words) = SubSeq(words, 1, Len(words) - 1)
      BY <2>1 DEF StatementWords, Front
    <3>2. Len(words) # 1
      BY <3>1, <1>2, <1>6
    <3> QED BY <3>1, <3>2, <1>2, <1>6, <1>4 DEF Between
  <2>2. CASE ~TerminalSemicolon(words)
    BY <2>2, <1>2 DEF StatementWords
  <2> QED BY <2>1, <2>2
<1>8. FirstIn(X, p) /\ sql[p] \in Readable
  BY <1>4, <1>7 DEF Between
<1>9. ASSUME NEW k \in 1..(Len(words) - 1) PROVE ~IsSemicolon(words[k])
  <2>1. k \in 1..Len(StatementWords(words)) /\ StatementWords(words)[k] = words[k]
    <3>1. CASE TerminalSemicolon(words)
      BY <3>1, <1>6 DEF StatementWords, Front
    <3>2. CASE ~TerminalSemicolon(words)
      BY <3>2, <1>6 DEF StatementWords
    <3> QED BY <3>1, <3>2
  <2> QED BY <2>1, <1>2, Zenon DEF SingleStatement, Contains, IsSemicolon
<1>10. ASSUME NEW i \in X, IsSemicolon(sql[i]) PROVE LastIn(X, i)
  <2>1. LastIn(X, q)
    BY <1>4 DEF Between
  <2>2. CASE i < q
    BY <2>2, <1>4, <1>9, <1>10 DEF Between
  <2>3. CASE i = q
    BY <2>1, <2>3
  <2> QED BY <2>1, <2>2, <2>3, <1>5 DEF LastIn
<1> QED BY <1>8, <1>10 DEF ReadsOne, X

(***************************************************************************)
(* A piece of text in the place of what lies between a and b.              *)
(***************************************************************************)
Spliced(new, sql, mid, a, b, d) ==
    /\ new \in Seq(Lexemes) /\ mid \in Seq(Lexemes)
    /\ a \in Nat /\ b \in Nat /\ d \in Nat /\ a < b /\ b <= Len(sql) + 1
    /\ b + d = a + Len(mid) + 1
    /\ Len(new) = Len(sql) + d
    /\ \A i \in 1..a : new[i] = sql[i]
    /\ \A i \in (a + 1)..(b + d - 1) : i - a \in 1..Len(mid) /\ new[i] = mid[i - a]
    /\ \A i \in (b + d)..Len(new) : i - d \in b..Len(sql) /\ new[i] = sql[i - d]

LEMMA SpliceFacts ==
    ASSUME NEW sql \in Seq(Lexemes), NEW mid \in Seq(Lexemes), NEW a \in Nat, NEW b \in Nat, NEW d \in Nat,
           a < b, b <= Len(sql) + 1, b + d = a + Len(mid) + 1
    PROVE  Spliced(SubSeq(sql, 1, a) \o mid \o SubSeq(sql, b, Len(sql)), sql, mid, a, b, d)
<1> DEFINE left == SubSeq(sql, 1, a)
           right == SubSeq(sql, b, Len(sql))
           head == left \o mid
           new == head \o right
<1>0. Len(sql) \in Nat /\ Len(mid) \in Nat
  OBVIOUS
<1>1. left \in Seq(Lexemes) /\ Len(left) = a /\ \A i \in 1..a : left[i] = sql[i]
  BY <1>0
<1>2. right \in Seq(Lexemes) /\ Len(right) = Len(sql) + 1 - b
      /\ \A i \in 1..Len(right) : right[i] = sql[i + b - 1]
  BY <1>0
<1> HIDE DEF left, right
<1>3. /\ head \in Seq(Lexemes) /\ Len(head) = a + Len(mid)
      /\ \A i \in 1..a : head[i] = left[i]
      /\ \A i \in (a + 1)..(a + Len(mid)) : head[i] = mid[i - a]
  <2>1. left \in Seq(Lexemes) /\ Len(left) = a
    BY <1>1
  <2>2. head \in Seq(Lexemes) /\ Len(head) = a + Len(mid)
    BY <2>1, <1>0, SMTT(30)
  <2>3. \A i \in 1..(a + Len(mid)) : head[i] = IF i <= a THEN left[i] ELSE mid[i - a]
    BY <2>1, <1>0
  <2> QED BY <2>2, <2>3, <1>0, SMTT(30)
<1> HIDE DEF head
<1>4. /\ new \in Seq(Lexemes) /\ Len(new) = Len(head) + Len(right)
      /\ \A i \in 1..Len(head) : new[i] = head[i]
      /\ \A i \in (Len(head) + 1)..Len(new) : new[i] = right[i - Len(head)]
  <2>1. head \in Seq(Lexemes) /\ right \in Seq(Lexemes) /\ Len(head) \in Nat /\ Len(right) \in Nat
    BY <1>0, <1>2, <1>3
  <2>2. new \in Seq(Lexemes) /\ Len(new) = Len(head) + Len(right)
    BY <2>1
  <2>3. \A i \in 1..(Len(head) + Len(right)) :
           new[i] = IF i <= Len(head) THEN head[i] ELSE right[i - Len(head)]
    BY <2>1
  <2> QED BY <2>1, <2>2, <2>3
<1> HIDE DEF new
<1>5. Len(new) = Len(sql) + d /\ Len(head) = b + d - 1
  <2>1. Len(head) = a + Len(mid) /\ Len(new) = Len(head) + Len(right) /\ Len(right) = Len(sql) + 1 - b
    BY <1>2, <1>3, <1>4
  <2> QED BY <1>0, <2>1
<1>6. ASSUME NEW i \in 1..a PROVE new[i] = sql[i]
  <2>1. i \in 1..Len(head)
    BY <1>0, <1>3
  <2>2. new[i] = head[i]
    BY <2>1, <1>4
  <2>3. head[i] = left[i] /\ left[i] = sql[i]
    BY <1>1, <1>3
  <2> QED BY <2>2, <2>3
<1>7. ASSUME NEW i \in (a + 1)..(b + d - 1) PROVE i - a \in 1..Len(mid) /\ new[i] = mid[i - a]
  <2>1. i - a \in 1..Len(mid) /\ i \in 1..Len(head) /\ i \in (a + 1)..(a + Len(mid))
    BY <1>0, <1>5
  <2>2. new[i] = head[i]
    BY <2>1, <1>4
  <2>3. head[i] = mid[i - a]
    <3>1. left \in Seq(Lexemes) /\ Len(left) = a
      BY <1>1
    <3>2. i \in 1..(a + Len(mid)) /\ ~(i <= a)
      BY <2>1, <1>0
    <3> QED BY <3>1, <3>2, <1>0 DEF head
  <2> QED BY <2>1, <2>2, <2>3
<1>8. ASSUME NEW i \in (b + d)..Len(new) PROVE i - d \in b..Len(sql) /\ new[i] = sql[i - d]
  <2>1. i - d \in b..Len(sql) /\ i \in (Len(head) + 1)..Len(new)
    BY <1>0, <1>5
  <2>2. new[i] = right[i - Len(head)]
    <3>1. head \in Seq(Lexemes) /\ right \in Seq(Lexemes) /\ Len(head) \in Nat /\ Len(right) \in Nat
      BY <1>0, <1>2, <1>3
    <3>2. i \in 1..(Len(head) + Len(right)) /\ ~(i <= Len(head))
      BY <2>1, <1>4, <3>1
    <3> QED BY <3>1, <3>2 DEF new
  <2>3. i - Len(head) \in 1..Len(right) /\ (i - Len(head)) + b - 1 = i - d
    BY <2>1, <1>0, <1>2, <1>5
  <2> QED BY <2>1, <2>2, <2>3, <1>2
<1> QED BY <1>4, <1>5, <1>6, <1>7, <1>8 DEF Spliced, new, head, left, right

\* Words that are no comments, put before a word that is run: of the rest the
\* same is run as before.
LEMMA SpliceRuns ==
    ASSUME NEW new, NEW sql, NEW mid, NEW a, NEW b, NEW d, Spliced(new, sql, mid, a, b, d),
           Lexed(sql), \E m \in ExecutedAt(sql) : a <= m,
           \A k \in 1..Len(mid) : mid[k] \notin Comments
    PROVE  /\ Lexed(new)
           /\ \A i \in 1..a : i \in ExecutedAt(new) <=> i \in ExecutedAt(sql)
           /\ \A i \in (a + 1)..(b + d - 1) : i \in ExecutedAt(new)
           /\ \A i \in (b + d)..Len(new) : i \in ExecutedAt(new) <=> i - d \in ExecutedAt(sql)
<1>0. /\ new \in Seq(Lexemes) /\ a \in Nat /\ b \in Nat /\ d \in Nat /\ a < b /\ b <= Len(sql) + 1
      /\ b + d = a + Len(mid) + 1 /\ Len(new) = Len(sql) + d /\ mid \in Seq(Lexemes)
  BY DEF Spliced
<1>1. /\ \A i \in 1..a : new[i] = sql[i]
      /\ \A i \in (a + 1)..(b + d - 1) : i - a \in 1..Len(mid) /\ new[i] = mid[i - a]
      /\ \A i \in (b + d)..Len(new) : i - d \in b..Len(sql) /\ new[i] = sql[i - d]
  BY DEF Spliced
<1>2. Len(sql) \in Nat /\ Len(new) \in Nat /\ Len(mid) \in Nat /\ DOMAIN new = 1..Len(new) /\ DOMAIN sql = 1..Len(sql)
  BY <1>0, TextFacts
<1>3. PICK m \in ExecutedAt(sql) : a <= m
  OBVIOUS
<1>4. m \in 1..Len(sql) /\ sql[m] # "--"
  BY <1>3, RunsAllButComments DEF Comments
<1>5. ASSUME NEW i \in 1..a PROVE new[i] # "--" /\ i \in 1..Len(sql)
  <2>1. i \in 1..Len(sql) /\ i <= m
    BY <1>0, <1>2, <1>3, <1>4
  <2>2. sql[i] = "--" => i = Len(sql)
    BY <2>1, <1>2 DEF Lexed
  <2>3. sql[i] # "--"
    BY <2>1, <2>2, <1>4
  <2> QED BY <2>1, <2>3, <1>1
<1>6. ASSUME NEW i \in (a + 1)..(b + d - 1) PROVE new[i] \notin Comments
  BY <1>1
<1>7. ASSUME NEW i \in (b + d)..Len(new), new[i] = "--" PROVE i = Len(new)
  <2>1. i - d \in 1..Len(sql) /\ sql[i - d] = "--"
    BY <1>7, <1>1, <1>0, <1>2
  <2>2. i - d = Len(sql)
    BY <2>1, <1>2 DEF Lexed
  <2> QED BY <2>2, <1>0, <1>2
<1>8. ASSUME NEW i \in 1..Len(new)
      PROVE  i \in 1..a \/ i \in (a + 1)..(b + d - 1) \/ i \in (b + d)..Len(new)
  BY <1>0, <1>2
<1>9. Lexed(new)
  <2>1. ASSUME NEW i \in 1..Len(new), new[i] = "--" PROVE i = Len(new)
    <3>1. CASE i \in 1..a
      BY <3>1, <2>1, <1>5
    <3>2. CASE i \in (a + 1)..(b + d - 1)
      BY <3>2, <2>1, <1>6 DEF Comments
    <3>3. CASE i \in (b + d)..Len(new)
      BY <3>3, <2>1, <1>7
    <3> QED BY <3>1, <3>2, <3>3, <1>8
  <2> QED BY <2>1, <1>0, <1>2 DEF Lexed
<1>10. ExecutedAt(new) = {i \in 1..Len(new) : new[i] \notin Comments}
  BY <1>9, RunsAllButComments
<1>11. ExecutedAt(sql) = {i \in 1..Len(sql) : sql[i] \notin Comments}
  BY RunsAllButComments
<1>12. ASSUME NEW i \in 1..a PROVE i \in ExecutedAt(new) <=> i \in ExecutedAt(sql)
  <2>1. i \in 1..Len(new) /\ i \in 1..Len(sql) /\ new[i] = sql[i]
    BY <1>0, <1>1, <1>2, <1>5
  <2> QED BY <2>1, <1>10, <1>11
<1>13. ASSUME NEW i \in (a + 1)..(b + d - 1) PROVE i \in ExecutedAt(new)
  <2>1. i \in 1..Len(new)
    BY <1>0, <1>2
  <2> QED BY <2>1, <1>6, <1>10
<1>14. ASSUME NEW i \in (b + d)..Len(new) PROVE i \in ExecutedAt(new) <=> i - d \in ExecutedAt(sql)
  <2>1. i \in 1..Len(new) /\ i - d \in 1..Len(sql) /\ new[i] = sql[i - d]
    BY <1>0, <1>1, <1>2
  <2> QED BY <2>1, <1>10, <1>11
<1> QED BY <1>9, <1>12, <1>13, <1>14

\* If the first word stays in front, and no semicolon before the new words.
LEMMA SpliceReadsOne ==
    ASSUME NEW new, NEW sql, NEW mid, NEW a, NEW b, NEW d, Spliced(new, sql, mid, a, b, d),
           Lexed(sql), ReadsOne(sql),
           \E m \in ExecutedAt(sql) : a <= m,
           \A k \in 1..Len(mid) : mid[k] \notin Comments /\ ~IsSemicolon(mid[k]),
           \A i \in ExecutedAt(sql) : i <= a => ~IsSemicolon(sql[i]),
           \A i \in ExecutedAt(sql) : FirstIn(ExecutedAt(sql), i) => i <= a
    PROVE  Lexed(new) /\ ReadsOne(new)
<1> DEFINE X == ExecutedAt(sql)
           Y == ExecutedAt(new)
<1>1. PICK f \in X : FirstIn(X, f) /\ sql[f] \in Readable
  BY DEF ReadsOne
<1>2. \A i \in X : IsSemicolon(sql[i]) => LastIn(X, i)
  BY DEF ReadsOne
<1>3. /\ Lexed(new)
      /\ \A i \in 1..a : i \in Y <=> i \in X
      /\ \A i \in (a + 1)..(b + d - 1) : i \in Y
      /\ \A i \in (b + d)..Len(new) : i \in Y <=> i - d \in X
  BY SpliceRuns
<1>4. X \in SUBSET (1..Len(sql)) /\ Len(sql) \in Nat /\ Len(new) \in Nat /\ Y \in SUBSET (1..Len(new))
  BY <1>3, TextFacts DEF ExecutedAt
<1>5. /\ a \in Nat /\ b \in Nat /\ d \in Nat /\ a < b /\ Len(new) = Len(sql) + d
      /\ \A i \in 1..a : new[i] = sql[i]
      /\ \A i \in (a + 1)..(b + d - 1) : i - a \in 1..Len(mid) /\ new[i] = mid[i - a]
      /\ \A i \in (b + d)..Len(new) : i - d \in b..Len(sql) /\ new[i] = sql[i - d]
  BY DEF Spliced
<1>6. /\ f <= a
      /\ \A i \in X : i <= a => ~IsSemicolon(sql[i])
      /\ \A k \in 1..Len(mid) : ~IsSemicolon(mid[k])
  BY <1>1
<1> HIDE DEF X, Y
<1>7. \A i \in X : i \in Nat /\ i # 0
  BY <1>4
<1>8. \A i \in Y : i \in Nat /\ (i \in 1..a \/ i \in (a + 1)..(b + d - 1) \/ i \in (b + d)..Len(new))
  BY <1>4, <1>5
<1>9. f \in 1..a /\ f \in Nat /\ f \in Y /\ new[f] \in Readable
  <2>1. f \in 1..a /\ f \in Nat
    BY <1>5, <1>6, <1>7
  <2> QED BY <2>1, <1>1, <1>3, <1>5
<1>10. FirstIn(Y, f)
  <2>1. ASSUME NEW i \in Y PROVE f <= i
    <3>1. CASE i \in 1..a
      BY <3>1, <1>1, <1>3 DEF FirstIn
    <3>2. CASE i \notin 1..a
      <4>1. i > a
        BY <3>2, <1>5, <1>8
      <4> QED BY <4>1, <1>6, <1>8, <1>9, <1>5
    <3> QED BY <3>1, <3>2
  <2> QED BY <2>1, <1>9 DEF FirstIn
<1>11. ASSUME NEW i \in Y, IsSemicolon(new[i]) PROVE LastIn(Y, i)
  <2>1. CASE i \in 1..a
    <3>1. i \in X /\ IsSemicolon(sql[i])
      BY <2>1, <1>3, <1>5, <1>11
    <3> QED BY <2>1, <3>1, <1>6
  <2>2. CASE i \in (a + 1)..(b + d - 1)
    BY <2>2, <1>5, <1>6, <1>11
  <2>3. CASE i \in (b + d)..Len(new)
    <3>1. i - d \in X /\ IsSemicolon(sql[i - d])
      BY <2>3, <1>3, <1>5, <1>11
    <3>2. \A r \in X : r <= i - d
      BY <3>1, <1>2 DEF LastIn
    <3>3. ASSUME NEW r \in Y PROVE r <= i
      <4>1. CASE r \in (b + d)..Len(new)
        <5>1. r - d <= i - d
          BY <4>1, <1>3, <3>2
        <5> QED BY <5>1, <1>5, <1>8
      <4>2. CASE r \notin (b + d)..Len(new)
        BY <4>2, <2>3, <1>5, <1>8
      <4> QED BY <4>1, <4>2
    <3> QED BY <3>3, <1>11 DEF LastIn
  <2> QED BY <2>1, <2>2, <2>3, <1>8
<1> QED BY <1>3, <1>9, <1>10, <1>11 DEF ReadsOne, Y

(***************************************************************************)
(* The probe.                                                              *)
(***************************************************************************)
LEMMA ProbeFacts ==
    /\ Probe \in Seq(Lexemes) /\ Len(Probe) = 2
    /\ Probe[1] = "LIMIT" /\ Probe[2] = ToString(PROBE_ROW_COUNT)
    /\ ToString(PROBE_ROW_COUNT) \in Numerals
    /\ \A k \in 1..Len(Probe) : Probe[k] \notin Comments /\ ~IsSemicolon(Probe[k])
<1>1. PROBE_ROW_COUNT \in 0..MaxNumber
  BY PolicyAssumption DEF PROBE_ROW_COUNT
<1>2. ToString(PROBE_ROW_COUNT) \in Numerals
  BY <1>1 DEF Numerals
<1>3. /\ ToString(PROBE_ROW_COUNT) \in Lexemes
      /\ ToString(PROBE_ROW_COUNT) \notin {"--", "/**/", ";"}
  BY <1>2, NumeralAssumption DEF Lexemes
<1> HIDE DEF PROBE_ROW_COUNT
<1> DEFINE numeral == ToString(PROBE_ROW_COUNT)
<1>4. Probe = <<"LIMIT", numeral>>
  BY DEF Probe
<1> HIDE DEF numeral
<1>5. numeral \in Lexemes /\ numeral \notin Comments /\ ~IsSemicolon(numeral) /\ numeral \in Numerals
  BY <1>2, <1>3 DEF numeral, IsSemicolon, Comments
<1>6. /\ Probe \in Seq(Lexemes) /\ Len(Probe) = 2 /\ Probe[1] = "LIMIT" /\ Probe[2] = numeral
  <2>1. "LIMIT" \in Lexemes
    BY DEF Lexemes
  <2>2. <<"LIMIT", numeral>> \in Seq(Lexemes)
    BY <1>5, <2>1
  <2> QED BY <1>4, <2>2
<1>7. \A k \in 1..Len(Probe) : Probe[k] \notin Comments /\ ~IsSemicolon(Probe[k])
  <2> TAKE k \in 1..Len(Probe)
  <2>1. k = 1 \/ k = 2
    BY <1>6
  <2>2. "LIMIT" \notin Comments /\ ~IsSemicolon("LIMIT")
    BY DEF Comments, IsSemicolon
  <2> QED BY <2>1, <2>2, <1>5, <1>6
<1> QED BY <1>5, <1>6, <1>7 DEF numeral

\* It stands after the last word that is run, in the place of a semicolon.
ProbeAt(new, sql, m, a, b, d) ==
    /\ LastIn(ExecutedAt(sql), m)
    /\ b = m + 1 /\ a <= m /\ m <= a + 1
    /\ IsSemicolon(sql[m]) => a = m - 1
    /\ ~IsSemicolon(sql[m]) => a = m
    /\ Spliced(new, sql, Probe, a, b, d)

LEMMA ProbeSplices ==
    ASSUME NEW sql, Lexed(sql), ExecutedAt(sql) # {}
    PROVE  \E m, a, b, d \in Nat : ProbeAt(AppendProbe(sql), sql, m, a, b, d)
<1> DEFINE X == ExecutedAt(sql)
           tokens == Tokens(sql)
           S == {tokens[i] : i \in 1..Len(sql)}
           w == Significant(tokens)
<1>0. X \in SUBSET (1..Len(sql)) /\ sql \in Seq(Lexemes) /\ Len(sql) \in Nat
  BY TextFacts DEF ExecutedAt
<1>1. w = At(tokens, X)
  BY <1>0, WordsAreRun
<1>2. /\ tokens \in Seq(S) /\ Len(tokens) = Len(sql)
      /\ \A i \in 1..Len(sql) : tokens[i].raw = sql[i] /\ tokens[i].start = i
  BY TokensAre
<1>3. AppendProbe(sql) =
        LET last == Last(w)
            kept == IF IsSemicolon(last.raw) THEN last.start - 1 ELSE last.start
        IN  SubSeq(sql, 1, kept) \o Probe \o SubSeq(sql, last.start + 1, Len(sql))
  BY Zenon DEF AppendProbe, IsSemicolon
<1> HIDE DEF X, S, tokens, w
<1>4. PICK p, m \in X : Between(w, tokens, X, p, m)
  <2>1. X # {}
    BY DEF X
  <2> QED BY <1>0, <1>1, <1>2, <2>1, AtBetween
<1>5. Last(w) = tokens[m] /\ LastIn(X, m) /\ m \in 1..Len(sql)
  BY <1>0, <1>4 DEF Between, Last
<1>6. Last(w).raw = sql[m] /\ Last(w).start = m
  BY <1>2, <1>5
<1> DEFINE a == IF IsSemicolon(sql[m]) THEN m - 1 ELSE m
           b == m + 1
           d == a + 2 - m
<1>7. a \in Nat /\ b \in Nat /\ d \in Nat /\ m \in Nat /\ a < b /\ b <= Len(sql) + 1
      /\ b + d = a + Len(Probe) + 1 /\ a <= m /\ m <= a + 1
  <2>1. m \in Nat /\ 1 <= m /\ m <= Len(sql) /\ Len(Probe) = 2
    BY <1>0, <1>5, ProbeFacts
  <2>2. a = m \/ a = m - 1
    OBVIOUS
  <2> HIDE DEF a
  <2> QED BY <2>1, <2>2, <1>0
<1>8. AppendProbe(sql) = SubSeq(sql, 1, a) \o Probe \o SubSeq(sql, b, Len(sql))
  BY <1>3, <1>6
<1>9. (IsSemicolon(sql[m]) => a = m - 1) /\ (~IsSemicolon(sql[m]) => a = m)
  OBVIOUS
<1>10. b = m + 1
  OBVIOUS
<1> HIDE DEF a, b, d
<1>11. Spliced(SubSeq(sql, 1, a) \o Probe \o SubSeq(sql, b, Len(sql)), sql, Probe, a, b, d)
  <2>1. Probe \in Seq(Lexemes)
    BY ProbeFacts
  <2> QED BY <1>0, <1>7, <2>1, SpliceFacts
<1>12. ProbeAt(AppendProbe(sql), sql, m, a, b, d)
  BY <1>5, <1>7, <1>8, <1>9, <1>10, <1>11 DEF ProbeAt, X
<1> QED BY <1>7, <1>12

LEMMA ProbeReadsOne ==
    ASSUME NEW sql, Lexed(sql), ReadsOne(sql)
    PROVE  Lexed(AppendProbe(sql)) /\ ReadsOne(AppendProbe(sql))
<1> DEFINE X == ExecutedAt(sql)
           new == AppendProbe(sql)
<1>1. X # {} /\ \A i \in X : IsSemicolon(sql[i]) => LastIn(X, i)
  BY DEF ReadsOne
<1>2. PICK m, a, b, d \in Nat : ProbeAt(new, sql, m, a, b, d)
  BY <1>1, ProbeSplices
<1>3. LastIn(X, m) /\ a <= m /\ Spliced(new, sql, Probe, a, b, d)
  BY <1>2 DEF ProbeAt
<1>4. (IsSemicolon(sql[m]) => a = m - 1) /\ (~IsSemicolon(sql[m]) => a = m)
  BY <1>2 DEF ProbeAt
<1>5. \A k \in 1..Len(Probe) : Probe[k] \notin Comments /\ ~IsSemicolon(Probe[k])
  BY ProbeFacts
<1>6. \A i \in X : i \in Nat /\ i # 0 /\ i <= m
  <2>1. X \in SUBSET (1..Len(sql)) /\ Len(sql) \in Nat
    BY TextFacts DEF ExecutedAt
  <2> HIDE DEF X
  <2> QED BY <2>1, <1>3 DEF LastIn
<1>7. ASSUME NEW i \in X, i <= a PROVE ~IsSemicolon(sql[i])
  <2>1. ASSUME IsSemicolon(sql[i]) PROVE FALSE
    <3>1. m <= i /\ m \in X
      BY <2>1, <1>1, <1>3 DEF LastIn
    <3>2. i = m
      <4> HIDE DEF X
      <4> QED BY <3>1, <1>6
    <3> QED BY <2>1, <3>2, <1>4, <1>7
  <2> QED BY <2>1
<1>8. ASSUME NEW i \in X, FirstIn(X, i) PROVE i <= a
  <2>1. PICK f \in X : FirstIn(X, f) /\ sql[f] \in Readable
    BY DEF ReadsOne
  <2>2. i = f
    <3> HIDE DEF X
    <3> QED BY <2>1, <1>6, <1>8 DEF FirstIn
  <2>3. ~IsSemicolon(sql[i])
    BY <2>1, <2>2, Zenon DEF Readable, IsSemicolon
  <2>4. CASE i = m
    BY <2>3, <2>4, <1>4
  <2>5. CASE i # m
    <3> HIDE DEF X
    <3> QED BY <2>5, <1>4, <1>6
  <2> QED BY <2>4, <2>5
<1>9. \E i \in X : a <= i
  BY <1>3 DEF LastIn
<1> HIDE DEF new
<1>10. Lexed(new) /\ ReadsOne(new)
  BY <1>3, <1>5, <1>7, <1>8, <1>9, SpliceReadsOne
<1> QED BY <1>10 DEF new

(***************************************************************************)
(* The order by the primary key.                                           *)
(***************************************************************************)
Columns == STRING \ Symbols
\* Words of an ORDER BY that are not its first.
Separator(w) == w = ","
Plain(w) == w \notin Symbols

LEMMA PlainWords ==
    /\ \A w : Plain(w) \/ w = "ORDER" \/ Separator(w) =>
           w \notin Comments /\ ~IsSemicolon(w) /\ w # "LIMIT" /\ w \notin {"(", ")"} /\ w # "x"
    /\ \A w : Plain(w) => w # "ORDER" /\ ~Separator(w)
    /\ Plain("BY")
    /\ \A w \in Columns : Plain(w) /\ w \in Lexemes
    /\ \A w : Separator(w) => w \in Lexemes
BY Zenon DEF Plain, Separator, Columns, Symbols, Comments, IsSemicolon, Lexemes

\* "ORDER", "BY", and the columns with a separator between any two.
LEMMA OrderFacts ==
    ASSUME NEW columns \in Seq(Columns), columns # <<>>
    PROVE  LET mid == OrderBy(columns)
           IN  /\ mid \in Seq(Lexemes) /\ Len(mid) = 2 * Len(columns) + 1
               /\ mid[1] = "ORDER"
               /\ \A k \in 2..Len(mid) : Plain(mid[k]) \/ Separator(mid[k])
               /\ \A k \in 1..Len(mid) : mid[k] \notin Comments /\ ~IsSemicolon(mid[k])
<1> DEFINE n == 2 * Len(columns) - 1
           comma == CHOOSE c : Separator(c)
           list == [i \in 1..n |-> IF i % 2 = 0 THEN comma ELSE columns[(i + 1) \div 2]]
           head == <<"ORDER", "BY">>
           mid == head \o list
<1>1. Separator(comma) /\ \A c : Separator(c) => c = comma
  BY Zenon DEF Separator
<1>2. OrderBy(columns) = mid
  BY <1>1, Zenon DEF OrderBy, Separator
<1>3. Len(columns) \in Nat \ {0} /\ n \in Nat /\ \A i \in 1..Len(columns) : columns[i] \in Columns
  OBVIOUS
<1> HIDE DEF comma
<1>4. ASSUME NEW i \in 1..n
      PROVE  list[i] \in Lexemes /\ (Plain(list[i]) \/ Separator(list[i]))
  <2>1. CASE i % 2 = 0
    BY <2>1, <1>1, PlainWords
  <2>2. CASE i % 2 # 0
    <3>1. (i + 1) \div 2 \in 1..Len(columns)
      BY <2>2, <1>3
    <3> QED BY <2>2, <3>1, <1>3, PlainWords
  <2> QED BY <2>1, <2>2
<1>5. list \in Seq(Lexemes) /\ Len(list) = n
  BY <1>3, <1>4
<1> HIDE DEF list
<1>6. head \in Seq(Lexemes) /\ Len(head) = 2 /\ head[1] = "ORDER" /\ head[2] = "BY"
  <2>1. "ORDER" \in Lexemes /\ "BY" \in Lexemes
    BY DEF Lexemes
  <2> QED BY <2>1
<1> HIDE DEF head
<1>7. /\ mid \in Seq(Lexemes) /\ Len(mid) = 2 + n
      /\ \A k \in 1..(2 + n) : mid[k] = IF k <= 2 THEN head[k] ELSE list[k - 2]
  <2>1. head \in Seq(Lexemes) /\ list \in Seq(Lexemes) /\ Len(head) = 2 /\ Len(list) = n
    BY <1>5, <1>6
  <2>2. mid = Glued(head, list)
    BY DEF Glued
  <2> HIDE DEF n, mid
  <2>3. /\ mid \in Seq(Lexemes) /\ Len(mid) = Len(head) + Len(list)
        /\ \A k \in 1..(Len(head) + Len(list)) :
              mid[k] = IF k <= Len(head) THEN head[k] ELSE list[k - Len(head)]
    BY <2>1, <2>2, GluedFacts, Zenon
  <2> QED BY <2>1, <2>3
<1> HIDE DEF mid
<1>8. mid[1] = "ORDER" /\ mid[2] = "BY" /\ Len(mid) = 2 * Len(columns) + 1
  BY <1>3, <1>6, <1>7
<1>9. ASSUME NEW k \in 2..Len(mid) PROVE Plain(mid[k]) \/ Separator(mid[k])
  <2>1. CASE k = 2
    BY <2>1, <1>8, PlainWords
  <2>2. CASE k # 2
    <3>1. k \in 1..(2 + n) /\ ~(k <= 2) /\ k - 2 \in 1..n
      BY <2>2, <1>7, <1>3
    <3>2. mid[k] = list[k - 2]
      BY <3>1, <1>7
    <3> QED BY <3>1, <3>2, <1>4
  <2> QED BY <2>1, <2>2
<1>10. ASSUME NEW k \in 1..Len(mid) PROVE mid[k] \notin Comments /\ ~IsSemicolon(mid[k])
  <2>1. CASE k = 1
    BY <2>1, <1>8, PlainWords
  <2>2. CASE k # 1
    <3>1. k \in 2..Len(mid)
      BY <2>2
    <3> QED BY <3>1, <1>9, PlainWords
  <2> QED BY <2>1, <2>2
<1> QED BY <1>2, <1>7, <1>8, <1>9, <1>10

\* The places the limit is looked for.
TopAt(sql) == {i \in 1..Len(sql) : sql[i] \notin Comments /\ ~IsSemicolon(sql[i]) /\ Depth(sql, i) = 0}

LEMMA TopLevelWords ==
    ASSUME NEW sql, Lexed(sql)
    PROVE  /\ TopAt(sql) \in SUBSET (1..Len(sql)) /\ TopAt(sql) \subseteq ExecutedAt(sql)
           /\ TopLevel(sql) = At(Tokens(sql), TopAt(sql))
           /\ Raw(TopLevel(sql)) = At(sql, TopAt(sql))
<1>1. TopAt(sql) = {i \in DOMAIN sql : sql[i] \notin Comments \cup {";"} /\ Depth(sql, i) = 0}
  <2>1. DOMAIN sql = 1..Len(sql)
    BY TextFacts
  <2> QED BY <2>1, Zenon DEF TopAt, IsSemicolon
<1>2. TopLevel(sql) = At(Tokens(sql), TopAt(sql))
  BY <1>1, Zenon DEF TopLevel
<1>3. TopAt(sql) \in SUBSET (1..Len(sql)) /\ TopAt(sql) \subseteq ExecutedAt(sql)
  BY RunsAllButComments DEF TopAt
<1> QED BY <1>2, <1>3, WordsAreRun

\* The order goes before the first LIMIT outside of parentheses.
OrderAt(new, sql, columns, limit, a, d) ==
    /\ limit \in TopAt(sql) /\ sql[limit] = "LIMIT"
    /\ \A i \in TopAt(sql) : sql[i] = "LIMIT" => limit <= i
    /\ limit = a + 1
    /\ Spliced(new, sql, OrderBy(columns), a, limit, d)

\* What SelectInSeq gives, of the places that pass its test.
FirstOne(I) == IF I # {} THEN Min(I) ELSE 0

LEMMA FirstOneFacts ==
    ASSUME NEW I, I \subseteq Nat \ {0}
    PROVE  /\ FirstOne(I) = 0 => I = {}
           /\ FirstOne(I) # 0 => FirstIn(I, FirstOne(I))
           /\ I = {} => FirstOne(I) = 0
<1>1. CASE I = {}
  BY <1>1 DEF FirstOne
<1>2. CASE I # {}
  <2>1. \E x \in I : \A y \in I : x <= y
    <3>1. I \subseteq Nat
      OBVIOUS
    <3> QED BY <1>2, <3>1, LeastNumber
  <2>2. Min(I) \in I /\ \A y \in I : Min(I) <= y
    BY <2>1 DEF Min
  <2>3. FirstOne(I) = Min(I) /\ Min(I) # 0
    BY <1>2, <2>2 DEF FirstOne
  <2> QED BY <1>2, <2>2, <2>3 DEF FirstIn
<1> QED BY <1>1, <1>2

\* What the policy's prepare functions know of a snapshot's columns.
LEMMA OrderSplices ==
    ASSUME NEW sql, Lexed(sql), NEW range, NEW snapshot,
           \A t \in DOMAIN snapshot : snapshot[t] \in Seq(Columns),
           AddPrimaryKeyOrder(sql, range, snapshot) # sql
    PROVE  \E columns \in Seq(Columns), limit, a, d \in Nat :
              columns # <<>> /\ OrderAt(AddPrimaryKeyOrder(sql, range, snapshot), sql, columns, limit, a, d)
<1> DEFINE top == TopLevel(sql)
           T == TopAt(sql)
           tokens == Tokens(sql)
           S == {tokens[i] : i \in 1..Len(sql)}
           columns == KeyColumns(snapshot, Significant(tokens))
           I == {k \in 1..Len(top) : top[k].raw = "LIMIT"}
           k == FirstOne(I)
           limit == top[k].start
           a == limit - 1
           d == 2 * Len(columns) + 1
           new == AddPrimaryKeyOrder(sql, range, snapshot)
<1>1. k # 0 /\ columns # <<>> /\ new = OrderedBefore(sql, limit, columns)
  BY DEF AddPrimaryKeyOrder, SelectInSeq, FirstOne
<1>2. columns \in Seq(Columns)
  BY <1>1 DEF KeyColumns
<1>3. T \in SUBSET (1..Len(sql)) /\ top = At(tokens, T) /\ Len(sql) \in Nat /\ sql \in Seq(Lexemes)
  BY TopLevelWords, TextFacts
<1>4. /\ tokens \in Seq(S) /\ Len(tokens) = Len(sql)
      /\ \A i \in 1..Len(sql) : tokens[i].raw = sql[i] /\ tokens[i].start = i
  BY TokensAre
<1>5. PICK at : Enumerates(at, T)
  BY <1>3, AnEnumeration
<1> HIDE DEF T, tokens, S, columns, top, new
<1>6. Reads(top, tokens, at) /\ at \in Seq(Nat) /\ Len(top) = Len(at) /\ top \in Seq(S)
  BY <1>3, <1>4, <1>5, AtFacts
<1>7. /\ Len(at) \in Nat /\ DOMAIN at = 1..Len(at)
      /\ \A j \in 1..Len(at) : /\ at[j] \in T /\ at[j] \in 1..Len(sql)
                                /\ top[j].raw = sql[at[j]] /\ top[j].start = at[j]
  <2>1. at \in Seq(T) /\ DOMAIN at = 1..Len(at) /\ Len(at) \in Nat
    BY <1>5, <1>6 DEF Enumerates
  <2>2. ASSUME NEW j \in 1..Len(at)
        PROVE  at[j] \in T /\ at[j] \in 1..Len(sql) /\ top[j].raw = sql[at[j]] /\ top[j].start = at[j]
    <3>1. at[j] \in T
      BY <2>1
    <3>3. at[j] \in 1..Len(sql)
      BY <3>1, <1>3
    <3>2. top[j] = tokens[at[j]]
      BY <2>1, <1>6 DEF Reads
    <3> QED BY <3>1, <3>2, <3>3, <1>4
  <2> QED BY <2>1, <2>2
<1>8. FirstIn(I, k)
  <2>1. I \subseteq Nat \ {0}
    BY <1>6, <1>7
  <2> HIDE DEF I
  <2> QED BY <2>1, <1>1, FirstOneFacts
<1> HIDE DEF k
<1>9. k \in 1..Len(at) /\ top[k].raw = "LIMIT" /\ \A j \in 1..Len(at) : top[j].raw = "LIMIT" => k <= j
  BY <1>6, <1>8 DEF FirstIn
<1>10. limit \in T /\ limit \in 1..Len(sql) /\ limit = at[k] /\ sql[limit] = "LIMIT"
  BY <1>7, <1>9
<1> HIDE DEF limit
<1>11. ASSUME NEW i \in T, sql[i] = "LIMIT" PROVE limit <= i
  <2>1. PICK j \in 1..Len(at) : at[j] = i
    BY <1>5, <1>7 DEF Enumerates
  <2>2. k <= j
    BY <2>1, <1>7, <1>9, <1>11
  <2>3. \A g, h \in 1..Len(at) : g < h => at[g] < at[h]
    BY <1>5, <1>7 DEF Enumerates
  <2>4. k \in 1..Len(at) /\ k \in Nat /\ j \in Nat
    BY <1>9, <1>7
  <2>5. k = j \/ at[k] < at[j]
    BY <2>2, <2>3, <2>4
  <2> QED BY <2>1, <2>4, <2>5, <1>7, <1>10
<1> DEFINE mid == OrderBy(columns)
<1>12. mid \in Seq(Lexemes) /\ Len(mid) = 2 * Len(columns) + 1
  BY <1>1, <1>2, OrderFacts
<1>13. new = SubSeq(sql, 1, a) \o mid \o SubSeq(sql, limit, Len(sql))
  BY <1>1 DEF OrderedBefore
<1>14. /\ a \in Nat /\ limit \in Nat /\ d \in Nat /\ a < limit /\ limit <= Len(sql) + 1 /\ limit = a + 1
       /\ limit + d = a + Len(mid) + 1
  <2>1. Len(columns) \in Nat
    BY <1>2
  <2> HIDE DEF mid
  <2> QED BY <2>1, <1>3, <1>10, <1>12
<1> HIDE DEF a, d, mid
<1>15. Spliced(SubSeq(sql, 1, a) \o mid \o SubSeq(sql, limit, Len(sql)), sql, mid, a, limit, d)
  BY <1>3, <1>12, <1>14, SpliceFacts
<1>16. OrderAt(new, sql, columns, limit, a, d)
  BY <1>10, <1>11, <1>13, <1>14, <1>15 DEF OrderAt, T, mid
<1> QED BY <1>1, <1>2, <1>14, <1>16 DEF new

LEMMA OrderReadsOne ==
    ASSUME NEW sql, Lexed(sql), ReadsOne(sql), NEW range, NEW snapshot,
           \A t \in DOMAIN snapshot : snapshot[t] \in Seq(Columns)
    PROVE  LET new == AddPrimaryKeyOrder(sql, range, snapshot) IN Lexed(new) /\ ReadsOne(new)
<1> DEFINE new == AddPrimaryKeyOrder(sql, range, snapshot)
           X == ExecutedAt(sql)
<1>1. SUFFICES ASSUME new # sql PROVE Lexed(new) /\ ReadsOne(new)
  OBVIOUS
<1>2. PICK columns \in Seq(Columns), limit, a, d \in Nat : columns # <<>> /\ OrderAt(new, sql, columns, limit, a, d)
  BY <1>1, OrderSplices
<1> DEFINE mid == OrderBy(columns)
<1>3. /\ limit \in TopAt(sql) /\ sql[limit] = "LIMIT" /\ limit = a + 1
      /\ Spliced(new, sql, mid, a, limit, d)
  BY <1>2 DEF OrderAt
<1>4. \A j \in 1..Len(mid) : mid[j] \notin Comments /\ ~IsSemicolon(mid[j])
  BY <1>2, OrderFacts
<1>5. limit \in X
  BY <1>3, TopLevelWords
<1>6. \A i \in X : IsSemicolon(sql[i]) => LastIn(X, i)
  BY DEF ReadsOne
<1>7. \A i \in X : i \in Nat
  BY TextFacts DEF ExecutedAt
<1>8. PICK f \in X : FirstIn(X, f) /\ sql[f] \in Readable
  BY DEF ReadsOne
<1>9. f # limit
  BY <1>3, <1>8 DEF Readable
<1> HIDE DEF X, new, mid
<1>10. ASSUME NEW i \in X, i <= a PROVE ~IsSemicolon(sql[i])
  <2>1. ASSUME IsSemicolon(sql[i]) PROVE FALSE
    <3>1. limit <= i
      BY <2>1, <1>5, <1>6 DEF LastIn
    <3> QED BY <3>1, <1>3, <1>7, <1>10
  <2> QED BY <2>1
<1>11. ASSUME NEW i \in X, FirstIn(X, i) PROVE i <= a
  <2>1. i <= f /\ f <= limit
    BY <1>5, <1>8, <1>11 DEF FirstIn
  <2> QED BY <2>1, <1>3, <1>7, <1>9
<1>12. \E i \in X : a <= i
  BY <1>3, <1>5
<1>13. Lexed(new) /\ ReadsOne(new)
  <2> USE DEF X
  <2> QED BY <1>3, <1>4, <1>10, <1>11, <1>12, SpliceReadsOne
<1> QED BY <1>13 DEF new

(***************************************************************************)
(* What is prepared.                                                       *)
(***************************************************************************)
LEMMA ManualIs ==
    ASSUME NEW sql, PrepareManual(sql) # Refused
    PROVE  /\ ValidReadOnly(sql)
           /\ \/ /\ PrepareManual(sql) = Prepared(sql, MAX_VISIBLE_ROWS)
                 /\ StatementType(sql) = "SELECT" =>
                        ReadLimit(sql).kind = "limit" /\ ReadLimit(sql).count <= MAX_VISIBLE_ROWS
              \/ /\ PrepareManual(sql) = Prepared(AppendProbe(sql), MAX_VISIBLE_ROWS)
                 /\ StatementType(sql) = "SELECT" /\ ReadLimit(sql).kind = "none"
<1> DEFINE limit == ReadLimit(sql)
<1>1. ValidReadOnly(sql)
  BY DEF PrepareManual
<1>2. CASE StatementType(sql) # "SELECT"
  BY <1>1, <1>2 DEF PrepareManual
<1>3. CASE StatementType(sql) = "SELECT"
  <2>1. PrepareManual(sql) =
          CASE limit.kind = "none" -> Prepared(AppendProbe(sql), MAX_VISIBLE_ROWS)
            [] limit.kind = "limit" /\ limit.count <= MAX_VISIBLE_ROWS -> Prepared(sql, MAX_VISIBLE_ROWS)
            [] OTHER -> Refused
    BY <1>1, <1>3 DEF PrepareManual
  <2> HIDE DEF limit
  <2>2. CASE limit.kind = "none"
    BY <1>1, <1>3, <2>1, <2>2 DEF limit
  <2>3. CASE limit.kind = "limit" /\ limit.count <= MAX_VISIBLE_ROWS
    BY <1>1, <1>3, <2>1, <2>3 DEF limit
  <2>4. CASE ~(limit.kind = "none") /\ ~(limit.kind = "limit" /\ limit.count <= MAX_VISIBLE_ROWS)
    BY <2>1, <2>4
  <2> QED BY <2>2, <2>3, <2>4
<1> QED BY <1>2, <1>3

LEMMA PageIs ==
    ASSUME NEW sql, NEW range, NEW snapshot, PrepareTableData(sql, range, snapshot) # Refused
    PROVE  /\ ValidReadOnly(sql) /\ StatementType(sql) = "SELECT" /\ ReadLimit(sql).kind # "invalid"
           /\ PrepareTableData(sql, range, snapshot) =
                 Prepared(AddPrimaryKeyOrder(sql, range, snapshot), Unlimited)
BY DEF PrepareTableData

LEMMA WellFormedIsLexed ==
    ASSUME NEW sql, WellFormed(sql)
    PROVE  Lexed(sql)
<1>1. sql \in Seq(STRING) /\ STRING \subseteq Lexemes
  BY DEF WellFormed, Lexemes
<1>2. sql \in Seq(Lexemes)
  BY <1>1, SequenceOf
<1> QED BY <1>2 DEF WellFormed, Lexed

\* What the call is given, and what was prepared from it.
PolicyInv ==
    /\ manual \in BOOLEAN
    /\ manual => text \in Statements
    /\ ~manual => text \in Pages /\ catalog \in Catalogs
    /\ prepared # Refused =>
           prepared = IF manual THEN PrepareManual(text)
                      ELSE PrepareTableData(text, ranged, MapMetadata(catalog))

LEMMA PolicyInit == Init => PolicyInv
BY DEF Init, PolicyInv

LEMMA PolicyStep == PolicyInv /\ [Next]_vars => PolicyInv'
<1> SUFFICES ASSUME PolicyInv, [Next]_vars PROVE PolicyInv'
  OBVIOUS
<1> USE DEF query
<1>1. CASE Prepare
  BY <1>1 DEF Prepare, PolicyInv
<1>2. CASE UNCHANGED <<query, prepared>>
  BY <1>2 DEF PolicyInv
<1>3. ASSUME NEW n \in 1..MaxChunk, Arrives(n) \/ PacketArrives(n) PROVE UNCHANGED <<query, prepared>>
  BY <1>3 DEF Arrives, PacketArrives
<1>4. Ended \/ Execute \/ TooLarge \/ Answer \/ Parse \/ UNCHANGED vars => UNCHANGED <<query, prepared>>
  BY DEF Ended, Execute, TooLarge, Answer, Parse, vars
<1> QED BY <1>1, <1>2, <1>3, <1>4 DEF Next

LEMMA PolicyAlways == Spec => []PolicyInv
<1>1. PolicyInv /\ UNCHANGED vars => PolicyInv'
  BY PolicyStep
<1> QED BY PolicyInit, PolicyStep, PTL DEF Spec

LEMMA CatalogColumns ==
    ASSUME NEW catalogue \in Catalogs
    PROVE  \A t \in DOMAIN MapMetadata(catalogue) : MapMetadata(catalogue)[t] \in Seq(Columns)
BY CatalogsAssumption DEF Columns

LEMMA OneReadPrepared == PolicyInv => OneReadIsRun
<1> SUFFICES ASSUME PolicyInv, prepared # Refused PROVE RunsOneRead(prepared.sql)
  BY Zenon DEF OneReadIsRun, RunsOneRead
<1>1. WellFormed(text)
  BY StatementsAssumption DEF PolicyInv
<1>2. Lexed(text)
  BY <1>1, WellFormedIsLexed
<1>3. CASE manual
  <2>1. prepared = PrepareManual(text) /\ PrepareManual(text) # Refused
    BY <1>3 DEF PolicyInv
  <2>2. ReadsOne(text)
    BY <2>1, <1>2, ManualIs, ValidReadsOne
  <2>3. prepared.sql = text \/ prepared.sql = AppendProbe(text)
    BY <2>1, ManualIs DEF Prepared
  <2> QED BY <1>2, <2>2, <2>3, ProbeReadsOne, ReadsOneRuns
<1>4. CASE ~manual
  <2> DEFINE snapshot == MapMetadata(catalog)
             new == AddPrimaryKeyOrder(text, ranged, snapshot)
  <2>1. prepared = PrepareTableData(text, ranged, snapshot) /\ PrepareTableData(text, ranged, snapshot) # Refused
    BY <1>4 DEF PolicyInv
  <2>2. \A t \in DOMAIN snapshot : snapshot[t] \in Seq(Columns)
    BY <1>4, CatalogColumns DEF PolicyInv
  <2> HIDE DEF snapshot
  <2>3. ReadsOne(text)
    BY <2>1, <1>2, PageIs, ValidReadsOne
  <2>4. prepared.sql = new
    <3> DEFINE page == PrepareTableData(text, ranged, snapshot)
    <3>1. page = Prepared(new, Unlimited) /\ prepared = page
      BY <2>1, PageIs
    <3> HIDE DEF page, new
    <3> QED BY <3>1 DEF Prepared
  <2>5. Lexed(new) /\ ReadsOne(new)
    BY <1>2, <2>2, <2>3, OrderReadsOne
  <2> QED BY <2>4, <2>5, ReadsOneRuns
<1> QED BY <1>3, <1>4 DEF PolicyInv

(***************************************************************************)
(* Whatever is appended to a statement or inserted into it, what MySQL is  *)
(* sent is one statement, and one that reads (sql-policy.js:105-225 and    *)
(* pk-order.js:85-132).                                                    *)
(***************************************************************************)
THEOREM OneReadIsSent == Spec => []OneReadIsRun
BY PolicyAlways, OneReadPrepared, PTL

(***************************************************************************)
(* The clauses of a statement, by their places.                            *)
(***************************************************************************)
IsParenthesis(w) == w \in {"(", ")"}
Subquery(sql) == Contains(sql, "(")
ClauseAt(sql) == {i \in OuterAt(sql) : AfterAlias(sql, i)}

LEMMA OuterIs ==
    ASSUME NEW sql
    PROVE  OuterAt(sql) = {i \in ExecutedAt(sql) :
               /\ ~IsParenthesis(sql[i])
               /\ IsSemicolon(sql[i]) => \E j \in ExecutedAt(sql) : j > i}
BY Zenon DEF OuterAt, IsParenthesis, IsSemicolon

LEMMA AliasIs ==
    ASSUME NEW sql, NEW i
    PROVE  AfterAlias(sql, i) <=>
              (Subquery(sql) /\ (\E j \in OuterAt(sql) : sql[j] = "x") =>
                   \E j \in OuterAt(sql) : j < i /\ sql[j] = "x")
BY Zenon DEF AfterAlias, Subquery

LEMMA OtherWords ==
    /\ ~IsParenthesis("LIMIT") /\ ~IsSemicolon("LIMIT")
    /\ ~IsParenthesis("ORDER") /\ ~IsSemicolon("ORDER")
    /\ \A w : IsSemicolon(w) => ~IsParenthesis(w) /\ w # "x"
BY Zenon DEF IsParenthesis, IsSemicolon

LEMMA ClausesInText ==
    ASSUME NEW sql, Lexed(sql)
    PROVE  /\ ExecutedAt(sql) \in SUBSET (1..Len(sql))
           /\ OuterAt(sql) \subseteq ExecutedAt(sql) /\ OuterAt(sql) \in SUBSET (1..Len(sql))
           /\ ClauseAt(sql) \subseteq OuterAt(sql) /\ ClauseAt(sql) \in SUBSET (1..Len(sql))
BY TextFacts DEF ExecutedAt, OuterAt, ClauseAt

\* One LIMIT, and if there is an ORDER one before it.
InOrderOfClauses(sql) ==
    /\ \A i, j \in ClauseAt(sql) : sql[i] = "LIMIT" /\ sql[j] = "LIMIT" => i = j
    /\ \A i, j \in ClauseAt(sql) : sql[i] = "LIMIT" /\ sql[j] = "ORDER" =>
           \E o \in ClauseAt(sql) : sql[o] = "ORDER" /\ o < i

LEMMA AtMostOne ==
    ASSUME NEW S, IsFiniteSet(S)
    PROVE  Cardinality(S) > 1 <=> \E x, y \in S : x # y
<1>1. ASSUME NEW x \in S, NEW y \in S, x # y PROVE Cardinality(S) > 1
  <2>1. IsFiniteSet({x}) /\ Cardinality({x}) = 1
    BY FS_Singleton
  <2>2. Cardinality({x} \cup {y}) = Cardinality({x}) + 1
    BY <2>1, <1>1, FS_AddElement
  <2>3. Cardinality({x} \cup {y}) <= Cardinality(S) /\ Cardinality(S) \in Nat
    <3>1. {x} \cup {y} \in SUBSET S
      BY <1>1
    <3> QED BY <3>1, FS_Subset, FS_CardinalityType
  <2> QED BY <2>1, <2>2, <2>3
<1>2. ASSUME \A x, y \in S : x = y PROVE ~(Cardinality(S) > 1)
  <2>1. CASE S = {}
    BY <2>1, FS_EmptySet
  <2>2. CASE S # {}
    <3>1. PICK x \in S : TRUE
      BY <2>2
    <3>2. S = {x}
      BY <1>2, <3>1
    <3> QED BY <3>2, FS_Singleton
  <2> QED BY <2>1, <2>2
<1> QED BY <1>1, <1>2

\* What MySQL reads of the words, read of their places.
LEMMA SyntaxIs ==
    ASSUME NEW sql, Lexed(sql)
    PROVE  ~SyntaxError(sql) <=> InOrderOfClauses(sql)
<1> DEFINE C == ClauseAt(sql)
           words == Clauses(sql)
           limits == {k \in DOMAIN words : words[k] = "LIMIT"}
           orders == {k \in 1..Len(words) : words[k] = "ORDER"}
           order == FirstOne(orders)
<1>1. C \in SUBSET (1..Len(sql)) /\ sql \in Seq(Lexemes) /\ Len(sql) \in Nat
  BY ClausesInText, TextFacts
<1>2. words = At(sql, C)
  BY DEF Clauses, ClauseAt
<1>3. Place(words, "ORDER") = order
  BY DEF Place, SelectInSeq, FirstOne
<1>4. SyntaxError(sql) <=> Cardinality(limits) > 1 \/ \E k \in limits : k < order
  BY <1>3 DEF SyntaxError
<1>5. PICK at : Enumerates(at, C)
  BY <1>1, AnEnumeration
<1> HIDE DEF C, words
<1>6. Reads(words, sql, at) /\ at \in Seq(Nat) /\ Len(words) = Len(at) /\ words \in Seq(Lexemes)
  BY <1>1, <1>2, <1>5, AtFacts
<1>7. /\ Len(at) \in Nat /\ DOMAIN at = 1..Len(at) /\ DOMAIN words = 1..Len(at)
      /\ \A k \in 1..Len(at) : at[k] \in C /\ at[k] \in Nat /\ words[k] = sql[at[k]]
  <2>1. at \in Seq(C) /\ DOMAIN at = 1..Len(at) /\ Len(at) \in Nat /\ DOMAIN words = 1..Len(at)
    BY <1>5, <1>6 DEF Enumerates
  <2>2. ASSUME NEW k \in 1..Len(at) PROVE at[k] \in C /\ at[k] \in Nat /\ words[k] = sql[at[k]]
    <3>1. at[k] \in C /\ at[k] \in Nat
      BY <2>1, <1>6
    <3> QED BY <3>1, <2>1, <1>6 DEF Reads
  <2> QED BY <2>1, <2>2
<1>8. \A i \in C : \E k \in 1..Len(at) : at[k] = i
  BY <1>5, <1>7 DEF Enumerates
<1>9. \A k, l \in 1..Len(at) : k < l <=> at[k] < at[l]
  <2>1. \A k, l \in 1..Len(at) : k < l => at[k] < at[l]
    BY <1>5, <1>7 DEF Enumerates
  <2> QED BY <2>1, <1>7
<1>10. \A k, l \in 1..Len(at) : k = l <=> at[k] = at[l]
  BY <1>7, <1>9
<1>11. limits = {k \in 1..Len(at) : sql[at[k]] = "LIMIT"} /\ orders = {k \in 1..Len(at) : sql[at[k]] = "ORDER"}
  BY <1>6, <1>7
<1>12. IsFiniteSet(limits)
  <2>1. IsFiniteSet(1..Len(at))
    BY <1>7, FS_Interval
  <2> QED BY <2>1, <1>7, FS_Subset
<1>13. Cardinality(limits) > 1 <=> \E k, l \in limits : k # l
  <2> HIDE DEF limits
  <2> QED BY <1>12, AtMostOne
<1>14. /\ order = 0 => orders = {}
       /\ order # 0 => FirstIn(orders, order)
       /\ orders = {} => order = 0
  <2>1. orders \subseteq Nat \ {0}
    BY <1>6, <1>7
  <2> HIDE DEF orders
  <2> QED BY <2>1, FirstOneFacts
<1> HIDE DEF limits, orders, order
<1>15. \A k \in limits : k < order <=> orders # {} /\ \A o \in orders : k < o
  <2> TAKE k \in limits
  <2>1. k \in Nat /\ k # 0
    BY <1>11, <1>7
  <2>2. CASE order = 0
    BY <2>1, <2>2, <1>14
  <2>3. CASE order # 0
    <3>1. order \in orders /\ \A o \in orders : order <= o /\ o \in Nat
      BY <2>3, <1>14, <1>11, <1>7 DEF FirstIn
    <3> QED BY <2>1, <3>1
  <2> QED BY <2>2, <2>3
<1>16. (\E k, l \in limits : k # l) <=> \E i, j \in C : sql[i] = "LIMIT" /\ sql[j] = "LIMIT" /\ i # j
  <2>1. ASSUME NEW k \in limits, NEW l \in limits, k # l
        PROVE  \E i, j \in C : sql[i] = "LIMIT" /\ sql[j] = "LIMIT" /\ i # j
    <3>1. k \in 1..Len(at) /\ l \in 1..Len(at) /\ sql[at[k]] = "LIMIT" /\ sql[at[l]] = "LIMIT"
      BY <1>11
    <3> QED BY <2>1, <3>1, <1>7, <1>10
  <2>2. ASSUME NEW i \in C, NEW j \in C, sql[i] = "LIMIT", sql[j] = "LIMIT", i # j
        PROVE  \E k, l \in limits : k # l
    <3>1. PICK k \in 1..Len(at) : at[k] = i
      BY <1>8
    <3>2. PICK l \in 1..Len(at) : at[l] = j
      BY <1>8
    <3>3. k \in limits /\ l \in limits
      BY <2>2, <3>1, <3>2, <1>11
    <3> QED BY <2>2, <3>1, <3>2, <3>3
  <2> QED BY <2>1, <2>2
<1>17. (\E k \in limits : k < order) <=>
          \E i \in C : /\ sql[i] = "LIMIT" /\ \E j \in C : sql[j] = "ORDER"
                       /\ \A o \in C : sql[o] = "ORDER" => i < o
  <2>1. ASSUME NEW k \in limits, k < order
        PROVE  \E i \in C : /\ sql[i] = "LIMIT" /\ \E j \in C : sql[j] = "ORDER"
                            /\ \A o \in C : sql[o] = "ORDER" => i < o
    <3>1. k \in 1..Len(at) /\ sql[at[k]] = "LIMIT" /\ at[k] \in C
      BY <1>7, <1>11
    <3>2. orders # {} /\ \A o \in orders : k < o
      BY <2>1, <1>15
    <3>3. \E j \in C : sql[j] = "ORDER"
      BY <3>2, <1>7, <1>11
    <3>4. ASSUME NEW o \in C, sql[o] = "ORDER" PROVE at[k] < o
      <4>1. PICK l \in 1..Len(at) : at[l] = o
        BY <1>8
      <4>2. l \in orders
        BY <3>4, <4>1, <1>11
      <4> QED BY <3>1, <3>2, <4>1, <4>2, <1>9
    <3> QED BY <3>1, <3>3, <3>4
  <2>2. ASSUME NEW i \in C, sql[i] = "LIMIT", NEW j \in C, sql[j] = "ORDER",
               \A o \in C : sql[o] = "ORDER" => i < o
        PROVE  \E k \in limits : k < order
    <3>1. PICK k \in 1..Len(at) : at[k] = i
      BY <1>8
    <3>2. PICK l \in 1..Len(at) : at[l] = j
      BY <1>8
    <3>3. k \in limits /\ l \in orders
      BY <2>2, <3>1, <3>2, <1>11
    <3>4. ASSUME NEW o \in orders PROVE k < o
      <4>1. o \in 1..Len(at) /\ sql[at[o]] = "ORDER" /\ at[o] \in C
        BY <1>7, <1>11
      <4> QED BY <4>1, <2>2, <3>1, <1>9
    <3> QED BY <3>3, <3>4, <1>15
  <2> QED BY <2>1, <2>2
<1>18. \A i \in C : i \in Nat
  BY <1>1
<1>19. SyntaxError(sql) <=>
          \/ \E i, j \in C : sql[i] = "LIMIT" /\ sql[j] = "LIMIT" /\ i # j
          \/ \E i \in C : /\ sql[i] = "LIMIT" /\ \E j \in C : sql[j] = "ORDER"
                           /\ \A o \in C : sql[o] = "ORDER" => i < o
  BY <1>4, <1>13, <1>16, <1>17 DEF limits
<1>20. \A i, o \in C : sql[i] = "LIMIT" /\ sql[o] = "ORDER" => (~(i < o) <=> o < i)
  BY <1>18
<1> QED BY <1>19, <1>20 DEF InOrderOfClauses, C

\* Words of no structure of their own, put in before a word that is run; what
\* they replace is semicolons, and none comes before them.
Inserts(new, sql, mid, a, b, d) ==
    /\ Lexed(sql) /\ Spliced(new, sql, mid, a, b, d)
    /\ \E m \in ExecutedAt(sql) : a <= m
    /\ \A k \in 1..Len(mid) : /\ mid[k] \notin Comments /\ ~IsSemicolon(mid[k])
                             /\ ~IsParenthesis(mid[k]) /\ mid[k] # "x"
    /\ \A i \in ExecutedAt(sql) : i <= a => ~IsSemicolon(sql[i])
    /\ \A i \in (a + 1)..(b - 1) : IsSemicolon(sql[i])

\* A set of places before and after.
Moved(new, sql, P, Q, a, b, d) ==
    /\ P \in SUBSET (1..Len(sql)) /\ Q \in SUBSET (1..Len(new))
    /\ \A i \in 1..a : i \in Q <=> i \in P
    /\ \A i \in (b + d)..Len(new) : i \in Q <=> i - d \in P

LEMMA InsertsText ==
    ASSUME NEW new, NEW sql, NEW mid, NEW a, NEW b, NEW d, Inserts(new, sql, mid, a, b, d)
    PROVE  /\ Lexed(sql) /\ Lexed(new)
           /\ a \in Nat /\ b \in Nat /\ d \in Nat /\ a < b /\ b <= Len(sql) + 1 /\ b + d = a + Len(mid) + 1
           /\ Len(sql) \in Nat /\ Len(new) = Len(sql) + d /\ Len(mid) \in Nat
           /\ \A i \in 1..a : i \in 1..Len(sql) /\ i \in 1..Len(new) /\ new[i] = sql[i]
           /\ \A i \in (a + 1)..(b + d - 1) : /\ i \in 1..Len(new) /\ i - a \in 1..Len(mid)
                                             /\ new[i] = mid[i - a]
           /\ \A i \in (b + d)..Len(new) : /\ i \in 1..Len(new) /\ i - d \in b..Len(sql)
                                           /\ i - d \in 1..Len(sql) /\ new[i] = sql[i - d]
           /\ \A i \in b..Len(sql) : i + d \in (b + d)..Len(new) /\ (i + d) - d = i
           /\ Moved(new, sql, ExecutedAt(sql), ExecutedAt(new), a, b, d)
           /\ \A i \in (a + 1)..(b + d - 1) : i \in ExecutedAt(new)
<1>1. /\ Lexed(new)
      /\ \A i \in 1..a : i \in ExecutedAt(new) <=> i \in ExecutedAt(sql)
      /\ \A i \in (a + 1)..(b + d - 1) : i \in ExecutedAt(new)
      /\ \A i \in (b + d)..Len(new) : i \in ExecutedAt(new) <=> i - d \in ExecutedAt(sql)
  BY SpliceRuns DEF Inserts
<1>2. Lexed(sql) /\ Len(sql) \in Nat /\ Len(new) \in Nat
  BY <1>1, TextFacts DEF Inserts
<1>3. /\ a \in Nat /\ b \in Nat /\ d \in Nat /\ a < b /\ b <= Len(sql) + 1 /\ b + d = a + Len(mid) + 1
      /\ Len(new) = Len(sql) + d /\ mid \in Seq(Lexemes)
      /\ \A i \in 1..a : new[i] = sql[i]
      /\ \A i \in (a + 1)..(b + d - 1) : i - a \in 1..Len(mid) /\ new[i] = mid[i - a]
      /\ \A i \in (b + d)..Len(new) : i - d \in b..Len(sql) /\ new[i] = sql[i - d]
  BY DEF Inserts, Spliced
<1>4. Len(mid) \in Nat
  BY <1>3
<1>5. \A i \in 1..a : i \in 1..Len(sql) /\ i \in 1..Len(new)
  BY <1>2, <1>3
<1>6. \A i \in (a + 1)..(b + d - 1) : i \in 1..Len(new)
  BY <1>2, <1>3
<1>7. \A i \in (b + d)..Len(new) : i \in 1..Len(new) /\ i - d \in 1..Len(sql)
  BY <1>2, <1>3
<1>8. \A i \in b..Len(sql) : i + d \in (b + d)..Len(new) /\ (i + d) - d = i
  BY <1>2, <1>3
<1>9. Moved(new, sql, ExecutedAt(sql), ExecutedAt(new), a, b, d)
  BY <1>1, <1>2, ClausesInText DEF Moved
<1> QED BY <1>1, <1>2, <1>3, <1>4, <1>5, <1>6, <1>7, <1>8, <1>9

\* A word is in the outer statement after iff it was before.
LEMMA InsertsOuter ==
    ASSUME NEW new, NEW sql, NEW mid, NEW a, NEW b, NEW d, Inserts(new, sql, mid, a, b, d)
    PROVE  /\ Moved(new, sql, OuterAt(sql), OuterAt(new), a, b, d)
           /\ \A i \in (a + 1)..(b + d - 1) : i \in OuterAt(new)
<1> DEFINE X == ExecutedAt(sql)
           Y == ExecutedAt(new)
           O == OuterAt(sql)
           Q == OuterAt(new)
<1>1. O = {i \in X : ~IsParenthesis(sql[i]) /\ (IsSemicolon(sql[i]) => \E j \in X : j > i)}
  BY OuterIs
<1>2. Q = {i \in Y : ~IsParenthesis(new[i]) /\ (IsSemicolon(new[i]) => \E j \in Y : j > i)}
  BY OuterIs
<1>3. /\ Lexed(sql) /\ Lexed(new)
      /\ a \in Nat /\ b \in Nat /\ d \in Nat /\ a < b /\ Len(sql) \in Nat /\ Len(new) = Len(sql) + d
      /\ \A i \in 1..a : new[i] = sql[i]
      /\ \A i \in (a + 1)..(b + d - 1) : i - a \in 1..Len(mid) /\ new[i] = mid[i - a] /\ i \in Y
      /\ \A i \in (b + d)..Len(new) : i - d \in b..Len(sql) /\ new[i] = sql[i - d]
      /\ \A i \in b..Len(sql) : i + d \in (b + d)..Len(new) /\ (i + d) - d = i
  BY InsertsText
<1>9. /\ X \in SUBSET (1..Len(sql)) /\ Y \in SUBSET (1..Len(new))
      /\ \A i \in 1..a : i \in Y <=> i \in X
      /\ \A i \in (b + d)..Len(new) : i \in Y <=> i - d \in X
  <2>1. Moved(new, sql, X, Y, a, b, d)
    BY InsertsText
  <2> QED BY <2>1 DEF Moved
<1>4. /\ \A k \in 1..Len(mid) : ~IsSemicolon(mid[k]) /\ ~IsParenthesis(mid[k])
      /\ \A i \in X : i <= a => ~IsSemicolon(sql[i])
  BY DEF Inserts
<1>5. O \in SUBSET (1..Len(sql)) /\ Q \in SUBSET (1..Len(new))
  BY <1>3, <1>9, ClausesInText
<1> HIDE DEF X, Y, O, Q
<1>6. ASSUME NEW i \in 1..a PROVE i \in Q <=> i \in O
  <2>1. i <= a /\ new[i] = sql[i] /\ (i \in Y <=> i \in X)
    BY <1>3, <1>9
  <2> QED BY <2>1, <1>1, <1>2, <1>4
<1>7. ASSUME NEW i \in (a + 1)..(b + d - 1) PROVE i \in Q
  BY <1>2, <1>3, <1>9, <1>4
<1>8. ASSUME NEW i \in (b + d)..Len(new) PROVE i \in Q <=> i - d \in O
  <2>1. new[i] = sql[i - d] /\ (i \in Y <=> i - d \in X) /\ i - d \in b..Len(sql)
    BY <1>3, <1>9
  <2>2. ASSUME NEW j \in Y, j > i PROVE \E k \in X : k > i - d
    <3>1. j \in (b + d)..Len(new)
      BY <1>3, <1>9, <2>2
    <3>2. j - d \in X /\ j - d > i - d
      BY <3>1, <1>3, <1>9, <2>2
    <3> QED BY <3>2
  <2>3. ASSUME NEW k \in X, k > i - d PROVE \E j \in Y : j > i
    <3>1. k \in b..Len(sql)
      BY <1>3, <1>9, <2>1, <2>3
    <3>2. k + d \in (b + d)..Len(new) /\ (k + d) - d = k
      BY <3>1, <1>3, <1>9
    <3>3. k + d \in Y
      BY <3>2, <1>3, <1>9
    <3>4. k + d > i
      BY <3>1, <2>1, <2>3, <1>3, <1>9
    <3> QED BY <3>3, <3>4
  <2>4. (\E j \in Y : j > i) <=> \E k \in X : k > i - d
    BY <2>2, <2>3
  <2> QED BY <2>1, <2>4, <1>1, <1>2
<1> QED BY <1>5, <1>6, <1>7, <1>8 DEF Moved, O, Q

\* Where a place was, or where the words were put in.
Origin(i, o, a, b, d) ==
    \/ i <= a /\ o = i
    \/ i > a /\ i < b + d /\ o = a + 1
    \/ i >= b + d /\ o = i - d

\* No word of S is put in or taken out.
Untouched(sql, mid, S, a, b) ==
    (\A k \in 1..Len(mid) : mid[k] \notin S) /\ (\A i \in (a + 1)..(b - 1) : sql[i] \notin S)

SameWord(new, sql, P, Q, S, a, b, d) ==
    /\ (\E j \in Q : new[j] \in S) <=> \E j \in P : sql[j] \in S
    /\ \A i, o \in Nat : Origin(i, o, a, b, d) =>
          ((\E j \in Q : j < i /\ new[j] \in S) <=> \E j \in P : j < o /\ sql[j] \in S)

\* A word of S is before a place iff it was before its origin.
LEMMA MovedWord ==
    ASSUME NEW new, NEW sql, NEW mid, NEW a, NEW b, NEW d, Inserts(new, sql, mid, a, b, d),
           NEW P, NEW Q, Moved(new, sql, P, Q, a, b, d),
           NEW S, Untouched(sql, mid, S, a, b)
    PROVE  SameWord(new, sql, P, Q, S, a, b, d)
<1> USE DEF Untouched
<1>1. /\ a \in Nat /\ b \in Nat /\ d \in Nat /\ a < b /\ Len(sql) \in Nat /\ Len(new) = Len(sql) + d
      /\ \A i \in 1..a : new[i] = sql[i]
      /\ \A i \in (a + 1)..(b + d - 1) : i - a \in 1..Len(mid) /\ new[i] = mid[i - a]
      /\ \A i \in (b + d)..Len(new) : i - d \in b..Len(sql) /\ new[i] = sql[i - d]
      /\ \A i \in b..Len(sql) : i + d \in (b + d)..Len(new) /\ (i + d) - d = i
  BY InsertsText
<1>2. /\ P \in SUBSET (1..Len(sql)) /\ Q \in SUBSET (1..Len(new))
      /\ \A i \in 1..a : i \in Q <=> i \in P
      /\ \A i \in (b + d)..Len(new) : i \in Q <=> i - d \in P
  BY DEF Moved
<1>3. ASSUME NEW j \in Q, new[j] \in S
      PROVE  j \in Nat /\ \/ j <= a /\ j \in P /\ sql[j] \in S
                          \/ j >= b + d /\ j - d >= b /\ j - d \in P /\ sql[j - d] \in S
  <2>1. j \in 1..Len(new)
    BY <1>2
  <2>2. CASE j \in 1..a
    BY <2>2, <1>1, <1>2, <1>3
  <2>3. CASE j \in (a + 1)..(b + d - 1)
    BY <2>3, <1>1, <1>3
  <2>4. CASE j \in (b + d)..Len(new)
    BY <2>4, <1>1, <1>2, <1>3
  <2> QED BY <2>1, <2>2, <2>3, <2>4, <1>1
<1>4. ASSUME NEW j \in P, sql[j] \in S
      PROVE  j \in Nat /\ \/ j <= a /\ j \in Q /\ new[j] \in S
                          \/ j >= b /\ j + d >= b + d /\ j + d \in Q /\ new[j + d] \in S
  <2>1. j \in 1..Len(sql)
    BY <1>2
  <2>2. CASE j \in 1..a
    BY <2>2, <1>1, <1>2, <1>4
  <2>3. CASE j \in (a + 1)..(b - 1)
    BY <2>3, <1>4
  <2>4. CASE j \in b..Len(sql)
    <3>1. j + d \in (b + d)..Len(new) /\ (j + d) - d = j
      BY <2>4, <1>1
    <3>2. new[j + d] = sql[j] /\ j + d \in Q
      BY <3>1, <1>1, <1>2
    <3> QED BY <3>1, <3>2, <2>1, <2>4, <1>1, <1>4
  <2> QED BY <2>1, <2>2, <2>3, <2>4, <1>1
<1>5. (\E j \in Q : new[j] \in S) <=> \E j \in P : sql[j] \in S
  BY <1>3, <1>4
<1>6. ASSUME NEW i \in Nat, NEW o \in Nat, Origin(i, o, a, b, d)
      PROVE  (\E j \in Q : j < i /\ new[j] \in S) <=> \E j \in P : j < o /\ sql[j] \in S
  <2>1. ASSUME NEW j \in Q, j < i, new[j] \in S PROVE \E k \in P : k < o /\ sql[k] \in S
    <3>1. j \in Nat
      BY <1>3, <2>1
    <3>2. CASE j <= a /\ j \in P /\ sql[j] \in S
      <4>1. j < o
        BY <3>1, <3>2, <2>1, <1>6, <1>1 DEF Origin
      <4> QED BY <4>1, <3>2
    <3>3. CASE j >= b + d /\ j - d >= b /\ j - d \in P /\ sql[j - d] \in S
      <4>1. j - d < o
        BY <3>1, <3>3, <2>1, <1>6, <1>1 DEF Origin
      <4> QED BY <4>1, <3>3
    <3> QED BY <3>2, <3>3, <1>3, <2>1
  <2>2. ASSUME NEW j \in P, j < o, sql[j] \in S PROVE \E k \in Q : k < i /\ new[k] \in S
    <3>1. j \in Nat
      BY <1>4, <2>2
    <3>2. CASE j <= a /\ j \in Q /\ new[j] \in S
      <4>1. j < i
        BY <3>1, <3>2, <2>2, <1>6, <1>1 DEF Origin
      <4> QED BY <4>1, <3>2
    <3>3. CASE j >= b /\ j + d >= b + d /\ j + d \in Q /\ new[j + d] \in S
      <4>1. j + d < i
        BY <3>1, <3>3, <2>2, <1>6, <1>1 DEF Origin
      <4> QED BY <4>1, <3>3
    <3> QED BY <3>2, <3>3, <1>4, <2>2
  <2> QED BY <2>1, <2>2
<1> QED BY <1>5, <1>6 DEF SameWord

\* What is put in changes nothing of where the clauses begin.
LEMMA InsertsAlias ==
    ASSUME NEW new, NEW sql, NEW mid, NEW a, NEW b, NEW d, Inserts(new, sql, mid, a, b, d)
    PROVE  \A i, o \in Nat : Origin(i, o, a, b, d) => (AfterAlias(new, i) <=> AfterAlias(sql, o))
<1>1. Lexed(sql) /\ Lexed(new) /\ Len(sql) \in Nat /\ Len(new) \in Nat
  BY InsertsText, TextFacts
<1>2. /\ \A k \in 1..Len(mid) : mid[k] \notin {"("} /\ mid[k] \notin {"x"}
      /\ \A i \in (a + 1)..(b - 1) : sql[i] \notin {"("} /\ sql[i] \notin {"x"}
  BY OtherWords, Zenon DEF Inserts, IsParenthesis
<1>3. Subquery(new) <=> Subquery(sql)
  <2> DEFINE S == {"("}
             P == 1..Len(sql)
             Q == 1..Len(new)
  <2>1. Moved(new, sql, P, Q, a, b, d)
    BY InsertsText DEF Moved
  <2>2. Untouched(sql, mid, S, a, b)
    BY <1>2 DEF Untouched
  <2>3. Subquery(sql) <=> \E j \in P : sql[j] \in S
    BY <1>1, TextFacts, Zenon DEF Subquery, Contains
  <2>4. Subquery(new) <=> \E j \in Q : new[j] \in S
    BY <1>1, TextFacts, Zenon DEF Subquery, Contains
  <2> HIDE DEF S, P, Q
  <2>5. (\E j \in Q : new[j] \in S) <=> \E j \in P : sql[j] \in S
    BY <2>1, <2>2, MovedWord DEF SameWord
  <2> QED BY <2>3, <2>4, <2>5
<1>4. ASSUME NEW i \in Nat, NEW o \in Nat, Origin(i, o, a, b, d)
      PROVE  AfterAlias(new, i) <=> AfterAlias(sql, o)
  <2> DEFINE S == {"x"}
             P == OuterAt(sql)
             Q == OuterAt(new)
  <2>1. Moved(new, sql, P, Q, a, b, d)
    BY InsertsOuter
  <2>2. Untouched(sql, mid, S, a, b)
    BY <1>2 DEF Untouched
  <2>3. AfterAlias(sql, o) <=> (Subquery(sql) /\ (\E j \in P : sql[j] \in S) => \E j \in P : j < o /\ sql[j] \in S)
    BY AliasIs, Zenon
  <2>4. AfterAlias(new, i) <=> (Subquery(new) /\ (\E j \in Q : new[j] \in S) => \E j \in Q : j < i /\ new[j] \in S)
    BY AliasIs, Zenon
  <2> HIDE DEF S, P, Q
  <2>5. /\ (\E j \in Q : new[j] \in S) <=> \E j \in P : sql[j] \in S
        /\ (\E j \in Q : j < i /\ new[j] \in S) <=> \E j \in P : j < o /\ sql[j] \in S
    <3>1. SameWord(new, sql, P, Q, S, a, b, d)
      BY <2>1, <2>2, MovedWord
    <3> QED BY <3>1, <1>4 DEF SameWord
  <2> QED BY <1>3, <2>3, <2>4, <2>5
<1> QED BY <1>4

\* So a word is in the clauses after iff it was before.
LEMMA InsertsClauses ==
    ASSUME NEW new, NEW sql, NEW mid, NEW a, NEW b, NEW d, Inserts(new, sql, mid, a, b, d)
    PROVE  /\ Moved(new, sql, ClauseAt(sql), ClauseAt(new), a, b, d)
           /\ \A i \in (a + 1)..(b + d - 1) : i \in ClauseAt(new) <=> AfterAlias(sql, a + 1)
<1>1. /\ a \in Nat /\ b \in Nat /\ d \in Nat /\ a < b /\ Len(sql) \in Nat /\ Len(new) = Len(sql) + d
      /\ \A i \in (b + d)..Len(new) : i - d \in b..Len(sql)
      /\ Lexed(sql) /\ Lexed(new)
  BY InsertsText
<1>2. /\ \A i \in 1..a : i \in OuterAt(new) <=> i \in OuterAt(sql)
      /\ \A i \in (b + d)..Len(new) : i \in OuterAt(new) <=> i - d \in OuterAt(sql)
      /\ \A i \in (a + 1)..(b + d - 1) : i \in OuterAt(new)
  BY InsertsOuter DEF Moved
<1>3. ClauseAt(sql) \in SUBSET (1..Len(sql)) /\ ClauseAt(new) \in SUBSET (1..Len(new))
  BY <1>1, ClausesInText
<1>4. ASSUME NEW i \in 1..a PROVE i \in ClauseAt(new) <=> i \in ClauseAt(sql)
  <2>1. i \in Nat /\ Origin(i, i, a, b, d)
    BY <1>1 DEF Origin
  <2>2. AfterAlias(new, i) <=> AfterAlias(sql, i)
    BY <2>1, InsertsAlias
  <2> QED BY <2>2, <1>2 DEF ClauseAt
<1>5. ASSUME NEW i \in (b + d)..Len(new) PROVE i \in ClauseAt(new) <=> i - d \in ClauseAt(sql)
  <2>1. i \in Nat /\ i - d \in Nat /\ Origin(i, i - d, a, b, d)
    BY <1>1 DEF Origin
  <2>2. AfterAlias(new, i) <=> AfterAlias(sql, i - d)
    BY <2>1, InsertsAlias
  <2> QED BY <2>2, <1>2 DEF ClauseAt
<1>6. ASSUME NEW i \in (a + 1)..(b + d - 1) PROVE i \in ClauseAt(new) <=> AfterAlias(sql, a + 1)
  <2>1. i \in Nat /\ a + 1 \in Nat /\ Origin(i, a + 1, a, b, d)
    BY <1>1 DEF Origin
  <2>2. AfterAlias(new, i) <=> AfterAlias(sql, a + 1)
    BY <2>1, InsertsAlias
  <2> QED BY <2>2, <1>2 DEF ClauseAt
<1> QED BY <1>3, <1>4, <1>5, <1>6 DEF Moved

LEMMA ProbeWords ==
    /\ \A k \in 1..Len(Probe) : ~IsParenthesis(Probe[k]) /\ Probe[k] # "x" /\ Probe[k] # "ORDER"
    /\ \A k \in 1..Len(Probe) : Probe[k] = "LIMIT" <=> k = 1
<1> DEFINE numeral == ToString(PROBE_ROW_COUNT)
<1>1. Len(Probe) = 2 /\ Probe[1] = "LIMIT" /\ Probe[2] = numeral /\ numeral \in Numerals
  BY ProbeFacts
<1> HIDE DEF numeral
<1>2. ~IsParenthesis(numeral) /\ numeral # "x" /\ numeral # "ORDER" /\ numeral # "LIMIT"
  BY <1>1, NumeralAssumption, Zenon DEF IsParenthesis
<1>3. ~IsParenthesis("LIMIT") /\ "LIMIT" # "x" /\ "LIMIT" # "ORDER"
  BY Zenon DEF IsParenthesis
<1>4. \A k \in 1..Len(Probe) : k = 1 \/ k = 2
  BY <1>1
<1>5. ASSUME NEW k \in 1..Len(Probe) PROVE ~IsParenthesis(Probe[k]) /\ Probe[k] # "x" /\ Probe[k] # "ORDER"
  <2>1. Probe[k] = "LIMIT" \/ Probe[k] = numeral
    BY <1>1, <1>4
  <2> QED BY <2>1, <1>2, <1>3
<1>6. ASSUME NEW k \in 1..Len(Probe) PROVE Probe[k] = "LIMIT" <=> k = 1
  BY <1>1, <1>2, <1>4
<1> QED BY <1>5, <1>6

LEMMA ProbeInserts ==
    ASSUME NEW new, NEW sql, NEW m \in Nat, NEW a \in Nat, NEW b \in Nat, NEW d \in Nat,
           ProbeAt(new, sql, m, a, b, d), Lexed(sql), ReadsOne(sql)
    PROVE  Inserts(new, sql, Probe, a, b, d)
<1> DEFINE X == ExecutedAt(sql)
<1>1. /\ LastIn(X, m) /\ b = m + 1 /\ a <= m /\ m <= a + 1 /\ Spliced(new, sql, Probe, a, b, d)
      /\ (IsSemicolon(sql[m]) => a = m - 1) /\ (~IsSemicolon(sql[m]) => a = m)
  BY DEF ProbeAt
<1>2. \A i \in X : i \in Nat /\ (IsSemicolon(sql[i]) => LastIn(X, i))
  BY TextFacts DEF ExecutedAt, ReadsOne
<1> HIDE DEF X
<1>3. ASSUME NEW i \in X, i <= a PROVE ~IsSemicolon(sql[i])
  <2>1. ASSUME IsSemicolon(sql[i]) PROVE FALSE
    <3>1. m <= i /\ i <= m
      BY <2>1, <1>1, <1>2 DEF LastIn
    <3>2. i = m
      BY <3>1, <1>2
    <3> QED BY <2>1, <3>2, <1>1, <1>3
  <2> QED BY <2>1
<1>4. ASSUME NEW i \in (a + 1)..(b - 1) PROVE IsSemicolon(sql[i])
  <2>1. i = m /\ a # m
    BY <1>1
  <2> QED BY <2>1, <1>1
<1>5. \E i \in X : a <= i
  BY <1>1 DEF LastIn
<1>6. \A k \in 1..Len(Probe) : /\ Probe[k] \notin Comments /\ ~IsSemicolon(Probe[k])
                              /\ ~IsParenthesis(Probe[k]) /\ Probe[k] # "x"
  BY ProbeFacts, ProbeWords
<1> QED BY <1>1, <1>3, <1>4, <1>5, <1>6 DEF Inserts, X

LEMMA OrderInserts ==
    ASSUME NEW new, NEW sql, NEW columns \in Seq(Columns), NEW limit \in Nat, NEW a \in Nat, NEW d \in Nat,
           columns # <<>>, OrderAt(new, sql, columns, limit, a, d), Lexed(sql), ReadsOne(sql)
    PROVE  /\ Inserts(new, sql, OrderBy(columns), a, limit, d)
           /\ OrderBy(columns)[1] = "ORDER" /\ \A k \in 1..Len(OrderBy(columns)) : OrderBy(columns)[k] # "LIMIT"
<1> DEFINE X == ExecutedAt(sql)
           mid == OrderBy(columns)
<1>1. limit \in X /\ sql[limit] = "LIMIT" /\ limit = a + 1 /\ Spliced(new, sql, mid, a, limit, d)
  BY TopLevelWords DEF OrderAt
<1>2. \A i \in X : i \in Nat /\ (IsSemicolon(sql[i]) => LastIn(X, i))
  BY TextFacts DEF ExecutedAt, ReadsOne
<1>3. ASSUME NEW k \in 1..Len(mid) PROVE mid[k] = "ORDER" \/ Plain(mid[k]) \/ Separator(mid[k])
  <2>1. mid \in Seq(Lexemes) /\ mid[1] = "ORDER" /\ \A j \in 2..Len(mid) : Plain(mid[j]) \/ Separator(mid[j])
    BY OrderFacts
  <2> HIDE DEF mid
  <2>2. k = 1 \/ k \in 2..Len(mid)
    BY <2>1
  <2> QED BY <2>1, <2>2
<1>4. mid[1] = "ORDER"
  BY OrderFacts
<1> HIDE DEF X, mid
<1>5. ASSUME NEW k \in 1..Len(mid)
      PROVE  mid[k] \notin Comments /\ ~IsSemicolon(mid[k]) /\ ~IsParenthesis(mid[k]) /\ mid[k] # "x" /\ mid[k] # "LIMIT"
  <2>1. mid[k] \notin Comments /\ ~IsSemicolon(mid[k]) /\ mid[k] # "LIMIT" /\ mid[k] \notin {"(", ")"} /\ mid[k] # "x"
    BY <1>3, PlainWords, Zenon
  <2> QED BY <2>1, Zenon DEF IsParenthesis
<1>6. ASSUME NEW i \in X, i <= a PROVE ~IsSemicolon(sql[i])
  <2>1. IsSemicolon(sql[i]) => limit <= i
    BY <1>1, <1>2 DEF LastIn
  <2> QED BY <2>1, <1>1, <1>2, <1>6
<1>7. \A i \in (a + 1)..(limit - 1) : IsSemicolon(sql[i])
  BY <1>1
<1>8. \E i \in X : a <= i
  BY <1>1
<1> QED BY <1>1, <1>4, <1>5, <1>6, <1>7, <1>8 DEF Inserts, X, mid

(***************************************************************************)
(* What MySQL takes before it takes after.                                 *)
(***************************************************************************)

\* The limit the policy finds is the one of the clauses.
LEMMA TopIsClause ==
    ASSUME NEW sql, WellFormed(sql), NEW i, sql[i] = "LIMIT"
    PROVE  i \in TopAt(sql) <=> i \in ClauseAt(sql)
<1>1. Lexed(sql)
  BY WellFormedIsLexed
<1>2. ~IsParenthesis("LIMIT") /\ ~IsSemicolon("LIMIT") /\ "LIMIT" \notin Comments
  BY OtherWords, Zenon DEF Comments
<1>3. i \in OuterAt(sql) => (Depth(sql, i) = 0 <=> AfterAlias(sql, i))
  BY DEF WellFormed
<1>4. i \in OuterAt(sql) <=> i \in ExecutedAt(sql)
  BY <1>2, OuterIs
<1>5. i \in ExecutedAt(sql) <=> i \in 1..Len(sql)
  BY <1>1, <1>2, RunsAllButComments
<1>6. i \in TopAt(sql) <=> i \in 1..Len(sql) /\ Depth(sql, i) = 0
  BY <1>2 DEF TopAt
<1> QED BY <1>3, <1>4, <1>5, <1>6 DEF ClauseAt

LEMMA NoLimitIsNone ==
    ASSUME NEW sql, Lexed(sql), ReadLimit(sql).kind = "none"
    PROVE  \A i \in TopAt(sql) : sql[i] # "LIMIT"
<1> DEFINE words == Raw(TopLevel(sql))
           limits == {i \in DOMAIN words : words[i] = "LIMIT"}
<1>1. limits = {}
  <2>1. ASSUME limits # {} PROVE FALSE
    <3>1. \A c, o : Limit(c, o).kind # "none"
      BY DEF Limit, InvalidLimit
    <3>2. InvalidLimit.kind # "none"
      BY DEF InvalidLimit
    <3> QED BY <2>1, <3>1, <3>2 DEF ReadLimit
  <2> QED BY <2>1
<1>2. words = At(sql, TopAt(sql)) /\ TopAt(sql) \in SUBSET (1..Len(sql)) /\ sql \in Seq(Lexemes) /\ Len(sql) \in Nat
  BY TopLevelWords, TextFacts
<1>3. PICK at : Enumerates(at, TopAt(sql))
  BY <1>2, AnEnumeration
<1>4. Reads(words, sql, at)
  BY <1>2, <1>3, AtFacts
<1> HIDE DEF words
<1>5. ASSUME NEW i \in TopAt(sql) PROVE sql[i] # "LIMIT"
  <2>1. PICK k \in DOMAIN at : at[k] = i
    BY <1>3 DEF Enumerates
  <2>2. k \in DOMAIN words /\ words[k] = sql[i]
    BY <1>4, <2>1 DEF Reads
  <2> QED BY <2>2, <1>1
<1> QED BY <1>5

\* Where the words of the new statement come from.
Layout(new, sql, mid, a, b, d) ==
    /\ a \in Nat /\ b \in Nat /\ d \in Nat /\ a < b /\ b + d = a + Len(mid) + 1
    /\ Len(sql) \in Nat /\ Len(new) \in Nat /\ Len(mid) \in Nat
    /\ \A i \in 1..a : new[i] = sql[i]
    /\ \A i \in (a + 1)..(b + d - 1) : i - a \in 1..Len(mid) /\ new[i] = mid[i - a]
    /\ \A i \in (b + d)..Len(new) : i - d \in b..Len(sql) /\ new[i] = sql[i - d]

LEMMA InsertsLayout ==
    ASSUME NEW new, NEW sql, NEW mid, NEW a, NEW b, NEW d, Inserts(new, sql, mid, a, b, d)
    PROVE  Layout(new, sql, mid, a, b, d)
<1>1. Lexed(new)
  BY InsertsText
<1>2. Len(new) \in Nat
  BY <1>1, TextFacts
<1>3. /\ a \in Nat /\ b \in Nat /\ d \in Nat /\ a < b /\ b + d = a + Len(mid) + 1
      /\ Len(sql) \in Nat /\ Len(mid) \in Nat
      /\ \A i \in 1..a : new[i] = sql[i]
      /\ \A i \in (a + 1)..(b + d - 1) : i - a \in 1..Len(mid) /\ new[i] = mid[i - a]
      /\ \A i \in (b + d)..Len(new) : i - d \in b..Len(sql) /\ new[i] = sql[i - d]
  BY InsertsText
<1> QED BY <1>2, <1>3 DEF Layout

\* The clauses of a statement with a probe: the probe is the last of them.
ProbeClauses(new, sql, a) ==
    /\ Lexed(new) /\ a \in Nat
    /\ a + 1 \in ClauseAt(new) /\ new[a + 1] = "LIMIT"
    /\ a + 2 \in ClauseAt(new) /\ new[a + 2] = ToString(PROBE_ROW_COUNT)
    /\ \A i \in ClauseAt(new) : /\ i \in Nat /\ i <= a + 2
                                /\ new[i] = "LIMIT" => i = a + 1
                                /\ new[i] = "ORDER" => i < a + 1
    /\ \A i \in OuterAt(sql) : sql[i] = "SELECT" /\ FirstIn(OuterAt(sql), i) =>
           new[i] = "SELECT" /\ FirstIn(OuterAt(new), i)
    /\ \A i \in Nat : i \in OuterAt(new) /\ ~AfterAlias(new, i) <=> i \in OuterAt(sql) /\ ~AfterAlias(sql, i)
    /\ \A i \in OuterAt(sql) : ~AfterAlias(sql, i) => new[i] = sql[i]
    /\ \A i \in ClauseAt(sql) : i \in ClauseAt(new) /\ i <= a /\ new[i] = sql[i] /\ sql[i] # "LIMIT"
    /\ \A i \in ClauseAt(new) : i <= a => i \in ClauseAt(sql)

LEMMA ProbeClausesAre ==
    ASSUME NEW sql, WellFormed(sql), ReadsOne(sql), ReadLimit(sql).kind = "none"
    PROVE  \E a : ProbeClauses(AppendProbe(sql), sql, a)
<1> DEFINE new == AppendProbe(sql)
           X == ExecutedAt(sql)
           O == OuterAt(sql)
           Q == OuterAt(new)
           C == ClauseAt(sql)
           D == ClauseAt(new)
<1>1. Lexed(sql) /\ X # {}
  BY WellFormedIsLexed DEF ReadsOne
<1>2. PICK m, a, b, d \in Nat : ProbeAt(new, sql, m, a, b, d)
  BY <1>1, ProbeSplices
<1> HIDE DEF new
<1>3. Inserts(new, sql, Probe, a, b, d)
  BY <1>1, <1>2, ProbeInserts
<1>4. /\ D \in SUBSET (1..Len(new))
      /\ \A i \in 1..a : i \in D <=> i \in C
      /\ \A i \in (b + d)..Len(new) : i \in D <=> i - d \in C
      /\ \A i \in (a + 1)..(b + d - 1) : i \in D <=> AfterAlias(sql, a + 1)
  <2>1. Moved(new, sql, C, D, a, b, d) /\ \A i \in (a + 1)..(b + d - 1) : i \in D <=> AfterAlias(sql, a + 1)
    BY <1>3, InsertsClauses
  <2> QED BY <2>1 DEF Moved
<1>5. Layout(new, sql, Probe, a, b, d) /\ Lexed(new)
  BY <1>3, InsertsLayout, InsertsText
<1>6. Len(Probe) = 2 /\ Probe[1] = "LIMIT" /\ Probe[2] = ToString(PROBE_ROW_COUNT)
  BY ProbeFacts
<1>7. b + d = a + 3 /\ Len(new) \in Nat
  BY <1>5, <1>6 DEF Layout
<1>8. /\ m \in X /\ b = m + 1 /\ a <= m /\ m <= a + 1
      /\ (IsSemicolon(sql[m]) => a = m - 1) /\ (~IsSemicolon(sql[m]) => a = m)
      /\ \A i \in X : i \in Nat /\ i <= m
  <2>1. \A i \in X : i \in Nat
    BY <1>1, ClausesInText
  <2> QED BY <1>2, <2>1 DEF ProbeAt, LastIn
<1>9. O \subseteq X /\ C \subseteq O /\ O \in SUBSET (1..Len(sql)) /\ Q \in SUBSET (1..Len(new))
  BY <1>1, <1>5, ClausesInText
<1>10. /\ \A i \in 1..a : i \in Q <=> i \in O
       /\ \A i \in (b + d)..Len(new) : i \in Q <=> i - d \in O
  BY <1>3, InsertsOuter DEF Moved
<1>11. \A i \in C : sql[i] # "LIMIT"
  BY <1>1, NoLimitIsNone, TopIsClause
<1>12. AfterAlias(sql, a + 1)
  <2>1. ASSUME NEW j \in O, sql[j] = "x" PROVE j < a + 1
    <3>1. j \in X /\ j <= m /\ j \in Nat
      BY <1>8, <1>9
    <3>2. j = m => ~IsSemicolon(sql[m])
      BY <2>1, OtherWords
    <3> QED BY <3>1, <3>2, <1>8
  <2> QED BY <2>1, AliasIs
<1> HIDE DEF X, O, Q, C, D
<1>13. ASSUME NEW i \in 1..Len(new) PROVE i \in Nat /\ (i \in 1..a \/ i \in (a + 1)..(b + d - 1) \/ i \in (b + d)..Len(new))
  BY <1>7
<1>14. ASSUME NEW i \in (b + d)..Len(new) PROVE i - d \notin O
  <2>1. i - d \in b..Len(sql)
    BY <1>5 DEF Layout
  <2>2. ~(i - d <= m)
    BY <2>1, <1>8
  <2> QED BY <2>2, <1>8, <1>9
<1>15. ASSUME NEW i \in (a + 1)..(b + d - 1) PROVE new[i] = Probe[i - a] /\ i - a \in 1..Len(Probe)
  BY <1>5 DEF Layout
<1>16. ASSUME NEW i \in 1..a PROVE new[i] = sql[i] /\ i \in Nat /\ i <= a
  BY <1>5 DEF Layout
<1>17. a + 1 \in D /\ new[a + 1] = "LIMIT" /\ a + 2 \in D /\ new[a + 2] = ToString(PROBE_ROW_COUNT)
  <2>1. a + 1 \in (a + 1)..(b + d - 1) /\ a + 2 \in (a + 1)..(b + d - 1) /\ (a + 1) - a = 1 /\ (a + 2) - a = 2
    BY <1>7
  <2> QED BY <2>1, <1>4, <1>6, <1>12, <1>15
<1>18. ASSUME NEW i \in D
       PROVE  i \in Nat /\ i <= a + 2 /\ (new[i] = "LIMIT" => i = a + 1) /\ (new[i] = "ORDER" => i < a + 1)
  <2>1. i \in 1..Len(new)
    BY <1>4
  <2>2. CASE i \in 1..a
    BY <2>2, <1>4, <1>11, <1>16
  <2>3. CASE i \in (a + 1)..(b + d - 1)
    <3>1. i - a \in 1..Len(Probe) /\ new[i] = Probe[i - a]
      BY <2>3, <1>15
    <3> QED BY <3>1, <2>3, <1>7, ProbeWords
  <2>4. CASE i \in (b + d)..Len(new)
    BY <2>4, <1>4, <1>9, <1>14
  <2> QED BY <2>1, <2>2, <2>3, <2>4, <1>13
<1>19. ASSUME NEW f \in O, sql[f] = "SELECT", FirstIn(O, f) PROVE new[f] = "SELECT" /\ FirstIn(Q, f)
  <2>1. f \in 1..a
    <3>1. f \in Nat /\ f <= m /\ f # 0
      BY <1>8, <1>9
    <3>2. ~IsSemicolon("SELECT")
      BY Zenon DEF IsSemicolon
    <3>3. f = m => a = m
      BY <3>2, <1>8, <1>19
    <3> QED BY <3>1, <3>3, <1>8
  <2>2. new[f] = "SELECT" /\ f \in Q
    BY <2>1, <1>10, <1>16, <1>19
  <2>3. ASSUME NEW i \in Q PROVE f <= i
    <3>1. CASE i \in 1..a
      BY <3>1, <1>10, <1>19 DEF FirstIn
    <3>2. CASE ~(i \in 1..a)
      BY <3>2, <2>1, <1>7, <1>9
    <3> QED BY <3>1, <3>2
  <2> QED BY <2>2, <2>3 DEF FirstIn
<1>20. ASSUME NEW i \in O, ~AfterAlias(sql, i) PROVE i \in 1..a
  <2>1. i \in Nat /\ i <= m /\ i # 0
    BY <1>8, <1>9
  <2>2. i # a + 1
    BY <1>12, <1>20
  <2> QED BY <2>1, <2>2, <1>8
<1>21. ASSUME NEW i \in Q, ~AfterAlias(new, i) PROVE i \in 1..a
  <2>1. i \in 1..Len(new)
    BY <1>9
  <2>2. ASSUME i \in (a + 1)..(b + d - 1) PROVE FALSE
    <3>1. Origin(i, a + 1, a, b, d) /\ i \in Nat /\ a + 1 \in Nat
      BY <2>2, <1>7 DEF Origin
    <3>2. AfterAlias(new, i)
      BY <3>1, <1>3, <1>12, InsertsAlias
    <3> QED BY <3>2, <1>21
  <2> QED BY <2>1, <2>2, <1>10, <1>13, <1>14
<1>22. ASSUME NEW i \in 1..a PROVE AfterAlias(new, i) <=> AfterAlias(sql, i)
  <2>1. Origin(i, i, a, b, d) /\ i \in Nat
    BY <1>16 DEF Origin
  <2> QED BY <2>1, <1>3, InsertsAlias
<1>23. \A i \in Nat : i \in Q /\ ~AfterAlias(new, i) <=> i \in O /\ ~AfterAlias(sql, i)
  BY <1>10, <1>20, <1>21, <1>22
<1>24. ASSUME NEW i \in C PROVE i \in 1..a /\ i \in D /\ i <= a /\ new[i] = sql[i] /\ sql[i] # "LIMIT"
  <2>1. i \in Nat /\ i <= m /\ i # 0
    BY <1>8, <1>9
  <2>2. i = m => ~IsSemicolon(sql[m])
    <3>1. i \in O
      BY <1>9
    <3>2. IsSemicolon(sql[i]) => \E j \in X : j > i
      BY <3>1, OuterIs DEF O, X
    <3>3. \A j \in X : j \in Nat /\ j <= m
      BY <1>8
    <3> QED BY <2>1, <3>2, <3>3
  <2>3. i \in 1..a
    BY <2>1, <2>2, <1>8
  <2> QED BY <2>3, <1>4, <1>11, <1>16
<1>25. ASSUME NEW i \in D, i <= a PROVE i \in C
  <2>1. i \in 1..Len(new)
    BY <1>4
  <2>2. i \in 1..a
    BY <2>1, <1>7, <1>8, <1>25
  <2> QED BY <2>2, <1>4
<1>26. ProbeClauses(new, sql, a)
  <2> USE DEF ProbeClauses, O, Q, C, D
  <2> QED BY <1>5, <1>16, <1>17, <1>18, <1>19, <1>20, <1>23, <1>24, <1>25
<1> QED BY <1>26 DEF new

LEMMA ProbeStaysValid ==
    ASSUME NEW sql, WellFormed(sql), ReadsOne(sql), ReadLimit(sql).kind = "none"
    PROVE  InOrderOfClauses(AppendProbe(sql))
<1> DEFINE new == AppendProbe(sql)
<1>1. PICK a : ProbeClauses(new, sql, a)
  BY ProbeClausesAre
<1>2. \A i \in ClauseAt(new) : new[i] = "LIMIT" => i = a + 1
  BY <1>1 DEF ProbeClauses
<1>3. \A j \in ClauseAt(new) : new[j] = "ORDER" => j < a + 1
  BY <1>1 DEF ProbeClauses
<1> HIDE DEF new
<1>4. InOrderOfClauses(new)
  BY <1>2, <1>3 DEF InOrderOfClauses
<1> QED BY <1>4 DEF new

LEMMA OrderStaysValid ==
    ASSUME NEW sql, WellFormed(sql), ReadsOne(sql), InOrderOfClauses(sql),
           NEW range, NEW snapshot,
           \A t \in DOMAIN snapshot : snapshot[t] \in Seq(Columns)
    PROVE  InOrderOfClauses(AddPrimaryKeyOrder(sql, range, snapshot))
<1> DEFINE new == AddPrimaryKeyOrder(sql, range, snapshot)
           C == ClauseAt(sql)
           D == ClauseAt(new)
<1>1. SUFFICES ASSUME new # sql PROVE InOrderOfClauses(new)
  OBVIOUS
<1>2. Lexed(sql)
  BY WellFormedIsLexed
<1>3. PICK columns \in Seq(Columns), limit, a, d \in Nat : columns # <<>> /\ OrderAt(new, sql, columns, limit, a, d)
  BY <1>1, <1>2, OrderSplices
<1> DEFINE mid == OrderBy(columns)
<1> HIDE DEF new
<1>4. Inserts(new, sql, mid, a, limit, d) /\ mid[1] = "ORDER" /\ \A k \in 1..Len(mid) : mid[k] # "LIMIT"
  BY <1>2, <1>3, OrderInserts
<1>5. limit \in TopAt(sql) /\ sql[limit] = "LIMIT" /\ limit = a + 1
  BY <1>3 DEF OrderAt
<1>6. limit \in C
  BY <1>5, TopIsClause
<1> HIDE DEF mid
<1>7. /\ D \in SUBSET (1..Len(new)) /\ C \in SUBSET (1..Len(sql))
      /\ \A i \in 1..a : i \in D <=> i \in C
      /\ \A i \in (limit + d)..Len(new) : i \in D <=> i - d \in C
      /\ \A i \in (a + 1)..(limit + d - 1) : i \in D <=> AfterAlias(sql, a + 1)
  <2>1. Moved(new, sql, C, D, a, limit, d) /\ \A i \in (a + 1)..(limit + d - 1) : i \in D <=> AfterAlias(sql, a + 1)
    BY <1>4, InsertsClauses
  <2> QED BY <2>1 DEF Moved
<1>8. Layout(new, sql, mid, a, limit, d) /\ 1 <= Len(mid)
  <2>1. Layout(new, sql, mid, a, limit, d)
    BY <1>4, InsertsLayout
  <2>2. Len(mid) = 2 * Len(columns) + 1 /\ Len(columns) \in Nat
    BY <1>3, OrderFacts DEF mid
  <2> QED BY <2>1, <2>2
<1>9. \A i \in C : i \in Nat /\ (sql[i] = "LIMIT" => i = limit)
  BY <1>6, <1>5, <1>7 DEF InOrderOfClauses
<1>10. ASSUME NEW i \in D, new[i] = "LIMIT" PROVE i = limit + d
  <2>1. i \in 1..Len(new)
    BY <1>7
  <2>2. ~(i \in 1..a)
    BY <1>5, <1>7, <1>8, <1>9, <1>10 DEF Layout
  <2>3. ~(i \in (a + 1)..(limit + d - 1))
    BY <1>4, <1>8, <1>10 DEF Layout
  <2>4. i \in (limit + d)..Len(new)
    BY <2>1, <2>2, <2>3, <1>5
  <2>5. i - d \in C /\ sql[i - d] = "LIMIT"
    BY <2>4, <1>7, <1>8, <1>10 DEF Layout
  <2>6. i - d = limit
    BY <2>5, <1>9
  <2> QED BY <2>1, <2>6
<1>11. a + 1 \in D /\ new[a + 1] = "ORDER" /\ a + 1 < limit + d
  <2>1. a + 1 \in (a + 1)..(limit + d - 1) /\ a + 1 < limit + d
    BY <1>5, <1>8 DEF Layout
  <2>2. AfterAlias(sql, a + 1)
    BY <1>5, <1>6 DEF C, ClauseAt
  <2>3. (a + 1) - a = 1
    BY <1>8 DEF Layout
  <2> QED BY <2>1, <2>2, <2>3, <1>4, <1>7, <1>8 DEF Layout
<1>12. \A i \in D : new[i] = "LIMIT" => i = limit + d
  BY <1>10
<1> HIDE DEF C, D
<1>13. \A i, j \in D : new[i] = "LIMIT" /\ new[j] = "LIMIT" => i = j
  BY <1>12
<1>14. \A i \in D : new[i] = "LIMIT" => \E o \in D : new[o] = "ORDER" /\ o < i
  BY <1>11, <1>12
<1> QED BY <1>13, <1>14 DEF InOrderOfClauses, D

LEMMA StillValid == PolicyInv => StaysValid
<1> SUFFICES ASSUME PolicyInv, prepared # Refused, ~SyntaxError(text) PROVE ~SyntaxError(prepared.sql)
  BY DEF StaysValid
<1>1. WellFormed(text)
  BY StatementsAssumption DEF PolicyInv
<1>2. Lexed(text)
  BY <1>1, WellFormedIsLexed
<1>3. InOrderOfClauses(text)
  BY <1>2, SyntaxIs
<1>4. CASE manual
  <2>1. prepared = PrepareManual(text) /\ PrepareManual(text) # Refused
    BY <1>4 DEF PolicyInv
  <2>2. ReadsOne(text)
    BY <2>1, <1>2, ManualIs, ValidReadsOne
  <2>3. CASE PrepareManual(text) = Prepared(text, MAX_VISIBLE_ROWS)
    BY <2>1, <2>3 DEF Prepared
  <2>4. CASE PrepareManual(text) = Prepared(AppendProbe(text), MAX_VISIBLE_ROWS) /\ ReadLimit(text).kind = "none"
    <3>1. prepared.sql = AppendProbe(text)
      BY <2>1, <2>4 DEF Prepared
    <3>2. Lexed(AppendProbe(text)) /\ InOrderOfClauses(AppendProbe(text))
      BY <1>1, <1>2, <1>3, <2>2, <2>4, ProbeStaysValid, ProbeReadsOne
    <3> QED BY <3>1, <3>2, SyntaxIs
  <2> QED BY <2>1, <2>3, <2>4, ManualIs
<1>5. CASE ~manual
  <2> DEFINE snapshot == MapMetadata(catalog)
             new == AddPrimaryKeyOrder(text, ranged, snapshot)
  <2>1. prepared = PrepareTableData(text, ranged, snapshot) /\ PrepareTableData(text, ranged, snapshot) # Refused
    BY <1>5 DEF PolicyInv
  <2>2. \A t \in DOMAIN snapshot : snapshot[t] \in Seq(Columns)
    BY <1>5, CatalogColumns DEF PolicyInv
  <2> HIDE DEF snapshot
  <2>3. ReadsOne(text)
    BY <2>1, <1>2, PageIs, ValidReadsOne
  <2>4. prepared.sql = new
    <3> DEFINE page == PrepareTableData(text, ranged, snapshot)
    <3>1. page = Prepared(new, Unlimited) /\ prepared = page
      BY <2>1, PageIs
    <3> HIDE DEF page, new
    <3> QED BY <3>1 DEF Prepared
  <2>5. Lexed(new) /\ InOrderOfClauses(new)
    BY <1>1, <1>2, <1>3, <2>2, <2>3, OrderReadsOne, OrderStaysValid
  <2> QED BY <2>4, <2>5, SyntaxIs
<1> QED BY <1>4, <1>5 DEF PolicyInv

(***************************************************************************)
(* What is put into a statement, its probe (sql-policy.js:188-206) or the  *)
(* order of a primary key (pk-order.js:85-132), never makes MySQL refuse a *)
(* statement it would take: there is one LIMIT, and no ORDER after it.     *)
(***************************************************************************)
THEOREM PreparedStaysValid == Spec => []StaysValid
BY PolicyAlways, StillValid, PTL

(***************************************************************************)
(* The rows MySQL gives.                                                   *)
(***************************************************************************)
IsRows(rows) == rows \in Seq(ToSet(rows))

LEMMA RowsOf ==
    ASSUME NEW n \in Nat, NEW f
    PROVE  IsRows([i \in 1..n |-> f[i]]) /\ Len([i \in 1..n |-> f[i]]) = n
<1> DEFINE rows == [i \in 1..n |-> f[i]]
           S == {rows[i] : i \in DOMAIN rows}
<1>1. DOMAIN rows = 1..n /\ \A i \in 1..n : rows[i] \in S
  OBVIOUS
<1>2. rows = [i \in 1..n |-> rows[i]]
  OBVIOUS
<1> HIDE DEF rows
<1>3. rows \in Seq(S) /\ Len(rows) = n
  <2> HIDE DEF S
  <2> QED BY <1>1, <1>2
<1>4. S = ToSet(rows)
  BY DEF ToSet
<1> QED BY <1>3, <1>4 DEF IsRows, rows

\* The rows from the one after offset on, count of them if there are so many.
Window(rows, offset, count) == SubSeq(rows, offset + 1, Len(FirstOf(rows, offset + count)))

LEMMA WindowIsBounded ==
    ASSUME NEW rows, IsRows(rows), NEW offset \in Nat, NEW count \in Nat
    PROVE  IsRows(Window(rows, offset, count)) /\ Len(Window(rows, offset, count)) <= count
<1> DEFINE S == ToSet(rows)
           n == offset + count
           upTo == IF n < Len(rows) THEN n ELSE Len(rows)
           last == Len(FirstOf(rows, n))
           window == Window(rows, offset, count)
           length == IF last > offset THEN last - offset ELSE 0
<1>1. rows \in Seq(S) /\ Len(rows) \in Nat
  BY DEF IsRows
<1>2. n \in Nat /\ upTo \in Nat /\ upTo <= n /\ upTo <= Len(rows)
  BY <1>1
<1>3. FirstOf(rows, n) = SubSeq(rows, 1, upTo)
  BY DEF FirstOf
<1> HIDE DEF S, n, upTo
<1>4. last = upTo
  BY <1>1, <1>2, <1>3
<1>5. window = SubSeq(rows, offset + 1, last)
  BY DEF Window, n
<1> HIDE DEF last, window
<1>6. length \in Nat /\ length <= count
  BY <1>2, <1>4 DEF n
<1>7. Len(window) = length /\ window \in Seq(S)
  BY <1>1, <1>2, <1>4, <1>5
<1>8. window = [i \in 1..length |-> window[i]]
  BY <1>6, <1>7
<1> HIDE DEF length
<1>9. IsRows([i \in 1..length |-> window[i]])
  BY <1>6, RowsOf
<1> QED BY <1>6, <1>7, <1>8, <1>9 DEF window

\* A LIMIT of one number, and of two.
LEMMA LimitedIs ==
    ASSUME NEW rows, NEW words, NEW i
    PROVE  /\ ~(Len(words) > i + 2) => Limited(rows, words, i) = Window(rows, 0, Number(words[i + 1]))
           /\ Len(words) > i + 2 /\ Separator(words[i + 2]) =>
                 Limited(rows, words, i) = Window(rows, Number(words[i + 1]), Number(words[i + 3]))
           /\ Len(words) > i + 2 /\ words[i + 2] = "OFFSET" =>
                 Limited(rows, words, i) = Window(rows, Number(words[i + 3]), Number(words[i + 1]))
<1> USE DEF Limited, Window
<1>1. ASSUME ~(Len(words) > i + 2)
      PROVE  Limited(rows, words, i) = Window(rows, 0, Number(words[i + 1]))
  BY <1>1, Zenon
<1>2. ASSUME Len(words) > i + 2, Separator(words[i + 2])
      PROVE  Limited(rows, words, i) = Window(rows, Number(words[i + 1]), Number(words[i + 3]))
  BY <1>2, Zenon DEF Separator
<1>3. ASSUME Len(words) > i + 2, words[i + 2] = "OFFSET"
      PROVE  Limited(rows, words, i) = Window(rows, Number(words[i + 3]), Number(words[i + 1]))
  <2>1. "OFFSET" # ","
    OBVIOUS
  <2> QED BY <1>3, <2>1, Zenon
<1> QED BY <1>1, <1>2, <1>3

LEMMA NumberIs ==
    /\ \A numeral \in Numerals : Number(numeral) \in Nat
    /\ \A n \in 0..MaxNumber : Number(ToString(n)) = n
<1>1. ASSUME NEW numeral \in Numerals PROVE Number(numeral) \in Nat
  <2>1. \E n \in 0..MaxNumber : ToString(n) = numeral
    BY DEF Numerals
  <2>2. Number(numeral) \in 0..MaxNumber
    BY <2>1, Zenon DEF Number
  <2> QED BY <2>2, PolicyAssumption
<1>2. ASSUME NEW n \in 0..MaxNumber PROVE Number(ToString(n)) = n
  BY NumeralAssumption, Zenon DEF Number
<1> QED BY <1>1, <1>2

\* An order keeps the number of rows.
LEMMA OrderedIs ==
    ASSUME NEW rows, IsRows(rows), NEW words, NEW i
    PROVE  IsRows(Ordered(rows, words, i)) /\ Len(Ordered(rows, words, i)) = Len(rows)
<1>1. \A c, s : Sorted(rows, c, s) = [j \in 1..Len(rows) |-> Sorted(rows, c, s)[j]]
  <2>1. DOMAIN rows = 1..Len(rows)
    BY DEF IsRows
  <2> QED BY <2>1 DEF Sorted
<1> DEFINE r == Ordered(rows, words, i)
<1>3. r = [j \in 1..Len(rows) |-> r[j]]
  BY <1>1 DEF Ordered
<1> HIDE DEF r
<1>2. Len(rows) \in Nat
  BY DEF IsRows
<1>4. IsRows([j \in 1..Len(rows) |-> r[j]]) /\ Len([j \in 1..Len(rows) |-> r[j]]) = Len(rows)
  BY <1>2, RowsOf
<1> QED BY <1>3, <1>4 DEF r

\* An ORDER and a LIMIT: rows again, and no more than the number of the LIMIT.
LimitIs(words, i, offset, count) ==
    /\ offset \in Nat /\ count \in Nat
    /\ \A rows : Limited(rows, words, i) = Window(rows, offset, count)

LEMMA ApplyIs ==
    ASSUME NEW rows, IsRows(rows), NEW words,
           NEW offset, NEW count,
           Place(words, "LIMIT") # 0 => LimitIs(words, Place(words, "LIMIT"), offset, count)
    PROVE  /\ IsRows(Apply(rows, words))
           /\ Place(words, "LIMIT") # 0 => Len(Apply(rows, words)) <= count
<1> DEFINE order == Place(words, "ORDER")
           limit == Place(words, "LIMIT")
           sorted == IF order = 0 THEN rows ELSE Ordered(rows, words, order)
<1>1. Apply(rows, words) = IF limit = 0 THEN sorted ELSE Limited(sorted, words, limit)
  BY DEF Apply
<1>2. IsRows(sorted)
  <2> HIDE DEF order
  <2> QED BY OrderedIs
<1>3. limit # 0 => LimitIs(words, limit, offset, count)
  OBVIOUS
<1> HIDE DEF limit, sorted
<1>4. CASE limit = 0
  BY <1>1, <1>2, <1>4 DEF limit
<1>5. CASE limit # 0
  <2>1. Apply(rows, words) = Window(sorted, offset, count) /\ offset \in Nat /\ count \in Nat
    BY <1>1, <1>3, <1>5 DEF LimitIs
  <2> QED BY <2>1, <1>2, WindowIsBounded DEF limit
<1> QED BY <1>4, <1>5

(***************************************************************************)
(* What follows a LIMIT.                                                   *)
(***************************************************************************)
LEMMA PlaceIs ==
    ASSUME NEW S, NEW words \in Seq(S), NEW word
    PROVE  /\ Place(words, word) = 0 => \A k \in 1..Len(words) : words[k] # word
           /\ Place(words, word) # 0 => /\ Place(words, word) \in 1..Len(words)
                                       /\ words[Place(words, word)] = word
<1> DEFINE I == {k \in 1..Len(words) : words[k] = word}
<1>1. Place(words, word) = FirstOne(I)
  BY DEF Place, SelectInSeq, FirstOne
<1>2. I \subseteq Nat \ {0}
  OBVIOUS
<1>3. \A k \in 1..Len(words) : words[k] = word <=> k \in I
  OBVIOUS
<1>4. I \subseteq 1..Len(words)
  OBVIOUS
<1> HIDE DEF I
<1>5. /\ FirstOne(I) = 0 => I = {}
      /\ FirstOne(I) # 0 => FirstOne(I) \in I
  BY <1>2, FirstOneFacts DEF FirstIn
<1> QED BY <1>1, <1>3, <1>4, <1>5

LEMMA Rest ==
    ASSUME NEW P, P \subseteq Nat, NEW at, Enumerates(at, P), NEW p \in 1..Len(at)
    PROVE  Enumerates([j \in 1..(Len(at) - p) |-> at[p + j]], {x \in P : x > at[p]})
<1> DEFINE n == Len(at) - p
           Q == {x \in P : x > at[p]}
           rest == [j \in 1..n |-> at[p + j]]
<1>1. /\ Len(at) \in Nat /\ DOMAIN at = 1..Len(at) /\ p \in Nat
      /\ \A k \in 1..Len(at) : at[k] \in P /\ at[k] \in Nat
  <2>1. at \in Seq(P)
    BY DEF Enumerates
  <2>2. Len(at) \in Nat /\ DOMAIN at = 1..Len(at) /\ p \in Nat
    BY <2>1
  <2>3. \A k \in 1..Len(at) : at[k] \in P
    BY <2>1, SequenceOf
  <2> QED BY <2>2, <2>3
<1>2. /\ \A j, k \in 1..Len(at) : j < k => at[j] < at[k]
      /\ \A x \in P : \E k \in 1..Len(at) : at[k] = x
  BY <1>1 DEF Enumerates
<1>3. n \in Nat /\ \A j \in 1..n : p + j \in 1..Len(at) /\ p + j > p
  BY <1>1
<1> HIDE DEF n
<1>4. \A j \in 1..n : rest[j] = at[p + j] /\ rest[j] \in Q
  <2> TAKE j \in 1..n
  <2>1. rest[j] = at[p + j] /\ p + j \in 1..Len(at) /\ p < p + j
    BY <1>3, <1>1
  <2> QED BY <2>1, <1>1, <1>2
<1>5. rest = [j \in 1..n |-> rest[j]]
  OBVIOUS
<1>6. DOMAIN rest = 1..n
  OBVIOUS
<1>7. \A x \in Q : x \in P /\ x > at[p]
  OBVIOUS
<1> HIDE DEF rest, Q
<1>8. rest \in Seq(Q)
  BY <1>3, <1>4, <1>5
<1>9. ASSUME NEW j \in DOMAIN rest, NEW k \in DOMAIN rest, j < k PROVE rest[j] < rest[k]
  <2>0. j \in 1..n /\ k \in 1..n /\ j \in Nat /\ k \in Nat
    BY <1>3, <1>6
  <2>1. p + j \in 1..Len(at) /\ p + k \in 1..Len(at)
    BY <1>3, <2>0
  <2>2. p \in Nat /\ j < k
    BY <1>1, <1>9
  <2>3. p + j < p + k
    BY <2>0, <2>2
  <2> QED BY <2>0, <2>1, <2>3, <1>2, <1>4
<1>10. ASSUME NEW x \in Q PROVE \E j \in DOMAIN rest : rest[j] = x
  <2>1. PICK k \in 1..Len(at) : at[k] = x
    BY <1>2, <1>7
  <2>2. k > p
    <3>1. at[k] > at[p] /\ at[k] \in Nat /\ at[p] \in Nat
      BY <1>1, <1>7, <2>1
    <3> QED BY <3>1, <1>1, <1>2
  <2>3. k - p \in 1..n /\ p + (k - p) = k
    BY <2>2, <1>1 DEF n
  <2> QED BY <2>1, <2>3, <1>4, <1>6
<1>11. Enumerates(rest, Q)
  BY <1>8, <1>9, <1>10 DEF Enumerates
<1> QED BY <1>11 DEF rest, Q, n

\* A word, of a place, and after it the words at the places after that.
Follows(words, p, seq, P, i) ==
    /\ p \in 1..Len(words) /\ Len(words) \in Nat /\ i \in P /\ words[p] = seq[i]
    /\ \A rest : Enumerates(rest, {x \in P : x > i}) =>
           /\ Len(rest) \in Nat /\ Len(words) = p + Len(rest)
           /\ \A j \in 1..Len(rest) : words[p + j] = seq[rest[j]]

LEMMA Following ==
    ASSUME NEW S, NEW seq \in Seq(S), NEW P \in SUBSET (1..Len(seq)),
           NEW words, words = At(seq, P), NEW p \in 1..Len(words)
    PROVE  \E i \in P : Follows(words, p, seq, P, i)
<1>1. P \subseteq Nat /\ Len(seq) \in Nat
  OBVIOUS
<1>2. PICK at : Enumerates(at, P)
  BY <1>1, AnEnumeration
<1>3. /\ Reads(words, seq, at) /\ at \in Seq(Nat) /\ Len(words) = Len(at)
  BY <1>2, AtFacts
<1>4. Len(at) \in Nat /\ DOMAIN at = 1..Len(at) /\ p \in 1..Len(at)
  BY <1>3
<1>5. \A k \in 1..Len(at) : words[k] = seq[at[k]]
  BY <1>3, <1>4 DEF Reads
<1>6. at[p] \in P
  <2>1. at \in Seq(P)
    BY <1>2 DEF Enumerates
  <2> QED BY <2>1, <1>4
<1>7. ASSUME NEW rest, Enumerates(rest, {x \in P : x > at[p]})
      PROVE  /\ Len(rest) \in Nat /\ Len(words) = p + Len(rest)
             /\ \A j \in 1..Len(rest) : words[p + j] = seq[rest[j]]
  <2> DEFINE n == Len(at) - p
             tail == [j \in 1..n |-> at[p + j]]
             Q == {x \in P : x > at[p]}
  <2>1. Enumerates(tail, Q)
    BY <1>1, <1>2, <1>4, Rest
  <2>2. rest = tail
    <3>1. Q \subseteq Nat /\ Enumerates(rest, Q)
      BY <1>1, <1>7
    <3> HIDE DEF Q, tail
    <3> QED BY <2>1, <3>1, OneEnumeration
  <2>3. n \in Nat /\ \A j \in 1..n : p + j \in 1..Len(at)
    BY <1>4
  <2>4. Len(rest) = n /\ \A j \in 1..n : rest[j] = at[p + j]
    <3> HIDE DEF n
    <3> QED BY <2>2, <2>3
  <2>5. Len(rest) \in Nat /\ Len(words) = p + Len(rest)
    BY <2>3, <2>4, <1>3, <1>4
  <2>6. ASSUME NEW j \in 1..Len(rest) PROVE words[p + j] = seq[rest[j]]
    <3> HIDE DEF n
    <3>1. j \in 1..n /\ rest[j] = at[p + j] /\ p + j \in 1..Len(at)
      BY <2>3, <2>4
    <3> QED BY <3>1, <1>5
  <2> QED BY <2>5, <2>6
<1>8. Follows(words, p, seq, P, at[p])
  BY <1>3, <1>4, <1>5, <1>6, <1>7 DEF Follows
<1> QED BY <1>6, <1>8

\* The words that follow the LIMIT the policy reads.
LimitWords(tail, count) ==
    /\ tail[1] \in Numerals
    /\ \/ Len(tail) = 1 /\ count = Number(tail[1])
       \/ Len(tail) = 3 /\ Separator(tail[2]) /\ tail[3] \in Numerals /\ count = Number(tail[3])
       \/ Len(tail) = 3 /\ tail[2] = "OFFSET" /\ tail[3] \in Numerals /\ count = Number(tail[1])

LEMMA LimitIsOf ==
    ASSUME NEW count, NEW offset, Limit(count, offset).kind = "limit"
    PROVE  count \in Numerals /\ offset \in Numerals /\ Limit(count, offset).count = Number(count)
BY DEF Limit, InvalidLimit

LEMMA ReadLimitIs ==
    ASSUME NEW sql, ReadLimit(sql).kind = "limit"
    PROVE  LET words == Raw(TopLevel(sql))
               limits == {k \in DOMAIN words : words[k] = "LIMIT"}
               tail == SubSeq(words, SelectInSeq(words, LAMBDA w : w = "LIMIT") + 1, Len(words))
           IN  limits # {} /\ ~(Cardinality(limits) > 1) /\ LimitWords(tail, ReadLimit(sql).count)
<1> DEFINE words == Raw(TopLevel(sql))
           limits == {k \in DOMAIN words : words[k] = "LIMIT"}
           tail == SubSeq(words, SelectInSeq(words, LAMBDA w : w = "LIMIT") + 1, Len(words))
           read == CASE Len(tail) = 1 -> Limit(tail[1], ToString(0))
                     [] Len(tail) = 3 /\ Separator(tail[2]) -> Limit(tail[3], tail[1])
                     [] Len(tail) = 3 /\ tail[2] = "OFFSET" -> Limit(tail[1], tail[3])
                     [] OTHER -> InvalidLimit
<1>1. ReadLimit(sql) = IF limits = {} THEN NoLimit
                       ELSE IF Cardinality(limits) > 1 THEN InvalidLimit ELSE read
  BY Zenon DEF ReadLimit, Separator
<1> HIDE DEF words, limits, tail, read
<1>2. NoLimit.kind # "limit" /\ InvalidLimit.kind # "limit"
  BY DEF NoLimit, InvalidLimit
<1>3. limits # {} /\ ~(Cardinality(limits) > 1) /\ ReadLimit(sql) = read
  BY <1>1, <1>2
<1>4. LimitWords(tail, read.count)
  <2>1. CASE Len(tail) = 1
    <3>1. read = Limit(tail[1], ToString(0))
      BY <2>1 DEF read
    <3>2. tail[1] \in Numerals /\ read.count = Number(tail[1])
      BY <3>1, <1>3, LimitIsOf
    <3> QED BY <2>1, <3>2 DEF LimitWords
  <2>2. CASE Len(tail) = 3 /\ Separator(tail[2])
    <3>0. tail[2] # "OFFSET" /\ Len(tail) # 1
      <4>1. "OFFSET" # ","
        OBVIOUS
      <4>2. tail[2] # "OFFSET"
        BY <2>2, <4>1, Zenon DEF Separator
      <4> QED BY <2>2, <4>2
    <3>1. read = Limit(tail[3], tail[1])
      BY <2>2, <3>0 DEF read
    <3>2. tail[3] \in Numerals /\ tail[1] \in Numerals /\ read.count = Number(tail[3])
      BY <3>1, <1>3, LimitIsOf
    <3> QED BY <2>2, <3>2 DEF LimitWords
  <2>3. CASE Len(tail) = 3 /\ tail[2] = "OFFSET" /\ ~Separator(tail[2])
    <3>1. read = Limit(tail[1], tail[3])
      BY <2>3 DEF read
    <3>2. tail[3] \in Numerals /\ tail[1] \in Numerals /\ read.count = Number(tail[1])
      BY <3>1, <1>3, LimitIsOf
    <3> QED BY <2>3, <3>2 DEF LimitWords
  <2>4. CASE ~(Len(tail) = 1) /\ ~(Len(tail) = 3 /\ Separator(tail[2])) /\ ~(Len(tail) = 3 /\ tail[2] = "OFFSET")
    <3>1. read = InvalidLimit
      BY <2>4 DEF read
    <3> QED BY <3>1, <1>2, <1>3
  <2> QED BY <2>1, <2>2, <2>3, <2>4
<1> QED BY <1>3, <1>4 DEF words, limits, tail

\* It is the only one outside of parentheses, and what follows it is all there is.
LEMMA LimitRead ==
    ASSUME NEW sql, Lexed(sql), ReadLimit(sql).kind = "limit"
    PROVE  \E i \in TopAt(sql) : \E rest :
              /\ sql[i] = "LIMIT" /\ \A j \in TopAt(sql) : sql[j] = "LIMIT" => j = i
              /\ Enumerates(rest, {x \in TopAt(sql) : x > i})
              /\ Len(rest) \in Nat
              /\ LimitWords([j \in 1..Len(rest) |-> sql[rest[j]]], ReadLimit(sql).count)
<1> DEFINE T == TopAt(sql)
           words == Raw(TopLevel(sql))
           count == ReadLimit(sql).count
           p == Place(words, "LIMIT")
           tail == SubSeq(words, p + 1, Len(words))
           limits == {k \in DOMAIN words : words[k] = "LIMIT"}
<1>1. T \in SUBSET (1..Len(sql)) /\ sql \in Seq(Lexemes) /\ words = At(sql, T) /\ Len(sql) \in Nat
  BY TopLevelWords, TextFacts
<1>2. limits # {} /\ ~(Cardinality(limits) > 1) /\ LimitWords(tail, count)
  BY ReadLimitIs DEF Place
<1> HIDE DEF T, words, count
<1>3. PICK at : Enumerates(at, T)
  BY <1>1, AnEnumeration
<1>4. Reads(words, sql, at) /\ at \in Seq(Nat) /\ Len(words) = Len(at) /\ words \in Seq(Lexemes)
  BY <1>1, <1>3, AtFacts
<1>5. /\ Len(at) \in Nat /\ DOMAIN at = 1..Len(at) /\ DOMAIN words = 1..Len(at)
      /\ \A k \in 1..Len(at) : words[k] = sql[at[k]]
  BY <1>4 DEF Reads
<1>6. \A x \in T : \E k \in 1..Len(at) : at[k] = x
  BY <1>3, <1>5 DEF Enumerates
<1>7. p # 0
  <2>1. \E k \in 1..Len(words) : words[k] = "LIMIT"
    BY <1>2, <1>4, <1>5
  <2> HIDE DEF p
  <2> QED BY <2>1, <1>4, PlaceIs DEF p
<1>8. p \in 1..Len(words) /\ words[p] = "LIMIT"
  <2> DEFINE place == Place(words, "LIMIT")
  <2>1. place # 0 => place \in 1..Len(words) /\ words[place] = "LIMIT"
    BY <1>4, PlaceIs
  <2> QED BY <2>1, <1>7
<1> HIDE DEF p
<1>9. \A k, l \in limits : k = l
  <2>1. IsFiniteSet(1..Len(at))
    BY <1>5, FS_Interval
  <2>2. IsFiniteSet(limits)
    BY <2>1, <1>5, FS_Subset
  <2> HIDE DEF limits
  <2> QED BY <2>2, <1>2, AtMostOne
<1>10. at[p] \in T /\ sql[at[p]] = "LIMIT"
  <2>1. \A k \in 1..Len(at) : at[k] \in T
    BY <1>3, SequenceOf DEF Enumerates
  <2> QED BY <2>1, <1>4, <1>5, <1>8
<1>11. ASSUME NEW j \in T, sql[j] = "LIMIT" PROVE j = at[p]
  <2>1. PICK k \in 1..Len(at) : at[k] = j
    BY <1>6
  <2>2. k \in limits /\ p \in limits
    BY <2>1, <1>4, <1>5, <1>8, <1>11
  <2> QED BY <2>1, <2>2, <1>9
<1> DEFINE n == Len(at) - p
           rest == [j \in 1..n |-> at[p + j]]
<1>12. Enumerates(rest, {x \in T : x > at[p]})
  <2>1. T \subseteq Nat /\ p \in 1..Len(at)
    BY <1>1, <1>4, <1>8
  <2> QED BY <2>1, <1>3, Rest
<1>13. n \in Nat /\ p \in Nat /\ \A j \in 1..n : p + j \in 1..Len(at)
  BY <1>4, <1>5, <1>8
<1>14. Len(rest) = n /\ \A j \in 1..n : rest[j] = at[p + j]
  <2> HIDE DEF n
  <2> QED BY <1>13
<1>15. tail = [j \in 1..n |-> words[p + j]]
  <2>0. /\ Len(words) \in Nat /\ p \in 1..Len(words) /\ words \in Seq(Lexemes)
        /\ n = Len(words) - p /\ n \in Nat
    BY <1>4, <1>8, <1>13
  <2> HIDE DEF n
  <2>1. tail \in Seq(Lexemes) /\ Len(tail) = n
    BY <2>0
  <2>2. ASSUME NEW j \in 1..n PROVE tail[j] = words[p + j]
    <3>1. /\ words \in Seq(Lexemes) /\ p + 1 \in 1..(Len(words) + 1) /\ Len(words) \in Nat
          /\ j \in 1..(Len(words) - p) /\ p \in Nat
      BY <2>0
    <3>2. tail[j] = words[(p + 1) + j - 1]
      BY <3>1
    <3>3. (p + 1) + j - 1 = p + j
      BY <3>1
    <3> QED BY <3>2, <3>3
  <2>3. tail = [j \in 1..Len(tail) |-> tail[j]]
    BY <2>1
  <2> HIDE DEF tail, n
  <2> QED BY <2>1, <2>2, <2>3
<1> HIDE DEF n, rest
<1>16. tail = [j \in 1..Len(rest) |-> sql[rest[j]]]
  <2>1. \A j \in 1..n : words[p + j] = sql[rest[j]]
    BY <1>5, <1>13, <1>14
  <2> HIDE DEF tail
  <2> QED BY <2>1, <1>14, <1>15
<1>17. Len(rest) \in Nat
  BY <1>13, <1>14
<1> HIDE DEF tail
<1> QED BY <1>2, <1>10, <1>11, <1>12, <1>16, <1>17 DEF T, count

(***************************************************************************)
(* No parenthesis follows such a LIMIT.                                    *)
(***************************************************************************)
Opens(sql, i) == Count(sql, "(", i)
Closes(sql, i) == Count(sql, ")", i)
IsOpen(w) == w = "("
IsClose(w) == w = ")"

LEMMA CountFacts ==
    ASSUME NEW sql, NEW symbol, NEW i \in Nat
    PROVE  /\ Count(sql, symbol, i) \in Nat
           /\ \A j \in Nat : i <= j /\ (\A k \in (i + 1)..j : sql[k] # symbol) =>
                  Count(sql, symbol, j) = Count(sql, symbol, i)
           /\ sql[i + 1] = symbol => Count(sql, symbol, i + 1) = Count(sql, symbol, i) + 1
<1> DEFINE S(n) == {k \in 1..n : sql[k] = symbol}
<1>1. \A n : Count(sql, symbol, n) = Cardinality(S(n))
  BY DEF Count
<1>2. IsFiniteSet(S(i))
  <2>1. IsFiniteSet(1..i)
    BY FS_Interval
  <2> QED BY <2>1, FS_Subset
<1>3. ASSUME NEW j \in Nat, i <= j, \A k \in (i + 1)..j : sql[k] # symbol PROVE S(j) = S(i)
  BY <1>3
<1>4. ASSUME sql[i + 1] = symbol PROVE S(i + 1) = S(i) \cup {i + 1}
  BY <1>4
<1>5. i + 1 \notin S(i)
  OBVIOUS
<1> HIDE DEF S
<1>6. Cardinality(S(i)) \in Nat /\ Cardinality(S(i) \cup {i + 1}) = Cardinality(S(i)) + 1
  BY <1>2, <1>5, FS_CardinalityType, FS_AddElement
<1> QED BY <1>1, <1>3, <1>4, <1>6

LEMMA ParenthesesAre ==
    /\ \A w : IsParenthesis(w) <=> IsOpen(w) \/ IsClose(w)
    /\ \A w : IsOpen(w) => ~IsClose(w)
    /\ \A w : IsParenthesis(w) => w \notin Comments /\ ~IsSemicolon(w)
    /\ \A w \in Numerals : ~IsParenthesis(w) /\ ~IsSemicolon(w)
    /\ \A w : Separator(w) \/ w = "OFFSET" => ~IsParenthesis(w)
<1>1. \A w \in Numerals : ~IsParenthesis(w) /\ ~IsSemicolon(w)
  BY NumeralAssumption, Zenon DEF IsParenthesis, IsSemicolon
<1>2. "(" # ")"
  BY Zenon
<1>3. /\ \A w : IsParenthesis(w) <=> IsOpen(w) \/ IsClose(w)
      /\ \A w : IsOpen(w) => ~IsClose(w)
  BY <1>2, Zenon DEF IsParenthesis, IsOpen, IsClose
<1>4. \A w : IsParenthesis(w) => w \notin Comments /\ ~IsSemicolon(w)
  BY Zenon DEF IsParenthesis, Comments, IsSemicolon
<1>5. \A w : Separator(w) \/ w = "OFFSET" => ~IsParenthesis(w)
  BY Zenon DEF Separator, IsParenthesis
<1> QED BY <1>1, <1>3, <1>4, <1>5

LEMMA DepthIs ==
    ASSUME NEW sql, Lexed(sql)
    PROVE  /\ \A i : Depth(sql, i) = Opens(sql, i - 1) - Closes(sql, i)
           /\ \A i \in Nat : Opens(sql, i) \in Nat /\ Closes(sql, i) \in Nat
           /\ \A i, j \in Nat : i <= j /\ (\A k \in (i + 1)..j : ~IsParenthesis(sql[k])) =>
                  Opens(sql, j) = Opens(sql, i) /\ Closes(sql, j) = Closes(sql, i)
           /\ \A i \in Nat : IsOpen(sql[i + 1]) => Closes(sql, i + 1) = Closes(sql, i)
           /\ \A i \in Nat : IsClose(sql[i + 1]) =>
                  Closes(sql, i + 1) = Closes(sql, i) + 1 /\ Opens(sql, i + 1) = Opens(sql, i)
           /\ Balanced(sql) => \A i \in 1..Len(sql) : Closes(sql, i) <= Opens(sql, i)
<1>1. \A i : Depth(sql, i) = Opens(sql, i - 1) - Closes(sql, i)
  BY Zenon DEF Depth, Opens, Closes
<1>2. ASSUME NEW i \in Nat PROVE Opens(sql, i) \in Nat /\ Closes(sql, i) \in Nat
  BY CountFacts, Zenon DEF Opens, Closes
<1>3. ASSUME NEW i \in Nat, NEW j \in Nat, i <= j, NEW symbol, \A k \in (i + 1)..j : sql[k] # symbol
      PROVE  Count(sql, symbol, j) = Count(sql, symbol, i)
  BY <1>3, CountFacts
<1>4. ASSUME NEW i \in Nat, NEW j \in Nat, i <= j, \A k \in (i + 1)..j : ~IsOpen(sql[k])
      PROVE  Opens(sql, j) = Opens(sql, i)
  BY <1>3, <1>4, Zenon DEF Opens, IsOpen
<1>5. ASSUME NEW i \in Nat, NEW j \in Nat, i <= j, \A k \in (i + 1)..j : ~IsClose(sql[k])
      PROVE  Closes(sql, j) = Closes(sql, i)
  BY <1>3, <1>5, Zenon DEF Closes, IsClose
<1>6. ASSUME NEW i \in Nat, NEW j \in Nat, i <= j, \A k \in (i + 1)..j : ~IsParenthesis(sql[k])
      PROVE  Opens(sql, j) = Opens(sql, i) /\ Closes(sql, j) = Closes(sql, i)
  BY <1>4, <1>5, <1>6, ParenthesesAre
<1>7. \A i \in Nat : i + 1 \in Nat /\ i <= i + 1 /\ \A k \in (i + 1)..(i + 1) : k = i + 1
  OBVIOUS
<1>8. ASSUME NEW i \in Nat, IsOpen(sql[i + 1]) PROVE Closes(sql, i + 1) = Closes(sql, i)
  <2>1. \A k \in (i + 1)..(i + 1) : ~IsClose(sql[k])
    BY <1>7, <1>8, ParenthesesAre
  <2> QED BY <2>1, <1>5, <1>7
<1>9. ASSUME NEW i \in Nat, IsClose(sql[i + 1])
      PROVE  Closes(sql, i + 1) = Closes(sql, i) + 1 /\ Opens(sql, i + 1) = Opens(sql, i)
  <2>1. \A k \in (i + 1)..(i + 1) : ~IsOpen(sql[k])
    BY <1>7, <1>9, ParenthesesAre
  <2>2. Opens(sql, i + 1) = Opens(sql, i)
    BY <2>1, <1>4, <1>7
  <2>3. Closes(sql, i + 1) = Closes(sql, i) + 1
    BY <1>9, CountFacts, Zenon DEF Closes, IsClose
  <2> QED BY <2>2, <2>3
<1>10. ASSUME Balanced(sql) PROVE \A i \in 1..Len(sql) : Closes(sql, i) <= Opens(sql, i)
  <2>1. DOMAIN sql = 1..Len(sql)
    BY TextFacts
  <2> QED BY <2>1, <1>10, Zenon DEF Balanced, Closes, Opens
<1> QED BY <1>1, <1>2, <1>6, <1>8, <1>9, <1>10

\* What follows a LIMIT outside of parentheses, when none of it is one.
LEMMA PlainTail ==
    ASSUME NEW sql, WellFormed(sql), Balanced(sql), ReadsOne(sql),
           NEW limit \in TopAt(sql), sql[limit] = "LIMIT",
           \A x \in TopAt(sql) : x > limit => ~IsParenthesis(sql[x])
    PROVE  {x \in TopAt(sql) : x > limit} = {x \in ClauseAt(sql) : x > limit}
<1> DEFINE T == TopAt(sql)
           n == Len(sql)
           Bad == {x \in 1..n : x > limit /\ IsParenthesis(sql[x])}
<1>1. Lexed(sql) /\ n \in Nat
  BY WellFormedIsLexed, TextFacts
<1>2. limit \in 1..n /\ limit \in Nat /\ limit - 1 \in Nat /\ (limit - 1) + 1 = limit /\ Depth(sql, limit) = 0
  BY <1>1 DEF TopAt
<1>3. /\ Opens(sql, limit - 1) = Closes(sql, limit)
      /\ Opens(sql, limit) = Opens(sql, limit - 1)
      /\ Opens(sql, limit) \in Nat /\ Closes(sql, limit) \in Nat
  <2>1. Opens(sql, limit - 1) - Closes(sql, limit) = 0
    BY <1>1, <1>2, DepthIs
  <2>2. Opens(sql, limit - 1) \in Nat /\ Closes(sql, limit) \in Nat /\ Opens(sql, limit) \in Nat
    BY <1>1, <1>2, DepthIs
  <2>3. \A k \in ((limit - 1) + 1)..limit : ~IsParenthesis(sql[k])
    BY <1>2, OtherWords
  <2>4. limit - 1 <= limit
    BY <1>2
  <2>5. Opens(sql, limit) = Opens(sql, limit - 1)
    BY <1>1, <1>2, <2>3, <2>4, DepthIs
  <2> QED BY <2>1, <2>2, <2>5
<1>4. ASSUME NEW x \in 1..n, x > limit, \A k \in (limit + 1)..(x - 1) : ~IsParenthesis(sql[k])
      PROVE  /\ Opens(sql, x - 1) = Opens(sql, limit)
             /\ Closes(sql, x - 1) = Opens(sql, limit)
  <2>1. x - 1 \in Nat /\ limit <= x - 1
    BY <1>2, <1>4
  <2> QED BY <1>1, <1>2, <1>3, <1>4, <2>1, DepthIs
<1> HIDE DEF T, n
<1>5. Bad = {}
  <2>1. ASSUME Bad # {} PROVE FALSE
    <3>1. Bad \subseteq Nat
      BY <1>1
    <3>2. PICK x \in Bad : \A y \in Bad : x <= y
      <4> HIDE DEF Bad
      <4> QED BY <2>1, <3>1, LeastNumber
    <3>3. x \in 1..n /\ x > limit /\ IsParenthesis(sql[x]) /\ x - 1 \in Nat /\ (x - 1) + 1 = x
      BY <1>1, <1>2
    <3>4. ASSUME NEW k \in (limit + 1)..(x - 1) PROVE ~IsParenthesis(sql[k])
      <4>1. k \in 1..n /\ k > limit /\ ~(x <= k)
        BY <1>1, <1>2, <3>3
      <4> QED BY <3>2, <4>1
    <3>5. Opens(sql, x - 1) = Opens(sql, limit) /\ Closes(sql, x - 1) = Opens(sql, limit)
      BY <1>4, <3>3, <3>4
    <3>6. CASE IsOpen(sql[x])
      <4>1. Closes(sql, x) = Opens(sql, limit)
        BY <1>1, <3>3, <3>5, <3>6, DepthIs
      <4>2. Depth(sql, x) = 0
        BY <1>1, <1>3, <3>5, <4>1, DepthIs
      <4>3. x \in TopAt(sql)
        BY <3>3, <4>2, ParenthesesAre DEF TopAt, n
      <4> QED BY <3>3, <4>3
    <3>7. CASE IsClose(sql[x])
      <4>1. Closes(sql, x) = Opens(sql, limit) + 1 /\ Opens(sql, x) = Opens(sql, limit)
        BY <1>1, <3>3, <3>5, <3>7, DepthIs
      <4>2. Closes(sql, x) <= Opens(sql, x)
        BY <1>1, <3>3, DepthIs DEF n
      <4> QED BY <1>3, <4>1, <4>2
    <3> QED BY <3>3, <3>6, <3>7, ParenthesesAre
  <2> QED BY <2>1
<1>6. \A x \in 1..n : x > limit => ~IsParenthesis(sql[x])
  BY <1>5
<1>7. ASSUME NEW x \in 1..n, x > limit PROVE Depth(sql, x) = 0
  <2>1. \A k \in (limit + 1)..(x - 1) : ~IsParenthesis(sql[k])
    BY <1>1, <1>2, <1>6
  <2>2. Opens(sql, x - 1) = Opens(sql, limit) /\ Closes(sql, x - 1) = Opens(sql, limit)
    BY <1>4, <1>7, <2>1
  <2>3. Closes(sql, x) = Closes(sql, x - 1)
    <3>1. x - 1 \in Nat /\ x \in Nat /\ x - 1 <= x /\ \A k \in ((x - 1) + 1)..x : k = x
      BY <1>1, <1>2, <1>7
    <3>2. \A k \in ((x - 1) + 1)..x : ~IsParenthesis(sql[k])
      BY <3>1, <1>6, <1>7
    <3> QED BY <1>1, <3>1, <3>2, DepthIs
  <2> QED BY <1>1, <1>3, <2>2, <2>3, DepthIs
<1>8. limit \in ClauseAt(sql)
  BY TopIsClause
<1>9. ASSUME NEW x \in 1..n, x > limit PROVE AfterAlias(sql, x)
  <2>1. AfterAlias(sql, limit)
    BY <1>8 DEF ClauseAt
  <2>2. \A j \in OuterAt(sql) : j < limit => j < x
    <3>1. \A j \in OuterAt(sql) : j \in Nat
      BY <1>1, ClausesInText
    <3> QED BY <3>1, <1>1, <1>2, <1>9
  <2> QED BY <2>1, <2>2, AliasIs
<1>10. ASSUME NEW x \in 1..n, x > limit PROVE x \in T <=> x \in ClauseAt(sql)
  <2>1. x \in ExecutedAt(sql) <=> sql[x] \notin Comments
    BY <1>1, RunsAllButComments DEF n
  <2>2. x \in ExecutedAt(sql) /\ IsSemicolon(sql[x]) => ~\E j \in ExecutedAt(sql) : j > x
    <3>1. x \in ExecutedAt(sql) /\ IsSemicolon(sql[x]) => \A j \in ExecutedAt(sql) : j <= x
      BY DEF ReadsOne, LastIn
    <3>2. \A j \in ExecutedAt(sql) : j \in Nat
      BY <1>1, ClausesInText
    <3> QED BY <1>1, <3>1, <3>2
  <2>3. x \in OuterAt(sql) <=> x \in ExecutedAt(sql) /\ ~IsSemicolon(sql[x])
    BY <1>6, <1>10, <2>2, OuterIs
  <2>4. x \in T <=> sql[x] \notin Comments /\ ~IsSemicolon(sql[x])
    BY <1>7, <1>10 DEF T, TopAt, n
  <2> QED BY <1>9, <1>10, <2>1, <2>3, <2>4 DEF ClauseAt
<1>11. T \in SUBSET (1..n) /\ ClauseAt(sql) \in SUBSET (1..n)
  BY <1>1, TopLevelWords, ClausesInText DEF T, n
<1> QED BY <1>10, <1>11 DEF T

(***************************************************************************)
(* The rows MySQL sends for a SELECT of the editor.                        *)
(***************************************************************************)
LEMMA ClausesAre ==
    ASSUME NEW sql, Lexed(sql)
    PROVE  /\ Clauses(sql) = At(sql, ClauseAt(sql)) /\ Clauses(sql) \in Seq(Lexemes)
           /\ (\E i \in ClauseAt(sql) : sql[i] = "LIMIT") => Place(Clauses(sql), "LIMIT") # 0
<1> DEFINE C == ClauseAt(sql)
           words == Clauses(sql)
<1>1. C \in SUBSET (1..Len(sql)) /\ sql \in Seq(Lexemes) /\ Len(sql) \in Nat
  BY ClausesInText, TextFacts
<1>2. words = At(sql, C)
  BY DEF Clauses, ClauseAt
<1> HIDE DEF C, words
<1>3. PICK at : Enumerates(at, C)
  BY <1>1, AnEnumeration
<1>4. Reads(words, sql, at) /\ at \in Seq(Nat) /\ Len(words) = Len(at) /\ words \in Seq(Lexemes)
  BY <1>1, <1>2, <1>3, AtFacts
<1>5. ASSUME NEW i \in C, sql[i] = "LIMIT" PROVE Place(words, "LIMIT") # 0
  <2>1. PICK k \in DOMAIN at : at[k] = i
    BY <1>3 DEF Enumerates
  <2>2. k \in 1..Len(words) /\ words[k] = "LIMIT"
    BY <2>1, <1>4, <1>5 DEF Reads
  <2> QED BY <2>2, <1>4, PlaceIs
<1> QED BY <1>2, <1>4, <1>5 DEF C, words

\* The LIMIT that MySQL applies, and its place.
LEMMA LimitPlace ==
    ASSUME NEW sql, Lexed(sql), NEW i \in ClauseAt(sql), sql[i] = "LIMIT",
           \A j \in ClauseAt(sql) : sql[j] = "LIMIT" => j = i
    PROVE  /\ Place(Clauses(sql), "LIMIT") # 0
           /\ Follows(Clauses(sql), Place(Clauses(sql), "LIMIT"), sql, ClauseAt(sql), i)
<1> DEFINE C == ClauseAt(sql)
           words == Clauses(sql)
           p == Place(words, "LIMIT")
<1>1. C \in SUBSET (1..Len(sql)) /\ sql \in Seq(Lexemes)
  BY ClausesInText, TextFacts
<1>2. words = At(sql, C) /\ words \in Seq(Lexemes) /\ p # 0
  BY ClausesAre
<1> HIDE DEF C, words
<1>3. p \in 1..Len(words) /\ words[p] = "LIMIT"
  <2> DEFINE place == Place(words, "LIMIT")
  <2>1. place # 0 => place \in 1..Len(words) /\ words[place] = "LIMIT"
    BY <1>2, PlaceIs
  <2> QED BY <2>1, <1>2
<1> HIDE DEF p
<1>4. PICK j \in C : Follows(words, p, sql, C, j)
  BY <1>1, <1>2, <1>3, Following
<1>5. j = i
  <2>1. sql[j] = "LIMIT"
    BY <1>3, <1>4 DEF Follows
  <2> QED BY <2>1 DEF C
<1> QED BY <1>2, <1>4, <1>5 DEF C, words, p

\* An explicit limit is applied as it is read.
LEMMA ExplicitLimit ==
    ASSUME NEW sql, WellFormed(sql), Balanced(sql), ReadsOne(sql), ReadLimit(sql).kind = "limit"
    PROVE  LET p == Place(Clauses(sql), "LIMIT")
           IN  p # 0 /\ \E offset : LimitIs(Clauses(sql), p, offset, ReadLimit(sql).count)
<1> DEFINE C == ClauseAt(sql)
           words == Clauses(sql)
           p == Place(words, "LIMIT")
           count == ReadLimit(sql).count
<1>1. Lexed(sql)
  BY WellFormedIsLexed
<1> DEFINE LimitAt(i, rest) ==
              /\ sql[i] = "LIMIT" /\ \A j \in TopAt(sql) : sql[j] = "LIMIT" => j = i
              /\ Enumerates(rest, {x \in TopAt(sql) : x > i})
              /\ Len(rest) \in Nat
              /\ LimitWords([j \in 1..Len(rest) |-> sql[rest[j]]], count)
<1>a. \E i \in TopAt(sql) : \E rest : LimitAt(i, rest)
  BY <1>1, LimitRead
<1>b. PICK i \in TopAt(sql) : \E rest : LimitAt(i, rest)
  BY <1>a
<1>c. PICK rest : LimitAt(i, rest)
  BY <1>b
<1>2. /\ sql[i] = "LIMIT" /\ \A j \in TopAt(sql) : sql[j] = "LIMIT" => j = i
      /\ Enumerates(rest, {x \in TopAt(sql) : x > i})
      /\ Len(rest) \in Nat
      /\ LimitWords([j \in 1..Len(rest) |-> sql[rest[j]]], count)
  BY <1>c
<1> DEFINE tail == [j \in 1..Len(rest) |-> sql[rest[j]]]
<1> HIDE DEF count
<1>3. Len(tail) = Len(rest) /\ \A j \in 1..Len(rest) : tail[j] = sql[rest[j]]
  BY <1>2
<1>4. LimitWords(tail, count)
  BY <1>2
<1> HIDE DEF tail
<1>5. ASSUME NEW x \in TopAt(sql), x > i PROVE ~IsParenthesis(sql[x])
  <2>1. PICK k \in DOMAIN rest : rest[k] = x
    BY <1>2, <1>5 DEF Enumerates
  <2>2. k \in 1..Len(rest)
    <3>1. rest \in Seq({y \in TopAt(sql) : y > i})
      BY <1>2 DEF Enumerates
    <3> QED BY <2>1, <3>1
  <2>3. tail[k] = sql[x]
    BY <1>3, <2>1, <2>2
  <2>4. Len(rest) = 1 \/ Len(rest) = 3
    BY <1>3, <1>4 DEF LimitWords
  <2>5. k = 1 \/ k = 2 \/ k = 3
    BY <2>2, <2>4
  <2>6. k > 1 => Len(rest) = 3
    BY <2>2, <2>4
  <2>7. tail[1] \in Numerals
    BY <1>4 DEF LimitWords
  <2>8. Len(rest) = 3 => tail[3] \in Numerals /\ (Separator(tail[2]) \/ tail[2] = "OFFSET")
    BY <1>3, <1>4 DEF LimitWords
  <2>9. tail[k] \in Numerals \/ Separator(tail[k]) \/ tail[k] = "OFFSET"
    BY <2>5, <2>6, <2>7, <2>8
  <2> QED BY <2>3, <2>9, ParenthesesAre
<1>6. {x \in TopAt(sql) : x > i} = {x \in C : x > i}
  BY <1>2, <1>5, PlainTail
<1>7. i \in C /\ \A j \in C : sql[j] = "LIMIT" => j = i
  BY <1>2, TopIsClause
<1>8. p # 0 /\ Follows(words, p, sql, C, i)
  BY <1>1, <1>2, <1>7, LimitPlace
<1> HIDE DEF C, words, p
<1>9. Enumerates(rest, {x \in C : x > i})
  BY <1>2, <1>6
<1>10. /\ p \in 1..Len(words) /\ Len(words) \in Nat /\ Len(words) = p + Len(rest)
       /\ \A j \in 1..Len(rest) : words[p + j] = tail[j]
  <2>1. /\ p \in 1..Len(words) /\ Len(words) \in Nat /\ Len(words) = p + Len(rest)
        /\ \A j \in 1..Len(rest) : words[p + j] = sql[rest[j]]
    BY <1>8, <1>9 DEF Follows
  <2> QED BY <2>1, <1>3
<1>11. p \in Nat
  BY <1>10
<1>12. CASE Len(tail) = 1 /\ tail[1] \in Numerals /\ count = Number(tail[1])
  <2>1. ~(Len(words) > p + 2) /\ words[p + 1] = tail[1]
    BY <1>3, <1>10, <1>11, <1>12
  <2>2. \A rows : Limited(rows, words, p) = Window(rows, 0, count)
    BY <2>1, <1>12, LimitedIs
  <2>3. count \in Nat /\ 0 \in Nat
    BY <1>12, NumberIs
  <2>4. LimitIs(words, p, 0, count)
    BY <2>2, <2>3 DEF LimitIs
  <2> QED BY <2>4, <1>8 DEF words, p, count
<1>13. ASSUME Len(tail) = 3
       PROVE  Len(words) > p + 2 /\ words[p + 1] = tail[1] /\ words[p + 2] = tail[2] /\ words[p + 3] = tail[3]
  BY <1>3, <1>10, <1>11, <1>13
<1>14. CASE /\ Len(tail) = 3 /\ Separator(tail[2]) /\ tail[1] \in Numerals /\ tail[3] \in Numerals
            /\ count = Number(tail[3])
  <2>1. \A rows : Limited(rows, words, p) = Window(rows, Number(tail[1]), count)
    BY <1>13, <1>14, LimitedIs
  <2>2. count \in Nat /\ Number(tail[1]) \in Nat
    BY <1>14, NumberIs
  <2>3. LimitIs(words, p, Number(tail[1]), count)
    BY <2>1, <2>2 DEF LimitIs
  <2> QED BY <2>3, <1>8 DEF words, p, count
<1>15. CASE /\ Len(tail) = 3 /\ tail[2] = "OFFSET" /\ tail[1] \in Numerals /\ tail[3] \in Numerals
            /\ count = Number(tail[1])
  <2>1. \A rows : Limited(rows, words, p) = Window(rows, Number(tail[3]), count)
    BY <1>13, <1>15, LimitedIs
  <2>2. count \in Nat /\ Number(tail[3]) \in Nat
    BY <1>15, NumberIs
  <2>3. LimitIs(words, p, Number(tail[3]), count)
    BY <2>1, <2>2 DEF LimitIs
  <2> QED BY <2>3, <1>8 DEF words, p, count
<1> QED BY <1>4, <1>12, <1>14, <1>15 DEF LimitWords

\* A probe is applied to all the rows.
LEMMA ProbeLimit ==
    ASSUME NEW new, NEW sql, NEW a, ProbeClauses(new, sql, a)
    PROVE  LET p == Place(Clauses(new), "LIMIT")
           IN  p # 0 /\ LimitIs(Clauses(new), p, 0, PROBE_ROW_COUNT)
<1> DEFINE C == ClauseAt(new)
           words == Clauses(new)
           p == Place(words, "LIMIT")
           rest == <<a + 2>>
           numeral == ToString(PROBE_ROW_COUNT)
<1>1. /\ Lexed(new) /\ a \in Nat /\ a + 1 \in C /\ new[a + 1] = "LIMIT"
      /\ a + 2 \in C /\ new[a + 2] = numeral
      /\ \A i \in C : i \in Nat /\ i <= a + 2 /\ (new[i] = "LIMIT" => i = a + 1)
  BY DEF ProbeClauses
<1>2. p # 0 /\ Follows(words, p, new, C, a + 1)
  BY <1>1, LimitPlace
<1> HIDE DEF C, words, p, numeral
<1>3. {x \in C : x > a + 1} = {a + 2}
  BY <1>1
<1>4. Enumerates(rest, {x \in C : x > a + 1})
  <2>1. rest \in Seq({a + 2}) /\ DOMAIN rest = {1} /\ rest[1] = a + 2
    OBVIOUS
  <2>2. Enumerates(rest, {a + 2})
    BY <2>1, <1>1 DEF Enumerates
  <2> QED BY <2>2, <1>3
<1>5. Len(rest) = 1 /\ rest[1] = a + 2
  OBVIOUS
<1> HIDE DEF rest
<1>6. p \in 1..Len(words) /\ Len(words) \in Nat /\ Len(words) = p + 1 /\ words[p + 1] = numeral
  <2>1. /\ p \in 1..Len(words) /\ Len(words) \in Nat /\ Len(words) = p + Len(rest)
        /\ \A j \in 1..Len(rest) : words[p + j] = new[rest[j]]
    BY <1>2, <1>4 DEF Follows
  <2>2. 1 \in 1..Len(rest)
    BY <1>5
  <2>3. words[p + 1] = new[rest[1]]
    BY <2>1, <2>2
  <2> QED BY <2>1, <2>3, <1>1, <1>5
<1>7. Number(numeral) = PROBE_ROW_COUNT /\ PROBE_ROW_COUNT \in Nat
  <2>1. PROBE_ROW_COUNT \in 0..MaxNumber
    BY PolicyAssumption DEF PROBE_ROW_COUNT
  <2>2. PROBE_ROW_COUNT \in Nat
    BY <2>1, PolicyAssumption
  <2> QED BY <2>1, <2>2, NumberIs DEF numeral
<1>8. ~(Len(words) > p + 2)
  BY <1>6
<1>9. \A rows : Limited(rows, words, p) = Window(rows, 0, PROBE_ROW_COUNT)
  BY <1>6, <1>7, <1>8, LimitedIs
<1>10. LimitIs(words, p, 0, PROBE_ROW_COUNT)
  BY <1>7, <1>9 DEF LimitIs
<1> QED BY <1>2, <1>10 DEF words, p

\* The words before the clauses.
InnerAt(sql) == {i \in OuterAt(sql) : ~AfterAlias(sql, i)}

LEMMA InnerIsSame ==
    ASSUME NEW new, NEW sql, NEW a, ProbeClauses(new, sql, a), Lexed(sql)
    PROVE  Inner(new) = Inner(sql)
<1> DEFINE I == InnerAt(sql)
           J == InnerAt(new)
<1>1. Lexed(new)
  BY DEF ProbeClauses
<1>2. I \in SUBSET (1..Len(sql)) /\ J \in SUBSET (1..Len(new)) /\ Len(sql) \in Nat /\ Len(new) \in Nat
      /\ sql \in Seq(Lexemes) /\ new \in Seq(Lexemes)
  BY <1>1, ClausesInText, TextFacts DEF InnerAt
<1>3. \A i \in Nat : i \in J <=> i \in I
  BY DEF InnerAt, ProbeClauses
<1>4. \A i \in I : new[i] = sql[i]
  BY DEF InnerAt, ProbeClauses
<1>5. Inner(new) = At(new, J) /\ Inner(sql) = At(sql, I)
  BY DEF Inner, InnerAt
<1> HIDE DEF I, J
<1>6. I = J
  <2>1. (\A i \in I : i \in Nat) /\ (\A i \in J : i \in Nat)
    BY <1>2
  <2> QED BY <2>1, <1>3
<1>7. PICK at : Enumerates(at, I)
  BY <1>2, AnEnumeration
<1>8. Reads(At(sql, I), sql, at)
  BY <1>2, <1>7, AtFacts
<1>9. Reads(At(new, I), new, at)
  BY <1>2, <1>6, <1>7, AtFacts
<1>10. \A k \in DOMAIN at : at[k] \in I
  BY <1>7, SequenceOf DEF Enumerates
<1>11. [k \in DOMAIN at |-> new[at[k]]] = [k \in DOMAIN at |-> sql[at[k]]]
  BY <1>4, <1>10
<1> QED BY <1>5, <1>6, <1>8, <1>9, <1>11 DEF Reads

\* A subquery gives rows.
LEMMA InnerRows ==
    ASSUME NEW sql, WellFormed(sql), NEW rows, IsRows(rows)
    PROVE  IsRows(Apply(rows, Inner(sql)))
<1> DEFINE words == Inner(sql)
           p == Place(words, "LIMIT")
           count == Number(words[p + 1])
<1>1. Lexed(sql)
  BY WellFormedIsLexed
<1>2. words \in Seq(Lexemes)
  <2>1. InnerAt(sql) \in SUBSET (1..Len(sql)) /\ sql \in Seq(Lexemes) /\ Len(sql) \in Nat
    BY <1>1, ClausesInText, TextFacts DEF InnerAt
  <2>2. PICK at : Enumerates(at, InnerAt(sql))
    BY <2>1, AnEnumeration
  <2>3. At(sql, InnerAt(sql)) \in Seq(Lexemes)
    BY <2>1, <2>2, AtFacts
  <2> QED BY <2>3 DEF Inner, InnerAt
<1>3. \A k \in DOMAIN words : words[k] = "LIMIT" => k + 2 = Len(words) /\ words[k + 1] \in Numerals
  BY DEF WellFormed
<1> HIDE DEF words
<1>4. ASSUME p # 0 PROVE LimitIs(words, p, 0, count)
  <2>1. p \in 1..Len(words) /\ words[p] = "LIMIT"
    <3> DEFINE place == Place(words, "LIMIT")
    <3>1. place # 0 => place \in 1..Len(words) /\ words[place] = "LIMIT"
      BY <1>2, PlaceIs
    <3> QED BY <3>1, <1>4
  <2> HIDE DEF p
  <2>2. p + 2 = Len(words) /\ words[p + 1] \in Numerals /\ Len(words) \in Nat
    <3>1. Len(words) \in Nat /\ DOMAIN words = 1..Len(words)
      BY <1>2
    <3> QED BY <2>1, <3>1, <1>3
  <2>3. ~(Len(words) > p + 2)
    BY <2>2
  <2>4. count \in Nat
    BY <2>2, NumberIs
  <2>5. \A r : Limited(r, words, p) = Window(r, 0, count)
    BY <2>3, LimitedIs
  <2> HIDE DEF count
  <2> QED BY <2>4, <2>5 DEF LimitIs
<1> HIDE DEF count
<1>5. IsRows(Apply(rows, words))
  BY <1>4, ApplyIs
<1> QED BY <1>5 DEF words

LEMMA EvaluateIs ==
    ASSUME NEW sql, Outer(sql)[1] = "SELECT", NEW rows
    PROVE  Evaluate(sql, rows) = Apply(Apply(rows, Inner(sql)), Clauses(sql))
BY DEF Evaluate

\* The first word of all is the first outside of comments.
LEMMA FirstWord ==
    ASSUME NEW sql, Lexed(sql), ExecutedAt(sql) # {}, StatementType(sql) = "SELECT"
    PROVE  \E f \in OuterAt(sql) : FirstIn(OuterAt(sql), f) /\ sql[f] = "SELECT"
<1> DEFINE X == ExecutedAt(sql)
           tokens == Tokens(sql)
           S == {tokens[i] : i \in 1..Len(sql)}
           w == Significant(tokens)
<1>1. X \in SUBSET (1..Len(sql)) /\ X # {} /\ sql \in Seq(Lexemes) /\ Len(sql) \in Nat
  BY ClausesInText, TextFacts
<1>2. w = At(tokens, X)
  BY <1>1, WordsAreRun
<1>3. tokens \in Seq(S) /\ Len(tokens) = Len(sql) /\ \A i \in 1..Len(sql) : tokens[i].raw = sql[i]
  BY TokensAre
<1>4. w[1].raw = "SELECT"
  BY DEF StatementType
<1> HIDE DEF X, S, tokens, w
<1>5. PICK f, l \in X : Between(w, tokens, X, f, l)
  BY <1>1, <1>2, <1>3, AtBetween
<1>6. FirstIn(X, f) /\ w[1] = tokens[f]
  BY <1>5 DEF Between
<1>7. sql[f] = "SELECT"
  BY <1>1, <1>3, <1>4, <1>6
<1>8. ~IsSemicolon("SELECT") /\ ~IsParenthesis("SELECT")
  BY Zenon DEF IsSemicolon, IsParenthesis
<1>9. f \in OuterAt(sql)
  BY <1>7, <1>8, OuterIs DEF X
<1>10. OuterAt(sql) \subseteq X
  BY ClausesInText DEF X
<1> QED BY <1>6, <1>7, <1>9, <1>10 DEF FirstIn

LEMMA OuterFirst ==
    ASSUME NEW sql, Lexed(sql), NEW f \in OuterAt(sql), FirstIn(OuterAt(sql), f)
    PROVE  Outer(sql)[1] = sql[f]
<1> DEFINE P == OuterAt(sql)
           w == Outer(sql)
<1>1. P \in SUBSET (1..Len(sql)) /\ P # {} /\ sql \in Seq(Lexemes) /\ w = At(sql, P)
  BY ClausesInText, TextFacts DEF Outer
<1>2. \A i \in P : i \in Nat
  BY <1>1
<1> HIDE DEF P, w
<1>3. PICK p, q \in P : Between(w, sql, P, p, q)
  BY <1>1, AtBetween
<1>4. FirstIn(P, p) /\ w[1] = sql[p]
  BY <1>3 DEF Between
<1>5. p = f
  <2>1. p <= f /\ f <= p /\ p \in Nat /\ f \in Nat
    BY <1>2, <1>4 DEF FirstIn, P
  <2> QED BY <2>1
<1> QED BY <1>4, <1>5 DEF w

LEMMA BoundedRead ==
    ASSUME NEW sql, Outer(sql)[1] = "SELECT", NEW rows, IsRows(Apply(rows, Inner(sql))),
           Place(Clauses(sql), "LIMIT") # 0,
           NEW offset, NEW count, LimitIs(Clauses(sql), Place(Clauses(sql), "LIMIT"), offset, count)
    PROVE  Len(Evaluate(sql, rows)) \in Nat /\ Len(Evaluate(sql, rows)) <= count
BY EvaluateIs, ApplyIs DEF IsRows

BoundInv == PolicyInv /\ stored \in Tables

LEMMA BoundAlways == Spec => []BoundInv
<1>1. Init => BoundInv
  BY PolicyInit DEF Init, BoundInv
<1>2. BoundInv /\ [Next]_vars => BoundInv'
  <2> SUFFICES ASSUME BoundInv, [Next]_vars PROVE stored' = stored
    BY PolicyStep DEF BoundInv
  <2> USE DEF query
  <2>1. CASE Prepare
    BY <2>1 DEF Prepare
  <2>2. ASSUME NEW n \in 1..MaxChunk, Arrives(n) \/ PacketArrives(n) PROVE stored' = stored
    BY <2>2 DEF Arrives, PacketArrives
  <2>3. Ended \/ Execute \/ TooLarge \/ Answer \/ Parse \/ UNCHANGED vars => stored' = stored
    BY DEF Ended, Execute, TooLarge, Answer, Parse, vars
  <2> QED BY <2>1, <2>2, <2>3 DEF Next
<1>3. BoundInv /\ UNCHANGED vars => BoundInv'
  BY <1>2
<1> QED BY <1>1, <1>2, PTL DEF Spec

LEMMA BoundPrepared == BoundInv => ReadIsBounded
<1> SUFFICES ASSUME BoundInv, manual, prepared # Refused, StatementType(text) = "SELECT"
             PROVE  Len(Evaluate(prepared.sql, stored)) <= PROBE_ROW_COUNT
  BY DEF ReadIsBounded
<1>1. WellFormed(text)
  BY StatementsAssumption DEF BoundInv, PolicyInv
<1>2. Lexed(text)
  BY <1>1, WellFormedIsLexed
<1>3. prepared = PrepareManual(text) /\ PrepareManual(text) # Refused
  BY DEF BoundInv, PolicyInv
<1>4. ReadsOne(text) /\ Balanced(text)
  <2>1. ValidReadOnly(text)
    BY <1>3, ManualIs
  <2> QED BY <2>1, <1>2, ValidReadsOne DEF ValidReadOnly
<1>5. IsRows(stored)
  BY TablesAssumption DEF BoundInv, IsRows
<1>6. IsRows(Apply(stored, Inner(text)))
  BY <1>1, <1>5, InnerRows
<1>7. PICK f \in OuterAt(text) : FirstIn(OuterAt(text), f) /\ text[f] = "SELECT"
  BY <1>2, <1>4, FirstWord DEF ReadsOne
<1>8. CASE /\ PrepareManual(text) = Prepared(text, MAX_VISIBLE_ROWS)
           /\ ReadLimit(text).kind = "limit" /\ ReadLimit(text).count <= MAX_VISIBLE_ROWS
  <2>1. prepared.sql = text
    BY <1>3, <1>8 DEF Prepared
  <2>2. Outer(text)[1] = "SELECT"
    BY <1>2, <1>7, OuterFirst
  <2> DEFINE count == ReadLimit(text).count
             p == Place(Clauses(text), "LIMIT")
  <2>3. PICK offset : p # 0 /\ LimitIs(Clauses(text), p, offset, count)
    BY <1>1, <1>4, <1>8, ExplicitLimit
  <2>4. count \in Nat /\ count <= MAX_VISIBLE_ROWS
    BY <2>3, <1>8 DEF LimitIs
  <2> HIDE DEF count
  <2>5. Len(Evaluate(text, stored)) \in Nat /\ Len(Evaluate(text, stored)) <= count
    BY <2>2, <2>3, <1>6, BoundedRead
  <2> QED BY <2>1, <2>4, <2>5, PolicyAssumption DEF PROBE_ROW_COUNT
<1>9. CASE PrepareManual(text) = Prepared(AppendProbe(text), MAX_VISIBLE_ROWS) /\ ReadLimit(text).kind = "none"
  <2> DEFINE new == AppendProbe(text)
             p == Place(Clauses(new), "LIMIT")
  <2>1. prepared.sql = new
    BY <1>3, <1>9 DEF Prepared
  <2>2. PICK a : ProbeClauses(new, text, a)
    BY <1>1, <1>4, <1>9, ProbeClausesAre
  <2> HIDE DEF new
  <2>3. p # 0 /\ LimitIs(Clauses(new), p, 0, PROBE_ROW_COUNT)
    BY <2>2, ProbeLimit
  <2>4. Inner(new) = Inner(text)
    BY <1>2, <2>2, InnerIsSame
  <2>5. Outer(new)[1] = "SELECT"
    <3>1. Lexed(new) /\ FirstIn(OuterAt(new), f) /\ new[f] = "SELECT"
      BY <1>7, <2>2 DEF ProbeClauses
    <3> QED BY <3>1, OuterFirst DEF FirstIn
  <2>6. IsRows(Apply(stored, Inner(new)))
    BY <1>6, <2>4
  <2> QED BY <2>1, <2>3, <2>5, <2>6, BoundedRead
<1> QED BY <1>3, <1>8, <1>9, ManualIs

(***************************************************************************)
(* MySQL sends no more rows of a SELECT of the editor than are shown, and  *)
(* the one that proves there are more (sql-policy.js:144-225): a probe is  *)
(* the limit of the statement as MySQL reads it, whatever comment or       *)
(* semicolon it ends in, and so is the limit the policy found.             *)
(***************************************************************************)
THEOREM ReadStaysBounded == Spec => []ReadIsBounded
BY BoundAlways, BoundPrepared, PTL

(***************************************************************************)
(* The XML parser, symbol by symbol.  Leads says that the symbols of doc   *)
(* take it from a to b.                                                    *)
(***************************************************************************)
Along(f, doc, max) == \A i \in 1..Len(doc) : f[i] = Symbol(f[i - 1], doc[i], max)

Leads(a, doc, max, b) ==
    \E f : f[0] = a /\ f[Len(doc)] = b /\ Along(f, doc, max)

LEMMA ParseRuns ==
    ASSUME NEW doc, Len(doc) \in Nat, NEW max
    PROVE  Leads(NewResult, doc, max, ParseXml(doc, max))
<1> DEFINE n == Len(doc)
           next(f, m) == [i \in 0..m |-> IF i = 0 THEN NewResult ELSE Symbol(f[i - 1], doc[i], max)]
           T == {m \in Nat : \E f : f = next(f, m)}
           after == CHOOSE f : f = next(f, n)
<1> HIDE DEF n
<1>0. n \in Nat
  BY DEF n
<1>1. 0 \in T
  <2> DEFINE f == [i \in 0..0 |-> NewResult]
  <2>1. f = next(f, 0)
    OBVIOUS
  <2> HIDE DEF f
  <2> QED BY <2>1
<1>2. ASSUME NEW m \in Nat, m \in T PROVE m + 1 \in T
  <2>1. PICK f : f = next(f, m)
    BY <1>2
  <2> DEFINE last == Symbol(f[m], doc[m + 1], max)
             g == [i \in 0..(m + 1) |-> IF i <= m THEN f[i] ELSE last]
  <2>2. \A i \in 0..m : g[i] = f[i] /\ f[i] = IF i = 0 THEN NewResult ELSE Symbol(f[i - 1], doc[i], max)
    BY <2>1
  <2>3. \A i \in 0..(m + 1) : g[i] = IF i = 0 THEN NewResult ELSE Symbol(g[i - 1], doc[i], max)
    <3> TAKE i \in 0..(m + 1)
    <3>1. CASE i = 0
      <4>1. g[0] = f[0] /\ f[0] = NewResult
        <5>1. 0 \in 0..m
          OBVIOUS
        <5> HIDE DEF g
        <5> QED BY <5>1, <2>2
      <4> HIDE DEF g
      <4> QED BY <4>1, <3>1
    <3>2. CASE i \in 1..m
      <4>1. i - 1 \in 0..m /\ i \in 0..m /\ i # 0
        BY <3>2
      <4> HIDE DEF g
      <4> QED BY <4>1, <2>2
    <3>3. CASE i = m + 1
      <4>1. g[i] = last /\ i # 0 /\ i - 1 = m /\ m \in 0..m
        BY <3>3
      <4> HIDE DEF g
      <4> QED BY <4>1, <2>2, <3>3
    <3> QED BY <3>1, <3>2, <3>3
  <2>4. g = [i \in 0..(m + 1) |-> g[i]]
    OBVIOUS
  <2> HIDE DEF g
  <2>5. g = next(g, m + 1)
    BY <2>3, <2>4
  <2> HIDE DEF next
  <2> QED BY <2>5
<1>3. n \in T
  <2> HIDE DEF T
  <2> QED BY <1>0, <1>1, <1>2, Induct
<1>4. after = next(after, n)
  <2> HIDE DEF next
  <2> QED BY <1>3
<1>5. ParseXml(doc, max) = after[n]
  BY DEF ParseXml, n
<1> HIDE DEF after
<1>6. after[0] = NewResult /\ \A i \in 1..n : after[i] = Symbol(after[i - 1], doc[i], max)
  <2>1. \A i \in 0..n : after[i] = IF i = 0 THEN NewResult ELSE Symbol(after[i - 1], doc[i], max)
    BY <1>4
  <2>2. 0 \in 0..n /\ \A i \in 1..n : i \in 0..n /\ i # 0
    BY <1>0
  <2> QED BY <2>1, <2>2
<1> QED BY <1>5, <1>6 DEF Leads, Along, n

LEMMA LeadsOnce ==
    ASSUME NEW a, NEW doc, Len(doc) \in Nat, NEW max, NEW b, NEW c,
           Leads(a, doc, max, b), Leads(a, doc, max, c)
    PROVE  b = c
<1>1. PICK f : f[0] = a /\ f[Len(doc)] = b /\ Along(f, doc, max)
  BY DEF Leads
<1>2. PICK g : g[0] = a /\ g[Len(doc)] = c /\ Along(g, doc, max)
  BY DEF Leads
<1> DEFINE n == Len(doc)
           T == {m \in Nat : m <= n => f[m] = g[m]}
<1>3. 0 \in T
  BY <1>1, <1>2
<1>4. ASSUME NEW m \in Nat, m \in T PROVE m + 1 \in T
  <2> SUFFICES ASSUME m + 1 <= n PROVE f[m + 1] = g[m + 1]
    OBVIOUS
  <2>1. m + 1 \in 1..n /\ (m + 1) - 1 = m /\ m <= n
    OBVIOUS
  <2>2. f[m + 1] = Symbol(f[(m + 1) - 1], doc[m + 1], max) /\ g[m + 1] = Symbol(g[(m + 1) - 1], doc[m + 1], max)
    BY <2>1, <1>1, <1>2 DEF Along
  <2> QED BY <2>1, <2>2, <1>4
<1>5. n \in T
  <2> HIDE DEF T
  <2> QED BY <1>3, <1>4, Induct
<1> QED BY <1>1, <1>2, <1>5

\* What the symbols of two documents do in turn.
LEMMA LeadsOn ==
    ASSUME NEW S, NEW s \in Seq(S), NEW t \in Seq(S), NEW max, NEW a, NEW b, NEW c,
           Leads(a, s, max, b), Leads(b, t, max, c)
    PROVE  Leads(a, Concat(s, t), max, c)
<1>1. PICK f : f[0] = a /\ f[Len(s)] = b /\ Along(f, s, max)
  BY DEF Leads
<1>2. PICK g : g[0] = b /\ g[Len(t)] = c /\ Along(g, t, max)
  BY DEF Leads
<1> DEFINE m == Len(s)
           n == Len(t)
           h == [i \in 0..(m + n) |-> IF i <= m THEN f[i] ELSE g[i - m]]
           doc == Concat(s, t)
<1>3. m \in Nat /\ n \in Nat
  OBVIOUS
<1>4. /\ Len(doc) = m + n
      /\ \A i \in 1..m : doc[i] = s[i]
      /\ \A i \in (m + 1)..(m + n) : doc[i] = t[i - m]
  BY ConcatFacts
<1> HIDE DEF doc
<1>5. \A i \in 0..m : h[i] = f[i]
  BY <1>3
<1>6. \A i \in m..(m + n) : h[i] = g[i - m]
  <2> TAKE i \in m..(m + n)
  <2>1. CASE i = m
    BY <2>1, <1>1, <1>2, <1>3
  <2>2. CASE i # m
    BY <2>2, <1>3
  <2> QED BY <2>1, <2>2
<1> HIDE DEF h
<1>7. ASSUME NEW i \in 1..(m + n) PROVE h[i] = Symbol(h[i - 1], doc[i], max)
  <2>1. CASE i <= m
    <3>1. i \in 1..m /\ i \in 0..m /\ i - 1 \in 0..m
      BY <2>1, <1>3
    <3> QED BY <3>1, <1>1, <1>4, <1>5 DEF Along
  <2>2. CASE ~(i <= m)
    <3>1. /\ i \in (m + 1)..(m + n) /\ i \in m..(m + n) /\ i - 1 \in m..(m + n)
          /\ i - m \in 1..n /\ (i - 1) - m = (i - m) - 1
      BY <2>2, <1>3
    <3>2. h[i] = g[i - m] /\ h[i - 1] = g[(i - m) - 1] /\ doc[i] = t[i - m]
      BY <3>1, <1>4, <1>6
    <3>3. g[i - m] = Symbol(g[(i - m) - 1], t[i - m], max)
      BY <3>1, <1>2 DEF Along
    <3> QED BY <3>2, <3>3
  <2> QED BY <2>1, <2>2
<1>8. h[0] = a /\ h[m + n] = c
  <2>1. 0 \in 0..m /\ m + n \in m..(m + n) /\ (m + n) - m = n
    BY <1>3
  <2> QED BY <2>1, <1>1, <1>2, <1>5, <1>6
<1> QED BY <1>4, <1>7, <1>8 DEF Leads, Along, doc

LEMMA LeadsOne ==
    ASSUME NEW a, NEW s, NEW max
    PROVE  Leads(a, <<s>>, max, Symbol(a, s, max))
<1> DEFINE b == Symbol(a, s, max)
           f == [i \in 0..1 |-> IF i = 0 THEN a ELSE b]
<1> HIDE DEF b
<1>1. Len(<<s>>) = 1 /\ <<s>>[1] = s /\ 1..Len(<<s>>) = {1}
  OBVIOUS
<1>2. f[0] = a /\ f[1] = b
  OBVIOUS
<1> HIDE DEF f
<1>3. f[1] = Symbol(f[1 - 1], <<s>>[1], max)
  BY <1>1, <1>2 DEF b
<1>4. Along(f, <<s>>, max)
  BY <1>1, <1>3 DEF Along
<1>5. f[Len(<<s>>)] = b
  BY <1>1, <1>2
<1>6. Leads(a, <<s>>, max, b)
  BY <1>2, <1>4, <1>5 DEF Leads
<1> QED BY <1>6 DEF b

\* A symbol the parser takes for text.
IsText(s) == s \notin Tags /\ \A n \in Names : s # FieldTag(n)

LEMMA TagsAre ==
    /\ "<resultset>" \in Tags /\ "<row>" \in Tags /\ "</field>" \in Tags
    /\ "</row>" \in Tags /\ "</resultset>" \in Tags
BY DEF Tags

\* The steps of the parser from one state to the next.
LEMMA Goto ==
    ASSUME NEW a, NEW max
    PROVE  /\ a.state = "before" => Symbol(a, "<resultset>", max) = [a EXCEPT !.state = "in"]
           /\ a.state = "in" => Symbol(a, "<row>", max) = [a EXCEPT !.state = "row"]
           /\ a.state = "field" => Symbol(a, "</field>", max) = [a EXCEPT !.state = "row"]
           /\ a.state = "row" => Symbol(a, "</row>", max) = EmitRow(a, max)
           /\ a.state = "in" => Symbol(a, "</resultset>", max) = [a EXCEPT !.state = "after"]
<1>1. \A s \in Tags : {n \in Names : s = FieldTag(n)} = {}
  BY NamesAssumption
<1>2. {n \in Names : "<resultset>" = FieldTag(n)} = {} /\ {n \in Names : "<row>" = FieldTag(n)} = {}
      /\ {n \in Names : "</field>" = FieldTag(n)} = {} /\ {n \in Names : "</row>" = FieldTag(n)} = {}
      /\ {n \in Names : "</resultset>" = FieldTag(n)} = {}
  BY <1>1, TagsAre
<1>3. ASSUME a.state = "before" PROVE Symbol(a, "<resultset>", max) = [a EXCEPT !.state = "in"]
  BY <1>2, <1>3 DEF Symbol
<1>4. ASSUME a.state = "in" PROVE Symbol(a, "<row>", max) = [a EXCEPT !.state = "row"]
  BY <1>2, <1>4 DEF Symbol
<1>5. ASSUME a.state = "field" PROVE Symbol(a, "</field>", max) = [a EXCEPT !.state = "row"]
  BY <1>2, <1>5 DEF Symbol
<1>6. ASSUME a.state = "row" PROVE Symbol(a, "</row>", max) = EmitRow(a, max)
  BY <1>2, <1>6 DEF Symbol
<1>7. ASSUME a.state = "in" PROVE Symbol(a, "</resultset>", max) = [a EXCEPT !.state = "after"]
  BY <1>2, <1>7 DEF Symbol
<1> QED BY <1>3, <1>4, <1>5, <1>6, <1>7

LEMMA OpenField ==
    ASSUME NEW a, NEW max, NEW n \in Names, a.state = "row"
    PROVE  Symbol(a, FieldTag(n), max) =
               [a EXCEPT !.state = "field", !.texts = Append(@, ""), !.names = Append(@, n)]
<1> DEFINE s == FieldTag(n)
           opened == {m \in Names : s = FieldTag(m)}
<1>1. opened = {n}
  BY NamesAssumption
<1>2. /\ s # "<resultset>" /\ s # "<row>" /\ s # "</field>"
      /\ s # "</row>" /\ s # "</resultset>"
  BY NamesAssumption, TagsAre
<1>3. (CHOOSE m \in opened : TRUE) = n /\ opened # {}
  BY <1>1
<1> HIDE DEF s
<1> QED BY <1>2, <1>3 DEF Symbol

LEMMA ReadText ==
    ASSUME NEW a, NEW max, NEW s, IsText(s), a.state # "failed"
    PROVE  Symbol(a, s, max) = IF a.state # "field" THEN a
                               ELSE [a EXCEPT !.texts[Len(a.texts)] = @ \o s]
<1>1. {n \in Names : s = FieldTag(n)} = {}
  BY DEF IsText
<1>2. /\ s # "<resultset>" /\ s # "<row>" /\ s # "</field>"
      /\ s # "</row>" /\ s # "</resultset>"
  BY TagsAre DEF IsText
<1> QED BY <1>1, <1>2 DEF Symbol

(***************************************************************************)
(* A field: its texts are all the same, J.                                 *)
(***************************************************************************)
Res(state, names, texts, raw, columns, rows, truncated) ==
    [state |-> state, names |-> names, texts |-> texts,
     raw |-> raw, columns |-> columns, rows |-> rows, truncated |-> truncated]

Nothing == ""
Texts(J, k, x) == [j \in 1..k |-> IF j < k THEN J ELSE x]
Grown(t, s) == [t EXCEPT ![Len(t)] = @ \o s]
Same(J, k) == [j \in 1..k |-> J]

LEMMA TextsFacts ==
    ASSUME NEW J, NEW k \in Nat, k >= 1
    PROVE  /\ Append(Same(J, k - 1), Nothing) = Texts(J, k, Nothing)
           /\ Texts(J, k, J) = Same(J, k)
<1>1. Append(Same(J, k - 1), Nothing) = Texts(J, k, Nothing)
  <2> DEFINE s == Same(J, k - 1)
             t == Texts(J, k, Nothing)
  <2>1. s \in Seq({J, Nothing}) /\ Len(s) = k - 1
    BY DEF Same
  <2>2. t \in Seq({J, Nothing}) /\ Len(t) = k
    BY DEF Texts
  <2>3. \A j \in 1..(k - 1) : s[j] = J /\ t[j] = J
    BY DEF Same, Texts
  <2>4. t[k] = Nothing
    BY DEF Texts
  <2> HIDE DEF s, t
  <2>5. Append(s, Nothing) \in Seq({J, Nothing}) /\ Len(Append(s, Nothing)) = k
    BY <2>1
  <2>6. \A j \in 1..k : Append(s, Nothing)[j] = t[j]
    <3> TAKE j \in 1..k
    <3>1. CASE j = k
      BY <3>1, <2>1, <2>4
    <3>2. CASE j # k
      <4>1. j \in 1..(k - 1)
        BY <3>2
      <4> QED BY <4>1, <2>1, <2>3
    <3> QED BY <3>1, <3>2
  <2> DEFINE U == {J, Nothing}
             p == Append(s, Nothing)
  <2>7. p \in Seq(U) /\ t \in Seq(U) /\ Len(p) = Len(t) /\ \A j \in 1..Len(p) : p[j] = t[j]
    BY <2>2, <2>5, <2>6
  <2> HIDE DEF U, p
  <2>8. p = t
    BY <2>7, SameSequence
  <2> QED BY <2>8 DEF p, s, t
<1>2. Texts(J, k, J) = Same(J, k)
  BY DEF Texts, Same
<1> QED BY <1>1, <1>2

LEMMA TextsGrow ==
    ASSUME NEW J, NEW k \in Nat, k >= 1, NEW x, NEW s
    PROVE  /\ Len(Texts(J, k, x)) = k
           /\ Grown(Texts(J, k, x), s) = Texts(J, k, x \o s)
<1>3. Len(Texts(J, k, x)) = k
  BY DEF Texts
<1>4. [Texts(J, k, x) EXCEPT ![Len(Texts(J, k, x))] = @ \o s] = Texts(J, k, x \o s)
  <2> DEFINE y == x \o s
             t == Texts(J, k, x)
  <2>1. t[k] = x
    BY DEF Texts
  <2>2. [t EXCEPT ![Len(t)] = @ \o s] = [t EXCEPT ![k] = y]
    BY <1>3, <2>1, Zenon
  <2> HIDE DEF y
  <2>3. [t EXCEPT ![k] = y] = Texts(J, k, y)
    <3> DEFINE u == Texts(J, k, y)
               v == [t EXCEPT ![k] = y]
    <3>1. u = [j \in 1..k |-> IF j < k THEN J ELSE y] /\ t = [j \in 1..k |-> IF j < k THEN J ELSE x]
      BY DEF Texts
    <3> HIDE DEF t, u
    <3>2. v = [j \in 1..k |-> IF j = k THEN y ELSE t[j]]
      BY <3>1
    <3>3. \A j \in 1..k : v[j] = u[j]
      BY <3>1, <3>2
    <3>4. v = [j \in 1..k |-> v[j]] /\ u = [j \in 1..k |-> u[j]]
      BY <3>1, <3>2
    <3> HIDE DEF v
    <3>5. v = u
      BY <3>3, <3>4
    <3> QED BY <3>5 DEF u, v
  <2> QED BY <2>2, <2>3 DEF y
<1>5. Grown(Texts(J, k, x), s) = Texts(J, k, x \o s)
  BY <1>4, Zenon DEF Grown
<1> QED BY <1>3, <1>5

LEMMA ResIs ==
    ASSUME NEW s, NEW n, NEW t, NEW w, NEW c, NEW r, NEW b, NEW a, a = Res(s, n, t, w, c, r, b)
    PROVE  /\ a.state = s /\ a.names = n /\ a.texts = t /\ a.raw = w
           /\ a.columns = c /\ a.rows = r /\ a.truncated = b
BY DEF Res

LEMMA ResTo ==
    ASSUME NEW s, NEW n, NEW t, NEW w, NEW c, NEW r, NEW b, NEW a, a = Res(s, n, t, w, c, r, b), NEW x
    PROVE  [a EXCEPT !.state = x] = Res(x, n, t, w, c, r, b)
BY DEF Res

LEMMA ResTexts ==
    ASSUME NEW s, NEW n, NEW t, NEW w, NEW c, NEW r, NEW b, NEW a, a = Res(s, n, t, w, c, r, b), NEW x
    PROVE  [a EXCEPT !.texts = x] = Res(s, n, x, w, c, r, b)
BY DEF Res

LEMMA ResNames ==
    ASSUME NEW s, NEW n, NEW t, NEW w, NEW c, NEW r, NEW b, NEW a, a = Res(s, n, t, w, c, r, b), NEW x
    PROVE  [a EXCEPT !.names = x] = Res(s, x, t, w, c, r, b)
BY DEF Res

\* What Joined computes.
Joins(f, pieces) ==
    f[0] = Nothing /\ \A i \in 1..Len(pieces) : f[i] = f[i - 1] \o pieces[i]

LEMMA TextLeads ==
    ASSUME NEW S, NEW pieces \in Seq(S), \A i \in 1..Len(pieces) : IsText(pieces[i]),
           NEW f, Joins(f, pieces), NEW J, NEW k \in Nat, k >= 1,
           NEW n, NEW w, NEW c, NEW r, NEW b, NEW max
    PROVE  Leads(Res("field", n, Texts(J, k, Nothing), w, c, r, b), pieces, max,
                 Res("field", n, Texts(J, k, f[Len(pieces)]), w, c, r, b))
<1> DEFINE m == Len(pieces)
           Here(x) == Res("field", n, Texts(J, k, x), w, c, r, b)
           h == [i \in 0..m |-> Here(f[i])]
<1>1. m \in Nat
  OBVIOUS
<1>2. \A i \in 0..m : h[i] = Here(f[i])
  OBVIOUS
<1> HIDE DEF h
<1>3. ASSUME NEW i \in 1..m PROVE h[i] = Symbol(h[i - 1], pieces[i], max)
  <2> DEFINE x == f[i - 1]
             a == Here(x)
             s == pieces[i]
  <2>1. i \in 0..m /\ i - 1 \in 0..m
    BY <1>1
  <2>2. a.state = "field" /\ a.texts = Texts(J, k, x)
    BY ResIs
  <2>3. Symbol(a, s, max) = [a EXCEPT !.texts[Len(a.texts)] = @ \o s]
    <3>1. IsText(s) /\ a.state # "failed" /\ a.state = "field"
      BY <2>2
    <3> HIDE DEF a, s
    <3> QED BY <3>1, ReadText
  <2>4. [a EXCEPT !.texts[Len(a.texts)] = @ \o s] =
            [a EXCEPT !.texts = [a.texts EXCEPT ![Len(a.texts)] = @ \o s]]
    <3> HIDE DEF a, s
    <3> QED BY Zenon
  <2>5. [a.texts EXCEPT ![Len(a.texts)] = @ \o s] = Texts(J, k, x \o s)
    <3>1. Grown(Texts(J, k, x), s) = Texts(J, k, x \o s)
      <4> HIDE DEF s, x
      <4> QED BY TextsGrow
    <3> HIDE DEF a, s, x
    <3> QED BY <2>2, <3>1, Zenon DEF Grown
  <2>6. Symbol(a, s, max) = Here(x \o s)
    <3> DEFINE t == Texts(J, k, x \o s)
    <3>1. [a EXCEPT !.texts = t] = Res("field", n, t, w, c, r, b)
      <4> HIDE DEF t, s, x
      <4> QED BY ResTexts
    <3> HIDE DEF a, s, x
    <3> QED BY <2>3, <2>4, <2>5, <3>1
  <2>7. f[i] = x \o s
    BY DEF Joins
  <2> HIDE DEF Here, x, s
  <2>8. h[i - 1] = a /\ h[i] = Here(f[i])
    BY <2>1, <1>2 DEF x, a
  <2> QED BY <2>6, <2>7, <2>8 DEF s
<1>4. h[0] = Here(Nothing) /\ h[m] = Here(f[m])
  <2>1. 0 \in 0..m /\ m \in 0..m /\ f[0] = Nothing
    BY <1>1 DEF Joins
  <2> HIDE DEF Here
  <2> QED BY <2>1, <1>2
<1> HIDE DEF Here
<1>5. Leads(Here(Nothing), pieces, max, Here(f[m]))
  BY <1>3, <1>4 DEF Leads, Along
<1> QED BY <1>5 DEF Here

\* Joined adds the symbols of a text in turn.
LEMMA JoinedRuns ==
    ASSUME NEW row, Len(Text(row)) \in Nat
    PROVE  \E f : Joins(f, Text(row)) /\ Joined(row) = f[Len(Text(row))]
<1> DEFINE pieces == Text(row)
           n == Len(pieces)
           next(f, m) == [i \in 0..m |-> IF i = 0 THEN Nothing ELSE f[i - 1] \o pieces[i]]
           T == {m \in Nat : \E f : f = next(f, m)}
           upTo == CHOOSE f : f = next(f, n)
<1>5. Joined(row) = upTo[n]
  BY DEF Joined, Nothing
<1>0. n \in Nat
  OBVIOUS
<1> HIDE DEF n, pieces
<1>1. 0 \in T
  <2> DEFINE f == [i \in 0..0 |-> Nothing]
  <2>1. f = next(f, 0)
    OBVIOUS
  <2> HIDE DEF f
  <2> QED BY <2>1
<1>2. ASSUME NEW m \in Nat, m \in T PROVE m + 1 \in T
  <2>1. PICK f : f = next(f, m)
    BY <1>2
  <2> DEFINE last == f[m] \o pieces[m + 1]
             g == [i \in 0..(m + 1) |-> IF i <= m THEN f[i] ELSE last]
  <2>2. \A i \in 0..m : f[i] = IF i = 0 THEN Nothing ELSE f[i - 1] \o pieces[i]
    BY <2>1
  <2>3. (\A i \in 0..m : g[i] = f[i]) /\ g[m + 1] = last
    <3> HIDE DEF last
    <3> QED OBVIOUS
  <2>4. g = [i \in 0..(m + 1) |-> g[i]]
    OBVIOUS
  <2> HIDE DEF g
  <2>5. \A i \in 0..(m + 1) : g[i] = IF i = 0 THEN Nothing ELSE g[i - 1] \o pieces[i]
    <3> TAKE i \in 0..(m + 1)
    <3>1. CASE i = 0
      <4>1. 0 \in 0..m
        OBVIOUS
      <4> QED BY <4>1, <3>1, <2>2, <2>3
    <3>2. CASE i \in 1..m
      <4>1. i - 1 \in 0..m /\ i \in 0..m /\ i # 0
        BY <3>2
      <4> QED BY <4>1, <2>2, <2>3
    <3>3. CASE i = m + 1
      <4>1. i # 0 /\ i - 1 = m /\ m \in 0..m
        BY <3>3
      <4> QED BY <4>1, <2>3, <3>3
    <3> QED BY <3>1, <3>2, <3>3
  <2>6. g = next(g, m + 1)
    BY <2>4, <2>5
  <2> HIDE DEF next
  <2> QED BY <2>6
<1>3. n \in T
  <2> HIDE DEF T
  <2> QED BY <1>0, <1>1, <1>2, Induct
<1>4. upTo = next(upTo, n)
  <2> HIDE DEF next
  <2> QED BY <1>3
<1> HIDE DEF upTo
<1>6. upTo[0] = Nothing /\ \A i \in 1..n : upTo[i] = upTo[i - 1] \o pieces[i]
  <2>1. \A i \in 0..n : upTo[i] = IF i = 0 THEN Nothing ELSE upTo[i - 1] \o pieces[i]
    BY <1>4
  <2>2. 0 \in 0..n /\ \A i \in 1..n : i \in 0..n /\ i # 0
    BY <1>0
  <2> QED BY <2>1, <2>2
<1> QED BY <1>5, <1>6 DEF Joins, n, pieces, Nothing

\* FlattenSeq puts one sequence after the other.
Chained(f, seqs, n) ==
    /\ f[1] = seqs[1] /\ FlattenSeq(seqs) = f[n]
    /\ \A i \in 2..n : f[i] = Concat(f[i - 1], seqs[i])

LEMMA FlattenRuns ==
    ASSUME NEW S, NEW n \in Nat \ {0}, NEW seqs \in [1..n -> Seq(S)]
    PROVE  \E f \in [1..n -> Seq(S)] : Chained(f, seqs, n)
<1> DEFINE step == [a \in Seq(S) \X Nat |-> IF a[2] \in 2..n THEN Concat(a[1], seqs[a[2]])
                                            ELSE IF a[2] = 1 THEN seqs[1] ELSE <<>>]
           next(f) == [i \in 1..n |-> IF i = 1 THEN seqs[i] ELSE Concat(f[i - 1], seqs[i])]
           flatten == CHOOSE f : f = next(f)
<1>0. 1 \in 1..n /\ n \in 1..n /\ \A i \in 2..n : i \in 1..n /\ i - 1 \in 1..n
  OBVIOUS
<1>1. step \in [Seq(S) \X Nat -> Seq(S)]
  <2> SUFFICES ASSUME NEW a \in Seq(S) \X Nat PROVE step[a] \in Seq(S)
    OBVIOUS
  <2>1. CASE a[2] \in 2..n
    <3>1. a[1] \in Seq(S) /\ seqs[a[2]] \in Seq(S)
      BY <2>1, <1>0
    <3>2. Concat(a[1], seqs[a[2]]) \in Seq(S)
      BY <3>1, ConcatFacts
    <3> QED BY <2>1, <3>2
  <2>2. CASE a[2] \notin 2..n
    <3>1. seqs[1] \in Seq(S) /\ <<>> \in Seq(S)
      BY <1>0
    <3> QED BY <2>2, <3>1
  <2> QED BY <2>1, <2>2
<1>2. <<>> \in Seq(S)
  OBVIOUS
<1>3. PICK f \in [0..n -> Seq(S)] : Steps(f, <<>>, step, n)
  <2> HIDE DEF step
  <2> QED BY <1>1, <1>2, Recursion
<1>4. f[1] = seqs[1] /\ \A i \in 2..n : f[i] = Concat(f[i - 1], seqs[i])
  <2>1. \A i \in 1..n : f[i] = step[<<f[i - 1], i>>] /\ <<f[i - 1], i>> \in Seq(S) \X Nat
    <3> TAKE i \in 1..n
    <3>1. i - 1 \in 0..n /\ i \in Nat
      OBVIOUS
    <3>2. f[i - 1] \in Seq(S)
      BY <3>1
    <3> QED BY <1>3, <3>1, <3>2 DEF Steps
  <2>2. f[1] = seqs[1]
    <3> DEFINE a == <<f[1 - 1], 1>>
    <3>1. f[1] = step[a] /\ a \in Seq(S) \X Nat
      BY <1>0, <2>1
    <3>2. a[2] = 1 /\ a[2] \notin 2..n
      OBVIOUS
    <3> HIDE DEF a
    <3> QED BY <3>1, <3>2
  <2>3. \A i \in 2..n : f[i] = Concat(f[i - 1], seqs[i])
    BY <1>0, <2>1
  <2> QED BY <2>2, <2>3
<1> DEFINE g == [i \in 1..n |-> f[i]]
<1>5. g \in [1..n -> Seq(S)] /\ \A i \in 1..n : g[i] = f[i]
  OBVIOUS
<1>6. g = next(g)
  <2>1. g = [i \in 1..n |-> g[i]]
    OBVIOUS
  <2> HIDE DEF g
  <2>2. \A i \in 1..n : g[i] = IF i = 1 THEN seqs[i] ELSE Concat(g[i - 1], seqs[i])
    <3> TAKE i \in 1..n
    <3>1. CASE i = 1
      BY <3>1, <1>4, <1>5
    <3>2. CASE i # 1
      <4>1. i \in 2..n /\ i - 1 \in 1..n
        BY <3>2
      <4> QED BY <4>1, <3>2, <1>4, <1>5
    <3> QED BY <3>1, <3>2
  <2> QED BY <2>1, <2>2
<1>7. flatten = next(flatten)
  <2> HIDE DEF next, g
  <2> QED BY <1>6
<1>8. FlattenSeq(seqs) = flatten[n]
  <2>1. Len(seqs) = n /\ n # 0
    OBVIOUS
  <2> QED BY <2>1 DEF FlattenSeq, Concat
<1> HIDE DEF flatten
<1>9. \A i \in 1..n : flatten[i] = g[i]
  <2> HIDE DEF g
  <2> DEFINE T == {m \in Nat : m + 1 <= n => flatten[m + 1] = g[m + 1]}
  <2>1. 0 \in T
    BY <1>0, <1>6, <1>7
  <2>2. ASSUME NEW m \in Nat, m \in T PROVE m + 1 \in T
    <3> SUFFICES ASSUME m + 2 <= n PROVE flatten[m + 2] = g[m + 2]
      OBVIOUS
    <3>1. m + 1 \in 1..n /\ m + 2 \in 1..n /\ m + 2 # 1 /\ (m + 2) - 1 = m + 1 /\ m + 1 <= n
      OBVIOUS
    <3>2. flatten[m + 1] = g[m + 1]
      BY <2>2, <3>1
    <3>3. flatten[m + 2] = Concat(flatten[(m + 2) - 1], seqs[m + 2])
      BY <3>1, <1>7
    <3>4. g[m + 2] = Concat(g[(m + 2) - 1], seqs[m + 2])
      BY <3>1, <1>6
    <3> QED BY <3>1, <3>2, <3>3, <3>4
  <2>3. Nat \subseteq T
    <3> HIDE DEF T
    <3> QED BY <2>1, <2>2, Induct
  <2> SUFFICES ASSUME NEW i \in 1..n PROVE flatten[i] = g[i]
    OBVIOUS
  <2>4. i - 1 \in T /\ (i - 1) + 1 = i /\ i <= n
    <3> HIDE DEF T
    <3> QED BY <2>3
  <2> QED BY <2>4
<1>10. /\ g[1] = seqs[1] /\ FlattenSeq(seqs) = g[n]
       /\ \A i \in 2..n : g[i] = Concat(g[i - 1], seqs[i])
  <2> HIDE DEF g
  <2> QED BY <1>0, <1>4, <1>5, <1>8, <1>9
<1> HIDE DEF g
<1> QED BY <1>5, <1>10 DEF Chained

LEMMA LeadsAll ==
    ASSUME NEW S, NEW n \in Nat, NEW seqs \in [1..n -> Seq(S)], NEW max, NEW st,
           \A i \in 1..n : Leads(st[i - 1], seqs[i], max, st[i])
    PROVE  Leads(st[0], FlattenSeq(seqs), max, st[n]) /\ FlattenSeq(seqs) \in Seq(S)
<1>1. CASE n = 0
  <2>1. seqs = <<>> /\ <<>> \in Seq(S)
    BY <1>1
  <2>2. Len(seqs) = 0
    BY <2>1
  <2>3. FlattenSeq(seqs) = <<>>
    BY <2>1, <2>2 DEF FlattenSeq
  <2> DEFINE f == [i \in 0..0 |-> st[0]]
  <2>4. f[0] = st[0]
    OBVIOUS
  <2> HIDE DEF f
  <2>5. Leads(st[0], <<>>, max, st[0])
    <3>1. Len(<<>>) = 0
      OBVIOUS
    <3>2. Along(f, <<>>, max)
      BY <3>1 DEF Along
    <3> QED BY <3>1, <3>2, <2>4 DEF Leads
  <2> QED BY <1>1, <2>1, <2>3, <2>5
<1>2. CASE n # 0
  <2>0. n \in Nat \ {0}
    BY <1>2
  <2>a. PICK f \in [1..n -> Seq(S)] : Chained(f, seqs, n)
    BY <2>0, FlattenRuns
  <2>1. /\ f[1] = seqs[1] /\ FlattenSeq(seqs) = f[n]
        /\ \A i \in 2..n : f[i] = Concat(f[i - 1], seqs[i])
    BY <2>a DEF Chained
  <2> DEFINE T == {m \in Nat : m + 1 <= n => Leads(st[0], f[m + 1], max, st[m + 1])}
  <2>2. 0 \in T
    <3>1. Leads(st[1 - 1], seqs[1], max, st[1])
      <4>1. 1 \in 1..n
        BY <1>2
      <4> QED BY <4>1
    <3> QED BY <2>1, <3>1
  <2>3. ASSUME NEW m \in Nat, m \in T PROVE m + 1 \in T
    <3> SUFFICES ASSUME m + 2 <= n PROVE Leads(st[0], f[m + 2], max, st[m + 2])
      OBVIOUS
    <3>1. m + 1 \in 1..n /\ m + 2 \in 1..n /\ m + 2 \in 2..n /\ (m + 2) - 1 = m + 1 /\ m + 1 <= n
      OBVIOUS
    <3>2. Leads(st[0], f[m + 1], max, st[m + 1])
      BY <2>3, <3>1
    <3>3. Leads(st[m + 1], seqs[m + 2], max, st[m + 2])
      <4>1. Leads(st[(m + 2) - 1], seqs[m + 2], max, st[m + 2])
        BY <3>1
      <4> QED BY <4>1, <3>1
    <3>4. f[m + 2] = Concat(f[m + 1], seqs[m + 2])
      BY <2>1, <3>1
    <3>5. f[m + 1] \in Seq(S) /\ seqs[m + 2] \in Seq(S)
      BY <3>1
    <3> QED BY <3>2, <3>3, <3>4, <3>5, LeadsOn
  <2>4. n - 1 \in T /\ n - 1 \in Nat /\ (n - 1) + 1 = n /\ n \in 1..n
    <3>1. Nat \subseteq T
      <4> HIDE DEF T
      <4> QED BY <2>2, <2>3, Induct
    <3>2. n - 1 \in Nat
      BY <2>0
    <3>3. n - 1 \in T
      <4> HIDE DEF T
      <4> QED BY <3>1, <3>2
    <3> QED BY <3>2, <3>3
  <2> QED BY <2>1, <2>4
<1> QED BY <1>1, <1>2

\* The symbols of a document.
Covers(S) == Tags \subseteq S /\ (\A n \in Names : FieldTag(n) \in S) /\ "\n" \in S

GoodRow(S, row) ==
    Text(row) \in Seq(S) /\ \A i \in 1..Len(Text(row)) : IsText(Text(row)[i])

\* One field, and the parser behind the first k of them.
FieldXml(n, row) == Concat(Concat(<<FieldTag(n)>>, Text(row)), <<"</field>">>)

InRow(names, J, k, w, c, r, b) == Res("row", SubSeq(names, 1, k), Same(J, k), w, c, r, b)

LEMMA NamesGrow ==
    ASSUME NEW S, NEW s \in Seq(S), NEW k \in 1..Len(s)
    PROVE  Append(SubSeq(s, 1, k - 1), s[k]) = SubSeq(s, 1, k)
<1> DEFINE a == SubSeq(s, 1, k - 1)
           b == SubSeq(s, 1, k)
           x == s[k]
<1>1. Len(s) \in Nat /\ x \in S
  OBVIOUS
<1>2. a \in Seq(S) /\ Len(a) = k - 1 /\ \A i \in 1..(k - 1) : a[i] = s[i]
  BY <1>1
<1>3. b \in Seq(S) /\ Len(b) = k /\ \A i \in 1..k : b[i] = s[i]
  BY <1>1
<1>4. k \in Nat /\ k >= 1
  BY <1>1
<1> HIDE DEF a, b
<1> DEFINE c == Append(a, x)
<1>5. c \in Seq(S) /\ Len(c) = k /\ \A i \in 1..k : c[i] = b[i]
  BY <1>1, <1>2, <1>3, <1>4
<1> HIDE DEF c
<1>6. c = b
  BY <1>3, <1>5, SameSequence
<1> QED BY <1>6 DEF c, a, b

LEMMA FieldOpens ==
    ASSUME NEW names \in Seq(Names), NEW k \in 1..Len(names), NEW J,
           NEW w, NEW c, NEW r, NEW b, NEW max
    PROVE  Symbol(InRow(names, J, k - 1, w, c, r, b), FieldTag(names[k]), max) =
               Res("field", SubSeq(names, 1, k), Texts(J, k, Nothing), w, c, r, b)
<1> DEFINE a == InRow(names, J, k - 1, w, c, r, b)
           ns == SubSeq(names, 1, k - 1)
           ts == Same(J, k - 1)
           ns2 == SubSeq(names, 1, k)
           ts2 == Texts(J, k, Nothing)
           n == names[k]
<1>1. n \in Names /\ k \in Nat /\ k >= 1
  OBVIOUS
<1>2. Append(ns, n) = ns2
  BY NamesGrow
<1>3. Append(ts, Nothing) = ts2
  BY <1>1, TextsFacts
<1>4. a = Res("row", ns, ts, w, c, r, b)
  BY DEF InRow
<1> HIDE DEF a, ns, ts, ns2, ts2, n
<1>5. a.state = "row" /\ a.texts = ts /\ a.names = ns
  BY <1>4, ResIs
<1>6. Symbol(a, FieldTag(n), max) =
          [a EXCEPT !.state = "field", !.texts = Append(@, Nothing), !.names = Append(@, n)]
  BY <1>1, <1>5, OpenField DEF Nothing
<1> DEFINE a1 == [a EXCEPT !.state = "field"]
           a2 == [a1 EXCEPT !.texts = ts2]
           a3 == [a2 EXCEPT !.names = ns2]
<1>7. a1 = Res("field", ns, ts, w, c, r, b)
  BY <1>4, ResTo
<1>8. a2 = Res("field", ns, ts2, w, c, r, b)
  <2> HIDE DEF a1
  <2> QED BY <1>7, ResTexts
<1>9. a3 = Res("field", ns2, ts2, w, c, r, b)
  <2> HIDE DEF a2
  <2> QED BY <1>8, ResNames
<1>10. [a EXCEPT !.state = "field", !.texts = Append(@, Nothing), !.names = Append(@, n)]
           = [[[a EXCEPT !.state = "field"] EXCEPT !.texts = Append(@, Nothing)] EXCEPT !.names = Append(@, n)]
  OBVIOUS
<1>11. [a EXCEPT !.state = "field", !.texts = Append(@, Nothing), !.names = Append(@, n)] = a3
  <2>1. a1.texts = ts
    <3> HIDE DEF a1
    <3> QED BY <1>7, ResIs
  <2>2. [a1 EXCEPT !.texts = Append(@, Nothing)] = a2
    <3> HIDE DEF a1
    <3> QED BY <2>1, <1>3, Zenon
  <2>3. a2.names = ns
    <3> HIDE DEF a2
    <3> QED BY <1>8, ResIs
  <2>4. [a2 EXCEPT !.names = Append(@, n)] = a3
    <3> HIDE DEF a2
    <3> QED BY <2>3, <1>2, Zenon
  <2> HIDE DEF a1, a2, a3
  <2> QED BY <2>2, <2>4, Zenon DEF a1
<1> QED BY <1>6, <1>9, <1>11 DEF a, ns2, ts2, n

LEMMA FieldLeads ==
    ASSUME NEW S, Covers(S), NEW row, GoodRow(S, row),
           NEW names \in Seq(Names), NEW k \in 1..Len(names),
           NEW w, NEW c, NEW r, NEW b, NEW max
    PROVE  /\ Leads(InRow(names, Joined(row), k - 1, w, c, r, b), FieldXml(names[k], row), max,
                    InRow(names, Joined(row), k, w, c, r, b))
           /\ FieldXml(names[k], row) \in Seq(S)
<1> DEFINE J == Joined(row)
           t == Text(row)
           ns == SubSeq(names, 1, k)
           x == FieldTag(names[k])
           a0 == InRow(names, J, k - 1, w, c, r, b)
           a1 == Res("field", ns, Texts(J, k, Nothing), w, c, r, b)
           a2 == Res("field", ns, Texts(J, k, J), w, c, r, b)
           a3 == InRow(names, J, k, w, c, r, b)
<1>1. k \in Nat /\ k >= 1 /\ x \in S /\ "</field>" \in S
  BY TagsAre DEF Covers
<1>2. t \in Seq(S) /\ Len(t) \in Nat /\ \A i \in 1..Len(t) : IsText(t[i])
  BY DEF GoodRow
<1>3. Leads(a0, <<x>>, max, a1)
  <2>1. Symbol(a0, x, max) = a1
    BY FieldOpens
  <2> HIDE DEF a0, x, a1
  <2> QED BY <2>1, LeadsOne
<1>4. Leads(a1, t, max, a2)
  <2>1. PICK f : Joins(f, t) /\ J = f[Len(t)]
    BY <1>2, JoinedRuns
  <2> HIDE DEF J, t, ns
  <2>2. Leads(Res("field", ns, Texts(J, k, Nothing), w, c, r, b), t, max,
              Res("field", ns, Texts(J, k, f[Len(t)]), w, c, r, b))
    BY <1>1, <1>2, <2>1, TextLeads
  <2> QED BY <2>1, <2>2
<1>5. Leads(a2, <<"</field>">>, max, a3)
  <2>1. a3 = Res("row", ns, Texts(J, k, J), w, c, r, b)
    <3> HIDE DEF J, ns
    <3> QED BY <1>1, TextsFacts DEF InRow, ns
  <2>2. a2.state = "field"
    <3> HIDE DEF J, ns
    <3> QED BY ResIs
  <2>3. Symbol(a2, "</field>", max) = [a2 EXCEPT !.state = "row"]
    <3> HIDE DEF a2
    <3> QED BY <2>2, Goto
  <2>4. [a2 EXCEPT !.state = "row"] = a3
    <3> HIDE DEF J, ns, a3
    <3> QED BY <2>1, ResTo
  <2> HIDE DEF a2, a3
  <2> QED BY <2>3, <2>4, LeadsOne
<1>6. <<x>> \in Seq(S) /\ <<"</field>">> \in Seq(S)
  BY <1>1
<1> HIDE DEF a0, a1, a2, a3, x, t
<1>7. Concat(<<x>>, t) \in Seq(S) /\ Leads(a0, Concat(<<x>>, t), max, a2)
  BY <1>2, <1>3, <1>4, <1>6, LeadsOn, ConcatFacts
<1>8. Leads(a0, Concat(Concat(<<x>>, t), <<"</field>">>), max, a3)
      /\ Concat(Concat(<<x>>, t), <<"</field>">>) \in Seq(S)
  <2> DEFINE h == Concat(<<x>>, t)
  <2> HIDE DEF h
  <2> QED BY <1>5, <1>6, <1>7, LeadsOn, ConcatFacts DEF h
<1> QED BY <1>8 DEF FieldXml, x, t, a0, a3

\* What a row changes: named, so that the provers take an EXCEPT for one step.
Yes == TRUE
Heads(a, x, y) == [a EXCEPT !.raw = x, !.columns = y]
Reset(a, e) == [a EXCEPT !.state = "in", !.names = e, !.texts = e]

LEMMA ResColumns ==
    ASSUME NEW s, NEW n, NEW t, NEW w, NEW c, NEW r, NEW b, NEW a, a = Res(s, n, t, w, c, r, b), NEW x, NEW y
    PROVE  Heads(a, x, y) = Res(s, n, t, x, y, r, b)
<1> DEFINE a1 == [a EXCEPT !.raw = x]
           a2 == [a1 EXCEPT !.columns = y]
<1>1. a1 = Res(s, n, t, x, c, r, b)
  BY DEF Res
<1>2. a2 = Res(s, n, t, x, y, r, b)
  <2> HIDE DEF a1
  <2> QED BY <1>1 DEF Res
<1>3. Heads(a, x, y) = a2
  BY DEF Heads
<1> HIDE DEF a2
<1> QED BY <1>2, <1>3

LEMMA ResRows ==
    ASSUME NEW s, NEW n, NEW t, NEW w, NEW c, NEW r, NEW b, NEW a, a = Res(s, n, t, w, c, r, b), NEW x
    PROVE  [a EXCEPT !.rows = x] = Res(s, n, t, w, c, x, b)
BY DEF Res

LEMMA ResTruncated ==
    ASSUME NEW s, NEW n, NEW t, NEW w, NEW c, NEW r, NEW b, NEW a, a = Res(s, n, t, w, c, r, b), NEW x
    PROVE  [a EXCEPT !.truncated = x] = Res(s, n, t, w, c, r, x)
BY DEF Res

LEMMA ResNext ==
    ASSUME NEW s, NEW n, NEW t, NEW w, NEW c, NEW r, NEW b, NEW a, a = Res(s, n, t, w, c, r, b), NEW e
    PROVE  Reset(a, e) = Res("in", e, e, w, c, r, b)
<1> DEFINE a1 == [a EXCEPT !.state = "in"]
           a2 == [a1 EXCEPT !.names = e]
           a3 == [a2 EXCEPT !.texts = e]
<1>1. a1 = Res("in", n, t, w, c, r, b)
  BY ResTo
<1>2. a2 = Res("in", e, t, w, c, r, b)
  <2> HIDE DEF a1
  <2> QED BY <1>1, ResNames
<1>3. a3 = Res("in", e, e, w, c, r, b)
  <2> HIDE DEF a2
  <2> QED BY <1>2, ResTexts
<1>4. Reset(a, e) = a3
  BY DEF Reset
<1> HIDE DEF a3
<1> QED BY <1>3, <1>4

\* The row that EmitRow is given names the columns, or has the names it expects.
LEMMA RowEmitted ==
    ASSUME NEW names, NEW U, U = UniqueNames(names), U # <<>>,
           NEW ts, NEW w, NEW c, c = <<>> \/ (c = U /\ w = names), NEW r, NEW b, NEW max,
           NEW a, a = Res("row", names, ts, w, c, r, b)
    PROVE  EmitRow(a, max) =
               IF Len(r) < max THEN Res("in", <<>>, <<>>, names, U, Append(r, RowObject(U, ts)), b)
               ELSE Res("in", <<>>, <<>>, names, U, r, Yes)
<1> DEFINE e == <<>>
           known == IF a.columns # e THEN a
                    ELSE [a EXCEPT !.raw = a.names, !.columns = UniqueNames(a.names)]
           next == [known EXCEPT !.state = "in", !.names = e, !.texts = e]
           obj == RowObject(U, ts)
           more == Append(r, obj)
<1>1. a.columns = c /\ a.names = names /\ a.texts = ts /\ a.raw = w
  BY ResIs
<1>2. known = Res("row", names, ts, names, U, r, b)
  <2>1. CASE c = e
    <3>1. known = Heads(a, names, U)
      BY <2>1, <1>1 DEF Heads
    <3> HIDE DEF known
    <3> QED BY <3>1, ResColumns
  <2>2. CASE c # e
    <3>1. known = a /\ c = U /\ w = names
      BY <2>2, <1>1
    <3> HIDE DEF known
    <3> QED BY <3>1
  <2> QED BY <2>1, <2>2
<1>3. EmitRow(a, max) = IF known.raw # a.names THEN [a EXCEPT !.state = "failed"]
                        ELSE IF Room(known, max)
                        THEN [next EXCEPT !.rows = Append(@, RowObject(known.columns, a.texts))]
                        ELSE [next EXCEPT !.truncated = TRUE]
  BY DEF EmitRow
<1> HIDE DEF known, e
<1>4. known.raw = names /\ known.columns = U /\ known.rows = r
  BY <1>2, ResIs
<1>5. next = Res("in", e, e, names, U, r, b)
  <2>1. Reset(known, e) = Res("in", e, e, names, U, r, b)
    BY <1>2, ResNext
  <2>2. next = Reset(known, e)
    BY Zenon DEF Reset
  <2> HIDE DEF next
  <2> QED BY <2>1, <2>2
<1> HIDE DEF next, obj
<1>6. next.rows = r
  BY <1>5, ResIs
<1>7. [next EXCEPT !.rows = Append(@, obj)] = Res("in", e, e, names, U, more, b)
  <2>1. [next EXCEPT !.rows = Append(@, obj)] = [next EXCEPT !.rows = more]
    BY <1>6, Zenon
  <2> HIDE DEF more
  <2> QED BY <2>1, <1>5, ResRows
<1>8. [next EXCEPT !.truncated = TRUE] = Res("in", e, e, names, U, r, TRUE)
  <2> DEFINE yes == TRUE
  <2> HIDE DEF yes
  <2>1. [next EXCEPT !.truncated = yes] = Res("in", e, e, names, U, r, yes)
    BY <1>5, ResTruncated
  <2> QED BY <2>1, Zenon DEF yes
<1>9. Room(known, max) <=> Len(r) < max
  BY <1>4, Zenon DEF Room
<1>10. EmitRow(a, max) = IF Len(r) < max THEN [next EXCEPT !.rows = Append(@, obj)]
                         ELSE [next EXCEPT !.truncated = TRUE]
  BY <1>1, <1>3, <1>4, <1>9, Zenon DEF obj
<1> QED BY <1>7, <1>8, <1>10, Zenon DEF obj, e, more, Yes

\* What is kept of the first k rows, and the parser behind them.
Seen(names, rows, k) ==
    [i \in 1..k |-> RowObject(UniqueNames(names), Same(Joined(rows[i]), Len(names)))]

Least(a, b) == IF a < b THEN a ELSE b

\* The names a row must have and those of the columns, and the parser after k rows.
Known(names, k) == IF k = 0 THEN <<>> ELSE names
Heading(names, k) == IF k = 0 THEN <<>> ELSE UniqueNames(names)

After(names, rows, max, k) ==
    Res("in", <<>>, <<>>, Known(names, k), Heading(names, k), Seen(names, rows, Least(k, max)), k > max)

LEMMA SeenFacts ==
    ASSUME NEW names, NEW rows, NEW k \in Nat
    PROVE  Len(Seen(names, rows, k)) = k
BY DEF Seen

LEMMA SeenGrows ==
    ASSUME NEW names, NEW rows, NEW k \in Nat, k >= 1
    PROVE  Append(Seen(names, rows, k - 1), RowObject(UniqueNames(names), Same(Joined(rows[k]), Len(names))))
               = Seen(names, rows, k)
<1> DEFINE o == [i \in 1..k |-> RowObject(UniqueNames(names), Same(Joined(rows[i]), Len(names)))]
           S == {o[i] : i \in 1..k}
           a == Seen(names, rows, k - 1)
           b == Seen(names, rows, k)
<1>1. k \in 1..k /\ \A i \in 1..(k - 1) : i \in 1..k
  OBVIOUS
<1>2. b = o /\ RowObject(UniqueNames(names), Same(Joined(rows[k]), Len(names))) = o[k]
  BY <1>1 DEF Seen
<1>3. a = [i \in 1..(k - 1) |-> o[i]]
  BY <1>1 DEF Seen
<1> HIDE DEF a, b
<1>4. o = [i \in 1..k |-> o[i]]
  OBVIOUS
<1> HIDE DEF o
<1>5. \A i \in 1..k : o[i] \in S
  OBVIOUS
<1> HIDE DEF S
<1>6. o \in Seq(S) /\ Len(o) = k
  BY <1>4, <1>5
<1>7. a \in Seq(S) /\ Len(a) = k - 1 /\ \A i \in 1..(k - 1) : a[i] = o[i]
  BY <1>1, <1>3, <1>5
<1> DEFINE c == Append(a, o[k])
<1>8. o[k] \in S
  BY <1>1, <1>5
<1>9. c \in Seq(S) /\ Len(c) = k /\ \A i \in 1..k : c[i] = o[i]
  BY <1>7, <1>8
<1> HIDE DEF c
<1>10. c = o
  BY <1>6, <1>9, SameSequence
<1> QED BY <1>2, <1>10 DEF c, a, b

\* A row from its first symbol to its last.
LEMMA RowStarts ==
    ASSUME NEW names \in Seq(Names), NEW J, NEW w, NEW c, NEW r, NEW b, NEW max
    PROVE  Leads(Res("in", <<>>, <<>>, w, c, r, b), <<"<row>">>, max, InRow(names, J, 0, w, c, r, b))
<1> DEFINE e == <<>>
           a == Res("in", e, e, w, c, r, b)
           a1 == InRow(names, J, 0, w, c, r, b)
<1>1. SubSeq(names, 1, 0) = e /\ Same(J, 0) = e
  BY DEF Same
<1>2. a1 = Res("row", e, e, w, c, r, b)
  <2> HIDE DEF e
  <2> QED BY <1>1 DEF InRow
<1> HIDE DEF e
<1>3. a.state = "in" /\ [a EXCEPT !.state = "row"] = Res("row", e, e, w, c, r, b)
  BY ResIs, ResTo
<1> HIDE DEF a, a1
<1>4. Symbol(a, "<row>", max) = a1
  BY <1>2, <1>3, Goto
<1>5. Leads(a, <<"<row>">>, max, a1)
  BY <1>4, LeadsOne
<1> QED BY <1>5 DEF a, a1, e

LEMMA RowFields ==
    ASSUME NEW S, Covers(S), NEW row, GoodRow(S, row), NEW names \in Seq(Names),
           NEW w, NEW c, NEW r, NEW b, NEW max
    PROVE  LET doc == FlattenSeq([i \in DOMAIN names |-> FieldXml(names[i], row)])
           IN  /\ Leads(InRow(names, Joined(row), 0, w, c, r, b), doc, max,
                        InRow(names, Joined(row), Len(names), w, c, r, b))
               /\ doc \in Seq(S)
<1> DEFINE J == Joined(row)
           n == Len(names)
           seqs == [i \in DOMAIN names |-> FieldXml(names[i], row)]
           st == [i \in 0..n |-> InRow(names, J, i, w, c, r, b)]
<1>1. n \in Nat /\ DOMAIN names = 1..n
  OBVIOUS
<1>2. \A i \in 0..n : st[i] = InRow(names, J, i, w, c, r, b)
  OBVIOUS
<1> HIDE DEF n, st
<1>3. ASSUME NEW i \in 1..n
      PROVE /\ FieldXml(names[i], row) \in Seq(S)
            /\ Leads(InRow(names, J, i - 1, w, c, r, b), FieldXml(names[i], row), max,
                     InRow(names, J, i, w, c, r, b))
  <2>1. i \in 1..Len(names)
    BY DEF n
  <2> QED BY <2>1, FieldLeads
<1> HIDE DEF J
<1>4. seqs \in [1..n -> Seq(S)] /\ \A i \in 1..n : seqs[i] = FieldXml(names[i], row)
  BY <1>1, <1>3
<1> HIDE DEF seqs
<1>5. ASSUME NEW i \in 1..n PROVE Leads(st[i - 1], seqs[i], max, st[i])
  <2>1. i \in 0..n /\ i - 1 \in 0..n
    BY <1>1
  <2> QED BY <2>1, <1>2, <1>3, <1>4
<1>6. Leads(st[0], FlattenSeq(seqs), max, st[n]) /\ FlattenSeq(seqs) \in Seq(S)
  BY <1>1, <1>4, <1>5, LeadsAll
<1>7. 0 \in 0..n /\ n \in 0..n
  BY <1>1
<1>8. st[0] = InRow(names, J, 0, w, c, r, b) /\ st[n] = InRow(names, J, n, w, c, r, b)
  BY <1>2, <1>7
<1> QED BY <1>6, <1>8 DEF seqs, J, n

LEMMA RowEnds ==
    ASSUME NEW names \in Seq(Names), UniqueNames(names) # <<>>,
           NEW rows, NEW k \in Nat, k >= 1, NEW max \in Nat
    PROVE  LET w == Known(names, k - 1)
               c == Heading(names, k - 1)
               r == Seen(names, rows, Least(k - 1, max))
               b == k - 1 > max
           IN  Leads(InRow(names, Joined(rows[k]), Len(names), w, c, r, b), <<"</row>">>, max,
                     After(names, rows, max, k))
<1> DEFINE J == Joined(rows[k])
           n == Len(names)
           U == UniqueNames(names)
           w == Known(names, k - 1)
           c == Heading(names, k - 1)
           r == Seen(names, rows, Least(k - 1, max))
           b == k - 1 > max
           ts == Same(J, n)
           obj == RowObject(U, ts)
           a == InRow(names, J, n, w, c, r, b)
           z == After(names, rows, max, k)
<1>1. SubSeq(names, 1, n) = names
  OBVIOUS
<1>2. a = Res("row", names, ts, w, c, r, b)
  <2> HIDE DEF w, c, r, b, J
  <2> QED BY <1>1 DEF InRow
<1>3. c = <<>> \/ (c = U /\ w = names)
  BY DEF Known, Heading
<1>4. Least(k - 1, max) \in Nat /\ Len(r) = Least(k - 1, max)
  <2>1. Least(k - 1, max) \in Nat
    BY DEF Least
  <2> QED BY <2>1, SeenFacts
<1>5. z = Res("in", <<>>, <<>>, names, U, Seen(names, rows, Least(k, max)), k > max)
  BY DEF After, Known, Heading
<1>6. Append(Seen(names, rows, k - 1), obj) = Seen(names, rows, k)
  BY SeenGrows
<1> HIDE DEF w, c, J, obj, ts
<1>7. CASE k <= max
  <2>1. Least(k - 1, max) = k - 1 /\ Least(k, max) = k /\ Len(r) < max /\ ~b /\ ~(k > max)
    <3>1. Least(k - 1, max) = k - 1 /\ Least(k, max) = k
      BY <1>7 DEF Least
    <3> HIDE DEF r
    <3> QED BY <3>1, <1>4, <1>7
  <2>2. Append(r, obj) = Seen(names, rows, Least(k, max)) /\ b = (k > max)
    <3>1. r = Seen(names, rows, k - 1)
      BY <2>1
    <3>2. b = (k > max)
      BY <2>1
    <3> HIDE DEF r
    <3> QED BY <3>1, <3>2, <1>6, <2>1
  <2> HIDE DEF r, b, a, U, z
  <2>3. EmitRow(a, max) = Res("in", <<>>, <<>>, names, U, Append(r, obj), b)
    <3>1. EmitRow(a, max) = IF Len(r) < max THEN Res("in", <<>>, <<>>, names, U, Append(r, RowObject(U, ts)), b)
                            ELSE Res("in", <<>>, <<>>, names, U, r, Yes)
      <4>1. U = UniqueNames(names) /\ U # <<>>
        BY DEF U
      <4> HIDE DEF n
      <4> QED BY <4>1, <1>2, <1>3, RowEmitted
    <3> QED BY <3>1, <2>1, Zenon DEF obj
  <2>4. EmitRow(a, max) = z
    BY <2>2, <2>3, <1>5, Zenon
  <2>5. a.state = "row"
    BY <1>2, ResIs
  <2>6. Leads(a, <<"</row>">>, max, z)
    BY <2>4, <2>5, Goto, LeadsOne
  <2> QED BY <2>6 DEF a, J, w, c, r, b, z, n
<1>8. CASE ~(k <= max)
  <2>1. Least(k - 1, max) = max /\ Least(k, max) = max /\ ~(Len(r) < max) /\ k > max
    <3>1. Least(k - 1, max) = max /\ Least(k, max) = max
      BY <1>8 DEF Least
    <3> HIDE DEF r
    <3> QED BY <3>1, <1>4, <1>8
  <2>2. r = Seen(names, rows, Least(k, max)) /\ Yes = (k > max)
    BY <2>1 DEF Yes
  <2> HIDE DEF r, b, a, U, z
  <2>3. EmitRow(a, max) = Res("in", <<>>, <<>>, names, U, r, Yes)
    <3>1. EmitRow(a, max) = IF Len(r) < max THEN Res("in", <<>>, <<>>, names, U, Append(r, RowObject(U, ts)), b)
                            ELSE Res("in", <<>>, <<>>, names, U, r, Yes)
      <4>1. U = UniqueNames(names) /\ U # <<>>
        BY DEF U
      <4> HIDE DEF n
      <4> QED BY <4>1, <1>2, <1>3, RowEmitted
    <3> QED BY <3>1, <2>1, Zenon DEF obj
  <2>4. EmitRow(a, max) = z
    BY <2>2, <2>3, <1>5, Zenon
  <2>5. a.state = "row"
    BY <1>2, ResIs
  <2>6. Leads(a, <<"</row>">>, max, z)
    BY <2>4, <2>5, Goto, LeadsOne
  <2> QED BY <2>6 DEF a, J, w, c, r, b, z, n
<1> QED BY <1>7, <1>8

LEMMA RowLeads ==
    ASSUME NEW S, Covers(S), NEW names \in Seq(Names), UniqueNames(names) # <<>>,
           NEW rows, NEW k \in Nat, k >= 1, GoodRow(S, rows[k]), NEW max \in Nat
    PROVE  /\ Leads(After(names, rows, max, k - 1), RowXml(rows[k], names), max, After(names, rows, max, k))
           /\ RowXml(rows[k], names) \in Seq(S)
<1> DEFINE J == Joined(rows[k])
           n == Len(names)
           w == Known(names, k - 1)
           c == Heading(names, k - 1)
           r == Seen(names, rows, Least(k - 1, max))
           b == k - 1 > max
           a == After(names, rows, max, k - 1)
           z == After(names, rows, max, k)
           fields == FlattenSeq([i \in DOMAIN names |-> FieldXml(names[i], rows[k])])
           a1 == InRow(names, J, 0, w, c, r, b)
           a2 == InRow(names, J, n, w, c, r, b)
<1>1. a = Res("in", <<>>, <<>>, w, c, r, b)
  BY DEF After
<1>2. Leads(a2, <<"</row>">>, max, z)
  BY RowEnds
<1> HIDE DEF w, c, r, b, J
<1>3. Leads(a, <<"<row>">>, max, a1)
  BY <1>1, RowStarts
<1>4. Leads(a1, fields, max, a2) /\ fields \in Seq(S)
  BY RowFields DEF J
<1>5. <<"<row>">> \in Seq(S) /\ <<"</row>">> \in Seq(S)
  BY TagsAre DEF Covers
<1>6. RowXml(rows[k], names) = Concat(Concat(<<"<row>">>, fields), <<"</row>">>)
  BY DEF RowXml, Concat, FieldXml
<1> HIDE DEF a, z, a1, a2, fields
<1> DEFINE h == Concat(<<"<row>">>, fields)
<1>7. h \in Seq(S) /\ Leads(a, h, max, a2)
  BY <1>3, <1>4, <1>5, LeadsOn, ConcatFacts
<1> HIDE DEF h
<1>8. Concat(h, <<"</row>">>) \in Seq(S) /\ Leads(a, Concat(h, <<"</row>">>), max, z)
  BY <1>2, <1>5, <1>7, LeadsOn, ConcatFacts
<1> QED BY <1>6, <1>8 DEF h, a, z

No == FALSE
NewLine == "\n"

\* A document from its first symbol to its last.
LEMMA DocStarts ==
    ASSUME NEW names, NEW rows, NEW max \in Nat
    PROVE  Leads(NewResult, <<"<resultset>">>, max, After(names, rows, max, 0))
<1> DEFINE e == <<>>
           z == After(names, rows, max, 0)
           a == NewResult
<1>1. a = Res("before", e, e, e, e, e, No)
  BY DEF NewResult, Res, No
<1>2. Known(names, 0) = e /\ Heading(names, 0) = e /\ (0 > max) = No
  BY DEF Known, Heading, No
<1>3. Seen(names, rows, Least(0, max)) = e
  <2>1. Least(0, max) = 0
    BY DEF Least
  <2>2. Seen(names, rows, 0) = e
    BY DEF Seen
  <2> QED BY <2>1, <2>2
<1>4. z = Res("in", e, e, e, e, e, No)
  BY <1>2, <1>3 DEF After
<1> HIDE DEF e, a, z
<1>5. a.state = "before" /\ [a EXCEPT !.state = "in"] = Res("in", e, e, e, e, e, No)
  BY <1>1, ResIs, ResTo
<1>6. Symbol(a, "<resultset>", max) = z
  BY <1>4, <1>5, Goto
<1>7. Leads(a, <<"<resultset>">>, max, z)
  BY <1>6, LeadsOne
<1> QED BY <1>7 DEF a, z

\* The result of the whole document.
Whole(names, rows, max) ==
    LET n == Len(rows)
    IN  Res("after", <<>>, <<>>, Known(names, n), Heading(names, n),
            Seen(names, rows, Least(n, max)), n > max)

LEMMA DocEnds ==
    ASSUME NEW names, NEW rows, NEW max, IsText(NewLine)
    PROVE  Leads(After(names, rows, max, Len(rows)), <<"</resultset>", "\n">>, max, Whole(names, rows, max))
<1> DEFINE n == Len(rows)
           a == After(names, rows, max, n)
           z == Whole(names, rows, max)
           w == Known(names, n)
           c == Heading(names, n)
           r == Seen(names, rows, Least(n, max))
           b == n > max
           x == "</resultset>"
           S == {x, NewLine}
<1>1. a = Res("in", <<>>, <<>>, w, c, r, b) /\ z = Res("after", <<>>, <<>>, w, c, r, b)
  BY DEF After, Whole
<1> HIDE DEF a, z, w, c, r, b
<1>2. a.state = "in" /\ [a EXCEPT !.state = "after"] = z /\ z.state = "after"
  BY <1>1, ResIs, ResTo
<1>3. Leads(a, <<x>>, max, z)
  <2>1. Symbol(a, x, max) = z
    BY <1>2, Goto
  <2> HIDE DEF x
  <2> QED BY <2>1, LeadsOne
<1>4. Leads(z, <<NewLine>>, max, z)
  <2>1. Symbol(z, NewLine, max) = z
    BY <1>2, ReadText
  <2> QED BY <2>1, LeadsOne
<1>5. Concat(<<x>>, <<NewLine>>) = <<x, NewLine>>
  <2> HIDE DEF x
  <2> DEFINE s == <<x>>
             t == <<NewLine>>
             u == <<x, NewLine>>
             d == Concat(s, t)
  <2>1. /\ s \in Seq(S) /\ t \in Seq(S) /\ u \in Seq(S) /\ Len(s) = 1 /\ Len(t) = 1 /\ Len(u) = 2
        /\ s[1] = x /\ t[1] = NewLine /\ u[1] = x /\ u[2] = NewLine
    OBVIOUS
  <2> HIDE DEF s, t, u, S
  <2>2. /\ d \in Seq(S) /\ Len(d) = Len(s) + Len(t)
        /\ \A i \in 1..Len(s) : d[i] = s[i]
        /\ \A i \in Len(s) + 1 .. Len(s) + Len(t) : d[i] = t[i - Len(s)]
    BY <2>1, ConcatFacts
  <2> HIDE DEF d
  <2>3. Len(d) = 2 /\ d[1] = x /\ d[2] = NewLine
    BY <2>1, <2>2
  <2>4. \A i \in 1..Len(d) : d[i] = u[i]
    BY <2>1, <2>3
  <2>5. d = u
    BY <2>1, <2>2, <2>3, <2>4, SameSequence
  <2> QED BY <2>5 DEF d, s, t, u
<1>6. <<x>> \in Seq(S) /\ <<NewLine>> \in Seq(S)
  <2> HIDE DEF x
  <2> QED OBVIOUS
<1> HIDE DEF x, S
<1>7. Leads(a, Concat(<<x>>, <<NewLine>>), max, z)
  BY <1>3, <1>4, <1>6, LeadsOn
<1>8. Leads(a, <<x, NewLine>>, max, z)
  BY <1>5, <1>7
<1> QED BY <1>8 DEF x, NewLine, a, z, n

Documented(rows, names, S, max) ==
    /\ Xml(rows, names) \in Seq(S)
    /\ ParseXml(Xml(rows, names), max) = Whole(names, rows, max)

LEMMA DocumentIs ==
    ASSUME NEW S, Covers(S), IsText(NewLine), NEW names \in Seq(Names), UniqueNames(names) # <<>>,
           NEW rows, Len(rows) \in Nat, DOMAIN rows = 1..Len(rows),
           \A i \in 1..Len(rows) : GoodRow(S, rows[i]), NEW max \in Nat
    PROVE  Documented(rows, names, S, max)
<1> DEFINE n == Len(rows)
           seqs == [i \in DOMAIN rows |-> RowXml(rows[i], names)]
           st == [i \in 0..n |-> After(names, rows, max, i)]
           z == Whole(names, rows, max)
           head == <<"<resultset>">>
           tail == <<"</resultset>", "\n">>
           flat == FlattenSeq(seqs)
<1>1. n \in Nat /\ DOMAIN rows = 1..n
  OBVIOUS
<1>2. \A i \in 0..n : st[i] = After(names, rows, max, i)
  OBVIOUS
<1> HIDE DEF st
<1>3. ASSUME NEW i \in 1..n
      PROVE /\ RowXml(rows[i], names) \in Seq(S)
            /\ Leads(After(names, rows, max, i - 1), RowXml(rows[i], names), max, After(names, rows, max, i))
  <2>1. i \in Nat /\ i >= 1 /\ GoodRow(S, rows[i])
    BY <1>1
  <2> QED BY <2>1, RowLeads
<1> HIDE DEF n
<1>4. seqs \in [1..n -> Seq(S)] /\ \A i \in 1..n : seqs[i] = RowXml(rows[i], names)
  BY <1>1, <1>3
<1> HIDE DEF seqs
<1>5. ASSUME NEW i \in 1..n PROVE Leads(st[i - 1], seqs[i], max, st[i])
  <2>1. i \in 0..n /\ i - 1 \in 0..n
    BY <1>1
  <2> QED BY <2>1, <1>2, <1>3, <1>4
<1>6. Leads(st[0], flat, max, st[n]) /\ flat \in Seq(S)
  BY <1>1, <1>4, <1>5, LeadsAll
<1>7. st[0] = After(names, rows, max, 0) /\ st[n] = After(names, rows, max, n)
  BY <1>1, <1>2
<1>8. Leads(NewResult, head, max, st[0])
  BY <1>7, DocStarts
<1>9. Leads(st[n], tail, max, z)
  BY <1>7, DocEnds DEF n
<1>10. head \in Seq(S) /\ tail \in Seq(S)
  BY TagsAre DEF Covers
<1>11. Xml(rows, names) = Concat(Concat(head, flat), tail)
  BY DEF Xml, Concat, seqs
<1> HIDE DEF head, tail, flat, z
<1> DEFINE h == Concat(head, flat)
           doc == Concat(h, tail)
<1>12. h \in Seq(S) /\ Leads(NewResult, h, max, st[n])
  BY <1>6, <1>8, <1>10, LeadsOn, ConcatFacts
<1> HIDE DEF h
<1>13. doc \in Seq(S) /\ Leads(NewResult, doc, max, z)
  BY <1>9, <1>10, <1>12, LeadsOn, ConcatFacts
<1> HIDE DEF doc
<1>14. Len(doc) \in Nat
  BY <1>13
<1>15. ParseXml(doc, max) = z
  BY <1>13, <1>14, ParseRuns, LeadsOnce
<1>16. Xml(rows, names) = doc
  BY <1>11 DEF doc, h
<1> QED BY <1>13, <1>15, <1>16 DEF Documented, z

(***************************************************************************)
(* A document that was cut is not read as a whole one.                     *)
(***************************************************************************)
HasState(a) == "state" \in DOMAIN a

LEMMA StateSet ==
    ASSUME NEW a, HasState(a), NEW x
    PROVE  HasState([a EXCEPT !.state = x]) /\ [a EXCEPT !.state = x].state = x
BY DEF HasState

LEMMA EmitState ==
    ASSUME NEW a, HasState(a), NEW max
    PROVE  HasState(EmitRow(a, max)) /\ EmitRow(a, max).state \in {"in", "failed"}
<1> DEFINE known == IF a.columns # <<>> THEN a
                    ELSE [a EXCEPT !.raw = a.names, !.columns = UniqueNames(a.names)]
           next == [known EXCEPT !.state = "in", !.names = <<>>, !.texts = <<>>]
           z == EmitRow(a, max)
<1>1. HasState(known)
  BY DEF HasState
<1>2. z = IF known.raw # a.names THEN [a EXCEPT !.state = "failed"]
          ELSE IF Room(known, max)
          THEN [next EXCEPT !.rows = Append(@, RowObject(known.columns, a.texts))]
          ELSE [next EXCEPT !.truncated = TRUE]
  BY DEF EmitRow
<1> HIDE DEF known, z
<1>3. HasState(next) /\ next.state = "in"
  BY <1>1 DEF HasState
<1> HIDE DEF next
<1>4. CASE known.raw # a.names
  <2>1. z = [a EXCEPT !.state = "failed"]
    BY <1>2, <1>4
  <2> QED BY <2>1, StateSet DEF z
<1>5. CASE known.raw = a.names /\ Room(known, max)
  <2> DEFINE o == RowObject(known.columns, a.texts)
             y == Append(next.rows, o)
  <2>1. z = [next EXCEPT !.rows = y]
    BY <1>2, <1>5, Zenon
  <2> HIDE DEF y
  <2>2. HasState(z) /\ z.state = next.state
    BY <2>1, <1>3 DEF HasState
  <2> QED BY <2>2, <1>3 DEF z
<1>6. CASE known.raw = a.names /\ ~Room(known, max)
  <2> DEFINE y == TRUE
  <2>1. z = [next EXCEPT !.truncated = y]
    BY <1>2, <1>6, Zenon
  <2> HIDE DEF y
  <2>2. HasState(z) /\ z.state = next.state
    BY <2>1, <1>3 DEF HasState
  <2> QED BY <2>2, <1>3 DEF z
<1> QED BY <1>4, <1>5, <1>6

\* The parser always has a state.
LEMMA SymbolState ==
    ASSUME NEW a, HasState(a), NEW s, NEW max
    PROVE  HasState(Symbol(a, s, max))
<1> DEFINE opened == {n \in Names : s = FieldTag(n)}
           G(f, t) == [a EXCEPT !.state = IF @ = f THEN t ELSE "failed"]
           F == [a EXCEPT !.state = "field", !.texts = Append(@, ""),
                          !.names = Append(@, CHOOSE n \in opened : TRUE)]
           L == IF a.state # "field" THEN a ELSE [a EXCEPT !.texts[Len(a.texts)] = @ \o s]
           X == [a EXCEPT !.state = "failed"]
           E == EmitRow(a, max)
           p == opened # {}
           r == a.state = "row"
           z == Symbol(a, s, max)
           y == CASE s = "<resultset>" -> G("before", "in")
                  [] s = "<row>"        -> G("in", "row")
                  [] p /\ r             -> F
                  [] p /\ ~r            -> X
                  [] s = "</field>"     -> G("field", "row")
                  [] s = "</row>" /\ r  -> E
                  [] s = "</row>" /\ ~r -> X
                  [] s = "</resultset>" -> G("in", "after")
                  [] OTHER              -> L
<1>1. z = IF a.state = "failed" THEN a ELSE y
  BY Zenon DEF Symbol
<1>2. ASSUME NEW f, NEW t PROVE HasState(G(f, t))
  BY StateSet
<1>3. HasState(F) /\ HasState(L)
  BY DEF HasState
<1>4. HasState(X) /\ HasState(E)
  BY EmitState, StateSet
<1> HIDE DEF G, F, L, X, E, p, r
<1>5. HasState(y)
  <2> DEFINE g1 == G("before", "in") g2 == G("in", "row") g3 == G("field", "row") g4 == G("in", "after")
  <2>1. HasState(g1) /\ HasState(g2) /\ HasState(g3) /\ HasState(g4)
    BY <1>2
  <2>2. y \in {g1, g2, F, X, g3, E, g4, L}
    <3> HIDE DEF g1, g2, g3, g4
    <3> QED BY DEF g1, g2, g3, g4
  <2> HIDE DEF g1, g2, g3, g4, y
  <2> QED BY <2>1, <2>2, <1>3, <1>4
<1> HIDE DEF y, z
<1>6. HasState(z)
  BY <1>1, <1>5
<1> QED BY <1>6 DEF z

\* After the symbols behind which a document may end it is still open, and so it
\* is after the end of the line.
LEMMA CutState ==
    ASSUME NEW a, HasState(a), NEW max
    PROVE  /\ Symbol(a, "<resultset>", max).state \in {"in", "failed"}
           /\ Symbol(a, "</row>", max).state \in {"in", "failed"}
           /\ IsText(NewLine) /\ a.state \in {"in", "failed"} =>
                  Symbol(a, NewLine, max).state \in {"in", "failed"}
<1>1. CASE a.state = "failed"
  <2>1. \A s : Symbol(a, s, max) = a
    BY <1>1, Zenon DEF Symbol
  <2> QED BY <2>1, <1>1
<1>2. CASE a.state # "failed"
  <2>1. \A s \in Tags : {n \in Names : s = FieldTag(n)} = {}
    BY NamesAssumption
  <2>2. {n \in Names : "<resultset>" = FieldTag(n)} = {} /\ {n \in Names : "</row>" = FieldTag(n)} = {}
    BY <2>1, TagsAre
  <2>3. Symbol(a, "<resultset>", max) = [a EXCEPT !.state = IF a.state = "before" THEN "in" ELSE "failed"]
    BY <1>2, <2>2 DEF Symbol
  <2>4. Symbol(a, "<resultset>", max).state \in {"in", "failed"}
    <3> DEFINE x == IF a.state = "before" THEN "in" ELSE "failed"
    <3>1. x \in {"in", "failed"}
      OBVIOUS
    <3> HIDE DEF x
    <3>2. [a EXCEPT !.state = x].state = x
      BY StateSet
    <3> QED BY <2>3, <3>1, <3>2 DEF x
  <2>5. Symbol(a, "</row>", max) = IF a.state = "row" THEN EmitRow(a, max) ELSE [a EXCEPT !.state = "failed"]
    BY <1>2, <2>2 DEF Symbol
  <2>6. Symbol(a, "</row>", max).state \in {"in", "failed"}
    BY <2>5, EmitState, StateSet, ZenonT(40)
  <2>7. ASSUME IsText(NewLine), a.state \in {"in", "failed"} PROVE Symbol(a, NewLine, max) = a
    BY <2>7, <1>2, ReadText
  <2> QED BY <2>4, <2>6, <2>7
<1> QED BY <1>1, <1>2

\* The last symbol of a document, and what is read before it.
LEMMA LastSymbol ==
    ASSUME NEW S, NEW doc \in Seq(S), Len(doc) > 0, NEW max
    PROVE  \E a, b : /\ HasState(a) /\ ParseXml(doc, max) = Symbol(a, doc[Len(doc)], max)
                     /\ b = [i \in 1..(Len(doc) - 1) |-> doc[i]] /\ a = ParseXml(b, max)
<1> DEFINE n == Len(doc)
           b == [i \in 1..(n - 1) |-> doc[i]]
<1>1. n \in Nat /\ n >= 1 /\ n - 1 \in Nat
  OBVIOUS
<1>2. Len(b) = n - 1 /\ \A i \in 1..(n - 1) : b[i] = doc[i]
  BY <1>1
<1> HIDE DEF b
<1>3. Leads(NewResult, doc, max, ParseXml(doc, max)) /\ Leads(NewResult, b, max, ParseXml(b, max))
  BY <1>1, <1>2, ParseRuns
<1>4. PICK f : f[0] = NewResult /\ f[n] = ParseXml(doc, max) /\ Along(f, doc, max)
  BY <1>3 DEF Leads
<1>5. Along(f, b, max)
  <2> SUFFICES ASSUME NEW i \in 1..(n - 1) PROVE f[i] = Symbol(f[i - 1], b[i], max)
    BY <1>2 DEF Along
  <2>1. i \in 1..n
    BY <1>1
  <2> QED BY <2>1, <1>2, <1>4 DEF Along
<1>6. Leads(NewResult, b, max, f[n - 1])
  BY <1>2, <1>4, <1>5 DEF Leads
<1>7. f[n - 1] = ParseXml(b, max)
  BY <1>1, <1>2, <1>3, <1>6, LeadsOnce
<1>8. f[n] = Symbol(f[n - 1], doc[n], max)
  BY <1>1, <1>4 DEF Along
<1> DEFINE T == {m \in Nat : m <= n => HasState(f[m])}
<1>9. 0 \in T
  BY <1>4 DEF NewResult, HasState
<1>10. ASSUME NEW m \in Nat, m \in T PROVE m + 1 \in T
  <2> SUFFICES ASSUME m + 1 <= n PROVE HasState(f[m + 1])
    OBVIOUS
  <2>1. m + 1 \in 1..n /\ (m + 1) - 1 = m /\ m <= n
    BY <1>1
  <2>2. f[m + 1] = Symbol(f[(m + 1) - 1], doc[m + 1], max)
    BY <2>1, <1>4 DEF Along
  <2>3. HasState(f[m])
    BY <2>1, <1>10
  <2> QED BY <2>1, <2>2, <2>3, SymbolState
<1>11. HasState(f[n - 1])
  <2>1. Nat \subseteq T
    <3> HIDE DEF T
    <3> QED BY <1>9, <1>10, Induct
  <2>2. n - 1 \in Nat /\ n - 1 <= n
    BY <1>1
  <2> HIDE DEF n
  <2> QED BY <2>1, <2>2
<1> QED BY <1>4, <1>7, <1>8, <1>11 DEF b

\* A document that ends behind such a symbol, with or without an end of the line.
LEMMA CutIsOpen ==
    ASSUME NEW S, "\n" \in S, NEW xml \in Seq(S), NEW i \in Cuts(xml), IsText(NewLine), NEW max
    PROVE  /\ ~Parsed(ParseXml(SubSeq(xml, 1, i), max))
           /\ ~Parsed(ParseXml(SubSeq(xml, 1, i) \o <<"\n">>, max))
<1> DEFINE d == SubSeq(xml, 1, i)
           nl == <<"\n">>
           e == Concat(d, nl)
<1>1. i \in 1..Len(xml) /\ i \in Nat /\ i >= 1
  BY DEF Cuts
<1>2. d[i] \in {"<resultset>", "</row>"}
  BY <1>1 DEF Cuts
<1>3. d \in Seq(S) /\ Len(d) = i
  BY <1>1
<1>4. nl \in Seq(S) /\ Len(nl) = 1 /\ nl[1] = NewLine
  BY DEF NewLine
<1>5. e = SubSeq(xml, 1, i) \o <<"\n">>
  BY DEF Concat
<1> HIDE DEF d, nl
<1>6. /\ e \in Seq(S) /\ Len(e) = i + 1
      /\ \A j \in 1..i : e[j] = d[j]
      /\ e[i + 1] = nl[1]
  <2>1. /\ e \in Seq(S) /\ Len(e) = Len(d) + Len(nl)
        /\ \A j \in 1..Len(d) : e[j] = d[j]
        /\ \A j \in Len(d) + 1 .. Len(d) + Len(nl) : e[j] = nl[j - Len(d)]
    BY <1>3, <1>4, ConcatFacts
  <2> HIDE DEF e
  <2> QED BY <2>1, <1>1, <1>3, <1>4
<1> HIDE DEF e
<1>7. ParseXml(d, max).state \in {"in", "failed"}
  <2>1. PICK a : HasState(a) /\ ParseXml(d, max) = Symbol(a, d[Len(d)], max)
    BY <1>1, <1>3, LastSymbol
  <2>2. d[Len(d)] = "<resultset>" \/ d[Len(d)] = "</row>"
    BY <1>2, <1>3 DEF d
  <2> QED BY <2>1, <2>2, CutState
<1>8. ParseXml(e, max).state \in {"in", "failed"}
  <2>1. PICK a, b : /\ HasState(a) /\ ParseXml(e, max) = Symbol(a, e[Len(e)], max)
                    /\ b = [j \in 1..(Len(e) - 1) |-> e[j]] /\ a = ParseXml(b, max)
    <3>1. e \in Seq(S) /\ Len(e) > 0
      BY <1>1, <1>6
    <3> QED BY <3>1, LastSymbol, Zenon
  <2>2. b \in Seq(S) /\ Len(b) = i /\ \A j \in 1..i : b[j] = d[j]
    BY <2>1, <1>1, <1>3, <1>6
  <2>3. b = d
    BY <2>2, <1>3, SameSequence
  <2>4. a.state \in {"in", "failed"} /\ e[Len(e)] = NewLine
    BY <2>1, <2>3, <1>1, <1>4, <1>6, <1>7
  <2> QED BY <2>1, <2>4, CutState
<1> QED BY <1>5, <1>7, <1>8 DEF d, Parsed

\* Nothing at all is no document.
LEMMA NothingIsOpen == ASSUME NEW max PROVE ~Parsed(ParseXml(<<>>, max))
<1> DEFINE e == <<>>
<1>1. Len(e) = 0
  OBVIOUS
<1> HIDE DEF e
<1>2. PICK f : f[0] = NewResult /\ f[0] = ParseXml(e, max)
  BY <1>1, ParseRuns DEF Leads
<1>3. ParseXml(e, max).state = "before"
  BY <1>2 DEF NewResult
<1> QED BY <1>3 DEF Parsed, e

(***************************************************************************)
(* The names of the columns are as many as there were, and all different.  *)
(***************************************************************************)
\* The name a column is given when those in used are taken.
Fresh(used, base) ==
    IF Contains(used, base) THEN Suffixed(base, Suffix(used, base)) ELSE base

\* u[i] are the names of the first i columns.
NamedAlong(u, raw) == u[0] = <<>> /\ \A i \in 1..Len(raw) : u[i] = Append(u[i - 1], Fresh(u[i - 1], raw[i]))

LEMMA NamesRun ==
    ASSUME NEW raw, Len(raw) \in Nat
    PROVE  \E u : NamedAlong(u, raw) /\ UniqueNames(raw) = u[Len(raw)]
<1> DEFINE n == Len(raw)
           none == <<>>
           next(f, m) == [i \in 0..m |-> IF i = 0 THEN none ELSE Append(f[i - 1], Fresh(f[i - 1], raw[i]))]
           T == {m \in Nat : \E f : f = next(f, m)}
           upTo == CHOOSE f : f = next(f, n)
<1>5. UniqueNames(raw) = upTo[n]
  BY DEF UniqueNames, Fresh
<1>0. n \in Nat
  OBVIOUS
<1> HIDE DEF n, none
<1>1. 0 \in T
  <2> DEFINE f == [i \in 0..0 |-> none]
  <2>1. f = next(f, 0)
    OBVIOUS
  <2> HIDE DEF f
  <2> QED BY <2>1
<1>2. ASSUME NEW m \in Nat, m \in T PROVE m + 1 \in T
  <2>1. PICK f : f = next(f, m)
    BY <1>2
  <2> DEFINE last == Append(f[m], Fresh(f[m], raw[m + 1]))
             g == [i \in 0..(m + 1) |-> IF i <= m THEN f[i] ELSE last]
  <2>2. \A i \in 0..m : f[i] = IF i = 0 THEN none ELSE Append(f[i - 1], Fresh(f[i - 1], raw[i]))
    BY <2>1
  <2>3. (\A i \in 0..m : g[i] = f[i]) /\ g[m + 1] = last
    <3> HIDE DEF last
    <3> QED OBVIOUS
  <2>4. g = [i \in 0..(m + 1) |-> g[i]]
    OBVIOUS
  <2> HIDE DEF g
  <2>5. \A i \in 0..(m + 1) : g[i] = IF i = 0 THEN none ELSE Append(g[i - 1], Fresh(g[i - 1], raw[i]))
    <3> TAKE i \in 0..(m + 1)
    <3>1. CASE i = 0
      <4>1. 0 \in 0..m
        OBVIOUS
      <4> QED BY <4>1, <3>1, <2>2, <2>3
    <3>2. CASE i \in 1..m
      <4>1. i - 1 \in 0..m /\ i \in 0..m /\ i # 0
        BY <3>2
      <4> QED BY <4>1, <2>2, <2>3
    <3>3. CASE i = m + 1
      <4>1. i # 0 /\ i - 1 = m /\ m \in 0..m
        BY <3>3
      <4> QED BY <4>1, <2>3, <3>3
    <3> QED BY <3>1, <3>2, <3>3
  <2>6. g = next(g, m + 1)
    BY <2>4, <2>5
  <2> HIDE DEF next
  <2> QED BY <2>6
<1>3. n \in T
  <2> HIDE DEF T
  <2> QED BY <1>0, <1>1, <1>2, Induct
<1>4. upTo = next(upTo, n)
  <2> HIDE DEF next
  <2> QED BY <1>3
<1> HIDE DEF upTo
<1>6. upTo[0] = none /\ \A i \in 1..n : upTo[i] = Append(upTo[i - 1], Fresh(upTo[i - 1], raw[i]))
  <2>1. \A i \in 0..n : upTo[i] = IF i = 0 THEN none ELSE Append(upTo[i - 1], Fresh(upTo[i - 1], raw[i]))
    BY <1>4
  <2>2. 0 \in 0..n /\ \A i \in 1..n : i \in 0..n /\ i # 0
    BY <1>0
  <2> QED BY <2>1, <2>2
<1> QED BY <1>5, <1>6 DEF NamedAlong, n, none

\* Of Len(used) + 1 suffixes one is free, and the first of them is taken.
LEMMA SuffixIsFree ==
    ASSUME NEW S, NEW used \in Seq(S), NEW base,
           \A j, k \in 2..(Len(used) + 2) : Suffixed(base, j) = Suffixed(base, k) => j = k
    PROVE  /\ Suffix(used, base) \in 2..(Len(used) + 2)
           /\ ~Contains(used, Suffixed(base, Suffix(used, base)))
<1> DEFINE n == Len(used)
           K == 2..(n + 2)
           free == {k \in K : ~Contains(used, Suffixed(base, k))}
<1>1. n \in Nat
  OBVIOUS
<1>2. free # {}
  <2> SUFFICES ASSUME free = {} PROVE FALSE
    OBVIOUS
  <2>1. \A k \in K : \E i \in 1..n : used[i] = Suffixed(base, k)
    BY DEF Contains
  <2> DEFINE f == [k \in K |-> CHOOSE i \in 1..n : used[i] = Suffixed(base, k)]
             I == 1..n
  <2>2. \A k \in K : f[k] \in I /\ used[f[k]] = Suffixed(base, k)
    BY <2>1
  <2>3. f \in [K -> I]
    BY <2>2
  <2>4. IsFiniteSet(K) /\ Cardinality(K) = n + 1 /\ IsFiniteSet(I) /\ Cardinality(I) = n
    <3>1. IsFiniteSet(K) /\ Cardinality(K) = IF 2 > n + 2 THEN 0 ELSE (n + 2) - 2 + 1
      BY <1>1, FS_Interval
    <3>2. IsFiniteSet(I) /\ Cardinality(I) = IF 1 > n THEN 0 ELSE n - 1 + 1
      BY <1>1, FS_Interval, SMTT(30)
    <3> HIDE DEF K, I
    <3> QED BY <1>1, <3>1, <3>2
  <2>5. \A j, k \in K : f[j] = f[k] => j = k
    <3> HIDE DEF f
    <3> QED BY <2>2
  <2> HIDE DEF f, I, K, free
  <2>6. \E x, y \in K : x # y /\ f[x] = f[y]
    <3>1. Cardinality(I) < Cardinality(K)
      BY <1>1, <2>4
    <3> QED BY <2>3, <2>4, <3>1, FS_PigeonHole
  <2> QED BY <2>5, <2>6
<1>3. PICK k \in free : \A j \in free : k <= j
  <2>1. free \subseteq Nat
    BY <1>1
  <2> HIDE DEF free
  <2> QED BY <1>2, <2>1, LeastNumber
<1>4. \A j \in 2..(k - 1) : Contains(used, Suffixed(base, j))
  <2> SUFFICES ASSUME NEW j \in 2..(k - 1), ~Contains(used, Suffixed(base, j)) PROVE FALSE
    OBVIOUS
  <2>1. j \in K /\ j < k
    BY <1>1
  <2> QED BY <2>1, <1>3
<1>5. \E x \in K : /\ ~Contains(used, Suffixed(base, x))
                   /\ \A j \in 2..(x - 1) : Contains(used, Suffixed(base, j))
  BY <1>3, <1>4
<1> HIDE DEF free
<1> QED BY <1>5 DEF Suffix

LEMMA FreshIsFree ==
    ASSUME NEW S, NEW used \in Seq(S), NEW base,
           \A j, k \in 2..(Len(used) + 2) : Suffixed(base, j) = Suffixed(base, k) => j = k
    PROVE  ~Contains(used, Fresh(used, base))
BY SuffixIsFree DEF Fresh

Distinct(u, i) == Len(u) = i /\ \A j, k \in 1..i : u[j] = u[k] => j = k

LEMMA NamesAreUnique ==
    ASSUME NEW raw, Len(raw) \in Nat,
           \A i \in 1..Len(raw) : \A j, k \in 2..(Len(raw) + 1) :
               Suffixed(raw[i], j) = Suffixed(raw[i], k) => j = k
    PROVE  \E S : UniqueNames(raw) \in Seq(S) /\ Distinct(UniqueNames(raw), Len(raw))
<1> DEFINE n == Len(raw)
<1>1. PICK u : NamedAlong(u, raw) /\ UniqueNames(raw) = u[n]
  BY NamesRun
<1> DEFINE S == {Fresh(u[i - 1], raw[i]) : i \in 1..n}
           T == {m \in Nat : m <= n => u[m] \in Seq(S) /\ Distinct(u[m], m)}
<1>2. 0 \in T
  <2>1. u[0] = <<>>
    BY <1>1 DEF NamedAlong
  <2>2. u[0] \in Seq(S) /\ Len(u[0]) = 0
    <3> HIDE DEF S
    <3> QED BY <2>1
  <2> HIDE DEF S
  <2> QED BY <2>2 DEF Distinct
<1>3. ASSUME NEW m \in Nat, m \in T PROVE m + 1 \in T
  <2> SUFFICES ASSUME m + 1 <= n PROVE u[m + 1] \in Seq(S) /\ Distinct(u[m + 1], m + 1)
    OBVIOUS
  <2> DEFINE x == Fresh(u[m], raw[m + 1])
  <2>1. u[m] \in Seq(S) /\ Len(u[m]) = m /\ \A j, k \in 1..m : u[m][j] = u[m][k] => j = k
    BY <1>3 DEF Distinct
  <2>2. m + 1 \in 1..n /\ (m + 1) - 1 = m
    OBVIOUS
  <2>3. u[m + 1] = Append(u[m], x)
    BY <2>2, <1>1 DEF NamedAlong
  <2>4. x \in S
    BY <2>2
  <2>5. ~Contains(u[m], x)
    <3>1. \A j, k \in 2..(m + 2) : Suffixed(raw[m + 1], j) = Suffixed(raw[m + 1], k) => j = k
      <4>1. \A j \in 2..(m + 2) : j \in 2..(n + 1)
        BY <2>2
      <4> QED BY <4>1, <2>2
    <3> HIDE DEF S
    <3> QED BY <2>1, <3>1, FreshIsFree
  <2>6. \A j \in 1..m : u[m][j] # x
    BY <2>1, <2>5 DEF Contains
  <2> HIDE DEF x, S
  <2> DEFINE v == Append(u[m], x)
  <2>7. v \in Seq(S) /\ Len(v) = m + 1 /\ v[m + 1] = x /\ \A j \in 1..m : v[j] = u[m][j]
    BY <2>1, <2>4
  <2> HIDE DEF v
  <2>8. \A j, k \in 1..(m + 1) : v[j] = v[k] => j = k
    <3> TAKE j, k \in 1..(m + 1)
    <3>1. (j \in 1..m \/ j = m + 1) /\ (k \in 1..m \/ k = m + 1)
      OBVIOUS
    <3> QED BY <3>1, <2>1, <2>6, <2>7
  <2> QED BY <2>3, <2>7, <2>8 DEF Distinct, v
<1>4. n \in T
  <2> HIDE DEF T
  <2> QED BY <1>2, <1>3, Induct
<1> QED BY <1>1, <1>4

\* Each name has a last place.
LEMMA LastPlace ==
    ASSUME NEW S, NEW U \in Seq(S), NEW c \in ToSet(U)
    PROVE  SelectLastInSeq(U, LAMBDA d : d = c) \in 1..Len(U)
<1> DEFINE I == {i \in 1..Len(U) : U[i] = c}
           B == {b \in Nat : \A i \in I : i <= b}
<1>1. Len(U) \in Nat /\ \E i \in 1..Len(U) : U[i] = c
  BY DEF ToSet
<1>2. I # {}
  BY <1>1
<1>3. PICK b \in B : \A d \in B : b <= d
  <2>1. Len(U) \in B
    BY <1>1
  <2>2. B \subseteq Nat
    OBVIOUS
  <2> HIDE DEF B
  <2> QED BY <2>1, <2>2, LeastNumber
<1>4. b \in I
  <2> SUFFICES ASSUME b \notin I PROVE FALSE
    OBVIOUS
  <2>1. \A i \in I : i \in Nat /\ i >= 1 /\ i <= b /\ i # b
    BY <1>3
  <2> HIDE DEF I
  <2>2. b \in Nat /\ b - 1 \in Nat /\ \A i \in I : i <= b - 1
    BY <1>2, <1>3, <2>1
  <2>3. b - 1 \in B
    BY <2>2
  <2> HIDE DEF B
  <2> QED BY <1>3, <2>2, <2>3
<1>5. \E x \in I : \A y \in I : x >= y
  BY <1>3, <1>4
<1>6. SelectLastInSeq(U, LAMBDA d : d = c) = IF I # {} THEN Max(I) ELSE 0
  BY DEF SelectLastInSeq
<1>7. Max(I) \in I
  <2> HIDE DEF I
  <2> QED BY <1>5 DEF Max
<1> QED BY <1>2, <1>6, <1>7

\* A row has a value for each of its columns, and it is the same everywhere.
LEMMA RowHas ==
    ASSUME NEW S, NEW U \in Seq(S), Distinct(U, Len(U)), NEW J
    PROVE  /\ Cardinality(DOMAIN RowObject(U, Same(J, Len(U)))) = Len(U)
           /\ \A c \in DOMAIN RowObject(U, Same(J, Len(U))) : RowObject(U, Same(J, Len(U)))[c] = J
<1> DEFINE n == Len(U)
           o == RowObject(U, Same(J, n))
           I == 1..n
<1>1. n \in Nat
  OBVIOUS
<1>2. DOMAIN o = ToSet(U)
  BY DEF RowObject
<1>3. ASSUME NEW c \in ToSet(U) PROVE o[c] = J
  <2> DEFINE i == SelectLastInSeq(U, LAMBDA d : d = c)
             t == Same(J, n)
  <2>1. o[c] = t[i]
    BY DEF RowObject
  <2>2. i \in I
    BY LastPlace
  <2>3. \A j \in I : t[j] = J
    BY DEF Same
  <2> HIDE DEF i, t, o, I
  <2> QED BY <2>1, <2>2, <2>3
<1>4. ExistsBijection(I, ToSet(U))
  <2> DEFINE f == [i \in I |-> U[i]]
  <2>1. \A i \in I : f[i] = U[i]
    OBVIOUS
  <2>2. DOMAIN U = I
    OBVIOUS
  <2>3. \A i, j \in I : U[i] = U[j] => i = j
    BY DEF Distinct
  <2>4. f \in [I -> ToSet(U)]
    BY <2>2 DEF ToSet
  <2>5. \A x \in ToSet(U) : \E i \in I : U[i] = x
    BY <2>2 DEF ToSet
  <2> HIDE DEF f, I
  <2>6. \A i, j \in I : f[i] = f[j] => i = j
    BY <2>1, <2>3
  <2>7. \A x \in ToSet(U) : \E i \in I : f[i] = x
    BY <2>1, <2>5
  <2>8. f \in Bijection(I, ToSet(U))
    BY <2>4, <2>6, <2>7 DEF Bijection, Injection, Surjection, IsInjective
  <2> QED BY <2>8 DEF ExistsBijection
<1>5. IsFiniteSet(I) /\ Cardinality(I) = n
  <2>1. IsFiniteSet(1..n) /\ Cardinality(1..n) = IF 1 > n THEN 0 ELSE n - 1 + 1
    BY <1>1, FS_Interval
  <2> HIDE DEF n
  <2> QED BY <1>1, <2>1
<1>6. Cardinality(ToSet(U)) = n
  <2> HIDE DEF I
  <2> QED BY <1>4, <1>5, FS_Bijection
<1> HIDE DEF o
<1> QED BY <1>2, <1>3, <1>6 DEF o

(***************************************************************************)
(* A statement with a probe gives the first of its own rows.               *)
(***************************************************************************)
\* new is old with x, y at its end.
Extends(new, old, x, y) ==
    /\ new \in Seq(Lexemes) /\ old \in Seq(Lexemes) /\ Len(new) = Len(old) + 2
    /\ \A k \in 1..Len(old) : new[k] = old[k] /\ old[k] # "LIMIT"
    /\ new[Len(old) + 1] = x /\ new[Len(old) + 2] = y

LEMMA ProbeExtends ==
    ASSUME NEW new, NEW sql, NEW a, ProbeClauses(new, sql, a), Lexed(sql)
    PROVE  Extends(Clauses(new), Clauses(sql), "LIMIT", ToString(PROBE_ROW_COUNT))
<1> DEFINE C == ClauseAt(sql)
           D == ClauseAt(new)
           numeral == ToString(PROBE_ROW_COUNT)
           cw == Clauses(sql)
           nw == Clauses(new)
<1>1. Lexed(new) /\ a \in Nat
  BY DEF ProbeClauses
<1>2. /\ C \in SUBSET (1..Len(sql)) /\ D \in SUBSET (1..Len(new)) /\ Len(sql) \in Nat /\ Len(new) \in Nat
      /\ sql \in Seq(Lexemes) /\ new \in Seq(Lexemes)
  BY <1>1, ClausesInText, TextFacts
<1>3. cw = At(sql, C) /\ nw = At(new, D) /\ cw \in Seq(Lexemes) /\ nw \in Seq(Lexemes)
  BY <1>1, ClausesAre
<1>4. /\ \A i \in C : i \in Nat /\ i \in D /\ i <= a /\ new[i] = sql[i] /\ sql[i] # "LIMIT"
      /\ \A i \in D : i \in Nat /\ i <= a + 2 /\ (i <= a => i \in C)
      /\ a + 1 \in D /\ new[a + 1] = "LIMIT" /\ a + 2 \in D /\ new[a + 2] = numeral
  BY <1>2 DEF ProbeClauses
<1> HIDE DEF C, D, numeral, cw, nw
<1>5. PICK at : Enumerates(at, C)
  BY <1>2, AnEnumeration
<1> DEFINE n == Len(at)
           more == [k \in 1..(n + 2) |-> IF k <= n THEN at[k] ELSE IF k = n + 1 THEN a + 1 ELSE a + 2]
<1>6. n \in Nat /\ DOMAIN at = 1..n /\ \A k \in 1..n : at[k] \in C /\ at[k] \in Nat /\ at[k] <= a /\ at[k] \in D
  <2>1. at \in Seq(C)
    BY <1>5 DEF Enumerates
  <2>2. n \in Nat /\ DOMAIN at = 1..n /\ \A k \in 1..n : at[k] \in C
    BY <2>1
  <2> HIDE DEF n
  <2> QED BY <2>2, <1>4
<1> HIDE DEF n
<1>7. /\ \A k \in 1..n : more[k] = at[k]
      /\ more[n + 1] = a + 1 /\ more[n + 2] = a + 2 /\ DOMAIN more = 1..(n + 2)
      /\ more = [k \in 1..(n + 2) |-> more[k]]
  BY <1>6
<1> HIDE DEF more
<1>8. \A k \in 1..(n + 2) : k \in 1..n \/ k = n + 1 \/ k = n + 2
  BY <1>6
<1>9. Enumerates(more, D)
  <2>1. \A k \in 1..(n + 2) : more[k] \in D
    BY <1>4, <1>6, <1>7, <1>8
  <2>2. more \in Seq(D)
    BY <1>6, <1>7, <2>1
  <2>3. ASSUME NEW j \in 1..(n + 2), NEW k \in 1..(n + 2), j < k PROVE more[j] < more[k]
    <3>1. CASE k \in 1..n
      <4>1. j \in 1..n
        BY <2>3, <3>1, <1>6
      <4>2. at[j] < at[k]
        BY <4>1, <3>1, <2>3, <1>5, <1>6 DEF Enumerates
      <4> QED BY <4>1, <4>2, <3>1, <1>7
    <3>2. CASE k = n + 1
      <4>1. j \in 1..n
        BY <2>3, <3>2, <1>6
      <4>2. more[j] = at[j] /\ at[j] \in Nat /\ at[j] <= a /\ more[k] = a + 1
        BY <4>1, <3>2, <1>6, <1>7
      <4> QED BY <4>2, <1>1
    <3>3. CASE k = n + 2
      <4>1. j \in 1..n \/ j = n + 1
        BY <2>3, <3>3, <1>6
      <4>2. more[k] = a + 2
        BY <3>3, <1>7
      <4>3. CASE j \in 1..n
        <5>1. more[j] = at[j] /\ at[j] \in Nat /\ at[j] <= a
          BY <4>3, <1>6, <1>7
        <5> QED BY <4>2, <5>1, <1>1
      <4>4. CASE j = n + 1
        <5>1. more[j] = a + 1
          BY <4>4, <1>7
        <5> QED BY <4>2, <5>1, <1>1
      <4> QED BY <4>1, <4>3, <4>4
    <3> QED BY <3>1, <3>2, <3>3, <1>8
  <2>4. ASSUME NEW p \in D PROVE \E k \in 1..(n + 2) : more[k] = p
    <3>1. CASE p \in C
      <4>1. PICK k \in 1..n : at[k] = p
        BY <3>1, <1>5, <1>6 DEF Enumerates
      <4>2. more[k] = p
        BY <4>1, <1>7
      <4>3. k \in 1..(n + 2)
        BY <1>6
      <4> QED BY <4>2, <4>3
    <3>2. CASE p \notin C
      <4>1. p = a + 1 \/ p = a + 2
        BY <3>2, <1>1, <1>4
      <4>2. n + 1 \in 1..(n + 2) /\ n + 2 \in 1..(n + 2)
        BY <1>6
      <4> QED BY <4>1, <4>2, <1>7
    <3> QED BY <3>1, <3>2
  <2> QED BY <2>2, <2>3, <2>4, <1>7 DEF Enumerates
<1>10. Reads(cw, sql, at) /\ Len(cw) = n
  BY <1>2, <1>3, <1>5, AtFacts DEF n
<1>11. Reads(nw, new, more) /\ Len(nw) = Len(more)
  BY <1>2, <1>3, <1>9, AtFacts
<1>12. Len(nw) = n + 2
  <2>1. more \in Seq(D)
    BY <1>9 DEF Enumerates
  <2> QED BY <2>1, <1>6, <1>7, <1>11
<1>13. ASSUME NEW k \in 1..n PROVE nw[k] = cw[k] /\ cw[k] # "LIMIT"
  <2>1. cw[k] = sql[at[k]]
    BY <1>6, <1>10 DEF Reads
  <2>2. k \in DOMAIN more
    BY <1>6, <1>7
  <2>3. nw[k] = new[more[k]]
    BY <2>2, <1>11 DEF Reads
  <2> QED BY <2>1, <2>3, <1>4, <1>6, <1>7
<1>14. nw[n + 1] = "LIMIT" /\ nw[n + 2] = numeral
  <2>1. n + 1 \in DOMAIN more /\ n + 2 \in DOMAIN more
    BY <1>6, <1>7
  <2> QED BY <2>1, <1>4, <1>7, <1>11 DEF Reads
<1> QED BY <1>3, <1>10, <1>12, <1>13, <1>14 DEF Extends, cw, nw, numeral

LEMMA PlaceExtends ==
    ASSUME NEW new, NEW old, NEW x, NEW y, Extends(new, old, x, y), NEW word, word # x, word # y
    PROVE  Place(new, word) = Place(old, word)
<1> DEFINE I == {k \in 1..Len(old) : old[k] = word}
           J == {k \in 1..Len(new) : new[k] = word}
           n == Len(old)
<1>1. Place(old, word) = FirstOne(I) /\ Place(new, word) = FirstOne(J)
  BY DEF Place, SelectInSeq, FirstOne
<1>2. n \in Nat /\ Len(new) = n + 2 /\ new[n + 1] = x /\ new[n + 2] = y /\ \A k \in 1..n : new[k] = old[k]
  BY DEF Extends
<1>3. I \subseteq J
  BY <1>2
<1>4. ASSUME NEW k \in J PROVE k \in I
  <2>1. k \in 1..Len(new) /\ new[k] = word
    OBVIOUS
  <2> HIDE DEF n, I, J
  <2>2. k \in 1..n
    <3>1. k \in 1..n \/ k = n + 1 \/ k = n + 2
      BY <1>2, <2>1
    <3> QED BY <1>2, <2>1, <3>1
  <2> QED BY <1>2, <2>1, <2>2 DEF I, n
<1>5. I = J
  BY <1>3, <1>4
<1> QED BY <1>1, <1>5

LEMMA NoLimitPlace ==
    ASSUME NEW new, NEW old, NEW x, NEW y, Extends(new, old, x, y)
    PROVE  Place(old, "LIMIT") = 0
<1> DEFINE p == Place(old, "LIMIT")
<1>1. old \in Seq(Lexemes) /\ \A k \in 1..Len(old) : old[k] # "LIMIT"
  BY DEF Extends
<1>2. p # 0 => p \in 1..Len(old) /\ old[p] = "LIMIT"
  <2> DEFINE place == Place(old, "LIMIT")
  <2>1. place # 0 => place \in 1..Len(old) /\ old[place] = "LIMIT"
    BY <1>1, PlaceIs
  <2> QED BY <2>1
<1> QED BY <1>1, <1>2

\* The columns of an ORDER are all before the probe.
LEMMA OrderExtends ==
    ASSUME NEW new, NEW old, NEW y, Extends(new, old, "LIMIT", y), NEW o \in 1..Len(old),
           o + 2 <= Len(old), ~Separator(old[Len(old)]), NEW rows
    PROVE  Ordered(rows, new, o) = Ordered(rows, old, o)
<1> DEFINE n == Len(old)
           S(w) == IF o + 4 \in DOMAIN w /\ Separator(w[o + 3]) THEN {w[o + 4]} ELSE {}
<1>1. n \in Nat /\ DOMAIN old = 1..n /\ DOMAIN new = 1..(n + 2) /\ o \in Nat /\ o >= 1 /\ o + 2 <= n
      /\ new[n + 1] = "LIMIT" /\ \A k \in 1..n : new[k] = old[k]
  BY DEF Extends
<1>2. ~Separator("LIMIT")
  BY Zenon DEF Separator
<1>3. new[o + 2] = old[o + 2]
  <2>1. o + 2 \in 1..n
    BY <1>1
  <2> QED BY <2>1, <1>1
<1>4. S(new) = S(old)
  <2>1. CASE o + 4 <= n
    <3>1. o + 3 \in 1..n /\ o + 4 \in 1..n /\ o + 4 \in 1..(n + 2)
      BY <2>1, <1>1
    <3> HIDE DEF n
    <3> QED BY <3>1, <1>1
  <2>2. CASE o + 3 = n
    <3>1. ~(o + 4 \in 1..n) /\ o + 3 \in 1..n
      BY <2>2, <1>1
    <3>2. ~Separator(new[o + 3])
      BY <2>2, <3>1, <1>1
    <3> HIDE DEF n
    <3> QED BY <3>1, <3>2, <1>1
  <2>3. CASE o + 2 = n
    <3>1. ~(o + 4 \in 1..n) /\ o + 3 = n + 1
      BY <2>3, <1>1
    <3>2. ~Separator(new[o + 3])
      BY <3>1, <1>1, <1>2
    <3> HIDE DEF n
    <3> QED BY <3>1, <3>2, <1>1
  <2>4. o + 4 <= n \/ o + 3 = n \/ o + 2 = n
    <3>1. n \in Nat /\ o \in Nat /\ o + 2 <= n
      BY <1>1
    <3> HIDE DEF n
    <3> QED BY <3>1
  <2> QED BY <2>1, <2>2, <2>3, <2>4
<1>5. \A w : Ordered(rows, w, o) = Sorted(rows, w[o + 2], S(w))
  BY Zenon DEF Ordered, Separator
<1> HIDE DEF S
<1> QED BY <1>3, <1>4, <1>5

LEMMA ProbeRows ==
    ASSUME NEW sql, WellFormed(sql), NEW new, NEW a, ProbeClauses(new, sql, a),
           Outer(sql)[1] = "SELECT", Outer(new)[1] = "SELECT", NEW rows, IsRows(rows)
    PROVE  /\ IsRows(Evaluate(sql, rows))
           /\ Evaluate(new, rows) = Window(Evaluate(sql, rows), 0, PROBE_ROW_COUNT)
<1> DEFINE cw == Clauses(sql)
           nw == Clauses(new)
           numeral == ToString(PROBE_ROW_COUNT)
           o == Place(cw, "ORDER")
           p == Place(nw, "LIMIT")
           inner == Apply(rows, Inner(sql))
<1>1. Lexed(sql)
  BY WellFormedIsLexed
<1>2. Extends(nw, cw, "LIMIT", numeral)
  BY <1>1, ProbeExtends
<1>3. p # 0 /\ LimitIs(nw, p, 0, PROBE_ROW_COUNT)
  BY ProbeLimit
<1>4. Inner(new) = Inner(sql)
  BY <1>1, InnerIsSame
<1>5. IsRows(inner)
  BY InnerRows
<1>6. Evaluate(sql, rows) = Apply(inner, cw) /\ Evaluate(new, rows) = Apply(inner, nw)
  BY <1>4, EvaluateIs
<1>7. Place(cw, "LIMIT") = 0
  BY <1>2, NoLimitPlace
<1>8. Place(nw, "ORDER") = o
  <2>1. numeral # "ORDER"
    BY ProbeFacts, NumeralAssumption
  <2> HIDE DEF nw, cw, numeral
  <2> QED BY <1>2, <2>1, PlaceExtends
<1>9. ASSUME o # 0 PROVE Ordered(inner, nw, o) = Ordered(inner, cw, o)
  <2>1. cw \in Seq(Lexemes)
    BY <1>2 DEF Extends
  <2>2. \A k \in DOMAIN cw : cw[k] = "ORDER" => k + 2 <= Len(cw) /\ ~Separator(Last(cw))
    BY Zenon DEF WellFormed, Separator
  <2> HIDE DEF cw, nw, inner, numeral
  <2>3. o \in 1..Len(cw) /\ cw[o] = "ORDER"
    <3> DEFINE place == Place(cw, "ORDER")
    <3>1. place # 0 => place \in 1..Len(cw) /\ cw[place] = "ORDER"
      BY <2>1, PlaceIs
    <3> QED BY <3>1, <1>9
  <2> HIDE DEF o
  <2>4. o + 2 <= Len(cw) /\ ~Separator(cw[Len(cw)])
    BY <2>1, <2>2, <2>3 DEF Last
  <2> QED BY <1>2, <2>3, <2>4, OrderExtends
<1> DEFINE sorted == IF o = 0 THEN inner ELSE Ordered(inner, cw, o)
<1>10. IsRows(sorted)
  <2> HIDE DEF cw, inner, o
  <2> QED BY <1>5, OrderedIs
<1> HIDE DEF cw, nw, inner, o, p, numeral
<1>11. Apply(inner, cw) = sorted
  BY <1>7, Zenon DEF Apply, o
<1>12. Apply(inner, nw) = Limited(sorted, nw, p)
  <2>1. sorted = IF o = 0 THEN inner ELSE Ordered(inner, nw, o)
    BY <1>9
  <2> HIDE DEF sorted
  <2>2. Apply(inner, nw) = IF p = 0 THEN sorted ELSE Limited(sorted, nw, p)
    BY <1>8, <2>1, Zenon DEF Apply, p
  <2> QED BY <2>2, <1>3
<1> HIDE DEF sorted
<1>13. Limited(sorted, nw, p) = Window(sorted, 0, PROBE_ROW_COUNT)
  BY <1>3 DEF LimitIs
<1> QED BY <1>6, <1>10, <1>11, <1>12, <1>13

\* What the policy sends still begins with the word it reads by.
LEMMA FirstReads ==
    ASSUME NEW sql, Lexed(sql), ReadsOne(sql)
    PROVE  Outer(sql)[1] \in Readable /\ Outer(sql)[1] = StatementType(sql)
<1> DEFINE X == ExecutedAt(sql)
           tokens == Tokens(sql)
           S == {tokens[i] : i \in 1..Len(sql)}
           w == Significant(tokens)
<1>1. PICK p \in X : FirstIn(X, p) /\ sql[p] \in Readable
  BY DEF ReadsOne
<1>2. X \in SUBSET (1..Len(sql)) /\ sql \in Seq(Lexemes) /\ Len(sql) \in Nat /\ OuterAt(sql) \subseteq X
  BY ClausesInText, TextFacts
<1>3. w = At(tokens, X)
  BY <1>2, WordsAreRun
<1>4. tokens \in Seq(S) /\ Len(tokens) = Len(sql) /\ \A i \in 1..Len(sql) : tokens[i].raw = sql[i]
  BY TokensAre
<1>5. StatementType(sql) = w[1].raw
  BY DEF StatementType
<1> HIDE DEF S, tokens, w
<1>6. StatementType(sql) = sql[p]
  <2> HIDE DEF X
  <2>1. PICK f, l \in X : Between(w, tokens, X, f, l)
    BY <1>1, <1>2, <1>3, <1>4, AtBetween
  <2>2. FirstIn(X, f) /\ w[1] = tokens[f]
    BY <2>1 DEF Between
  <2>3. f = p
    <3>1. f \in Nat /\ p \in Nat /\ f <= p /\ p <= f
      BY <1>1, <1>2, <2>2 DEF FirstIn
    <3> QED BY <3>1
  <2> QED BY <1>2, <1>4, <1>5, <2>2, <2>3
<1>7. ~IsSemicolon(sql[p]) /\ ~IsParenthesis(sql[p])
  <2>1. \A x \in Readable : ~IsSemicolon(x) /\ ~IsParenthesis(x)
    BY Zenon DEF IsSemicolon, IsParenthesis, Readable
  <2> QED BY <1>1, <2>1
<1>8. p \in OuterAt(sql)
  BY <1>1, <1>7, OuterIs DEF X
<1>9. FirstIn(OuterAt(sql), p)
  BY <1>1, <1>2, <1>8 DEF FirstIn
<1>10. Outer(sql)[1] = sql[p]
  BY <1>8, <1>9, OuterFirst
<1> QED BY <1>1, <1>6, <1>10

LEMMA WindowIs ==
    ASSUME NEW rows, IsRows(rows), NEW n \in Nat
    PROVE  /\ FirstOf(rows, n) = Window(rows, 0, n)
           /\ Len(Window(rows, 0, n)) = Least(n, Len(rows))
           /\ DOMAIN Window(rows, 0, n) = 1..Least(n, Len(rows))
           /\ \A i \in 1..Least(n, Len(rows)) : i \in 1..Len(rows) /\ Window(rows, 0, n)[i] = rows[i]
<1> DEFINE S == ToSet(rows)
           m == Least(n, Len(rows))
           w == SubSeq(rows, 1, m)
<1>1. rows \in Seq(S) /\ Len(rows) \in Nat
  BY DEF IsRows
<1>2. m \in Nat /\ m <= Len(rows)
  BY <1>1 DEF Least
<1>3. FirstOf(rows, n) = w
  BY DEF FirstOf, Least
<1>5. Window(rows, 0, n) = SubSeq(rows, 1, Len(w))
  <2>1. 0 + n = n /\ 0 + 1 = 1
    OBVIOUS
  <2> HIDE DEF w
  <2> QED BY <1>3, <2>1, Zenon DEF Window
<1> HIDE DEF S, m
<1>4. w \in Seq(S) /\ Len(w) = m /\ DOMAIN w = 1..m /\ \A i \in 1..m : i \in 1..Len(rows) /\ w[i] = rows[i]
  BY <1>1, <1>2
<1>6. Window(rows, 0, n) = w
  BY <1>4, <1>5
<1> HIDE DEF w
<1> QED BY <1>3, <1>4, <1>6 DEF m

\* What the policy sends gives the statement's own rows, or the first of them.
Answers(es, ms) == es = ms \/ es = Window(ms, 0, PROBE_ROW_COUNT)

LEMMA ManualRows ==
    ASSUME NEW sql, WellFormed(sql), PrepareManual(sql) # Refused, NEW rows, IsRows(rows),
           NEW new, new = PrepareManual(sql).sql, ~SyntaxError(new)
    PROVE  /\ ~SyntaxError(sql) /\ IsRows(Evaluate(sql, rows))
           /\ Answers(Evaluate(new, rows), Evaluate(sql, rows))
           /\ PrepareManual(sql).maxVisibleRows = MAX_VISIBLE_ROWS
<1>1. Lexed(sql)
  BY WellFormedIsLexed
<1>2. ReadsOne(sql) /\ Balanced(sql)
  <2>1. ValidReadOnly(sql)
    BY ManualIs
  <2> QED BY <2>1, <1>1, ValidReadsOne DEF ValidReadOnly
<1>3. Outer(sql)[1] \in Readable /\ Outer(sql)[1] = StatementType(sql)
  BY <1>1, <1>2, FirstReads
<1>4. IsRows(Apply(rows, Inner(sql)))
  BY InnerRows
<1>5. CASE /\ PrepareManual(sql) = Prepared(sql, MAX_VISIBLE_ROWS)
           /\ StatementType(sql) = "SELECT" =>
                  ReadLimit(sql).kind = "limit" /\ ReadLimit(sql).count <= MAX_VISIBLE_ROWS
  <2>1. new = sql /\ PrepareManual(sql).maxVisibleRows = MAX_VISIBLE_ROWS
    BY <1>5 DEF Prepared
  <2>2. CASE StatementType(sql) = "SELECT"
    <3> DEFINE p == Place(Clauses(sql), "LIMIT")
               count == ReadLimit(sql).count
    <3>1. PICK offset : p # 0 /\ LimitIs(Clauses(sql), p, offset, count)
      BY <1>2, <1>5, <2>2, ExplicitLimit
    <3> HIDE DEF count
    <3>2. IsRows(Apply(Apply(rows, Inner(sql)), Clauses(sql)))
      BY <1>4, <3>1, ApplyIs
    <3>3. IsRows(Evaluate(sql, rows))
      BY <1>3, <2>2, <3>2, EvaluateIs
    <3> QED BY <2>1, <3>3 DEF Answers
  <2>3. CASE StatementType(sql) = "EXPLAIN"
    <3>1. Evaluate(sql, rows) = FirstOf(rows, 1)
      BY <1>3, <2>3 DEF Evaluate
    <3>2. IsRows(FirstOf(rows, 1))
      <4> DEFINE n == 1
                 z == 0
      <4>1. n \in Nat /\ z \in Nat
        OBVIOUS
      <4>2. FirstOf(rows, n) = Window(rows, z, n)
        BY WindowIs
      <4> HIDE DEF n, z
      <4>3. IsRows(FirstOf(rows, n))
        BY <4>1, <4>2, WindowIsBounded
      <4> QED BY <4>3 DEF n
    <3> QED BY <2>1, <3>1, <3>2 DEF Answers
  <2>4. CASE StatementType(sql) \in {"SHOW", "DESC", "DESCRIBE"}
    <3>1. Evaluate(sql, rows) = rows
      BY <1>3, <2>4 DEF Evaluate
    <3> QED BY <2>1, <3>1 DEF Answers
  <2> QED BY <1>3, <2>2, <2>3, <2>4 DEF Readable
<1>6. CASE /\ PrepareManual(sql) = Prepared(AppendProbe(sql), MAX_VISIBLE_ROWS)
           /\ StatementType(sql) = "SELECT" /\ ReadLimit(sql).kind = "none"
  <2>1. new = AppendProbe(sql) /\ PrepareManual(sql).maxVisibleRows = MAX_VISIBLE_ROWS
    BY <1>6 DEF Prepared
  <2>2. PICK a : ProbeClauses(new, sql, a)
    BY <1>2, <1>6, <2>1, ProbeClausesAre
  <2>3. Outer(new)[1] = "SELECT"
    <3>1. PICK f \in OuterAt(sql) : FirstIn(OuterAt(sql), f) /\ sql[f] = "SELECT"
      BY <1>1, <1>2, <1>6, FirstWord DEF ReadsOne
    <3>2. Lexed(new) /\ FirstIn(OuterAt(new), f) /\ new[f] = "SELECT"
      BY <2>2, <3>1 DEF ProbeClauses
    <3> QED BY <3>2, OuterFirst DEF FirstIn
  <2>4. /\ IsRows(Evaluate(sql, rows))
        /\ Evaluate(new, rows) = Window(Evaluate(sql, rows), 0, PROBE_ROW_COUNT)
    BY <1>3, <1>6, <2>2, <2>3, ProbeRows
  <2>5. ~SyntaxError(sql)
    <3>1. \A i \in ClauseAt(sql) : sql[i] # "LIMIT"
      BY <2>2 DEF ProbeClauses
    <3> QED BY <1>1, <3>1, SyntaxIs DEF InOrderOfClauses
  <2> QED BY <2>1, <2>4, <2>5 DEF Answers
<1> QED BY <1>5, <1>6, ManualIs

LEMMA WindowRows ==
    ASSUME NEW es, NEW ms, IsRows(ms), Answers(es, ms)
    PROVE  /\ Len(es) \in Nat /\ DOMAIN es = 1..Len(es)
           /\ Least(Len(es), MAX_VISIBLE_ROWS) = Least(MAX_VISIBLE_ROWS, Len(ms))
           /\ Len(es) > MAX_VISIBLE_ROWS <=> Len(ms) > MAX_VISIBLE_ROWS
           /\ \A i \in 1..Len(es) : es[i] = ms[i] /\ ms[i] \in ToSet(ms)
<1>1. Len(ms) \in Nat /\ DOMAIN ms = 1..Len(ms) /\ \A i \in 1..Len(ms) : ms[i] \in ToSet(ms)
  <2>1. ms \in Seq(ToSet(ms))
    BY DEF IsRows
  <2> QED BY <2>1, SequenceOf
<1>2. PROBE_ROW_COUNT \in Nat /\ MAX_VISIBLE_ROWS \in Nat /\ PROBE_ROW_COUNT = MAX_VISIBLE_ROWS + 1
  BY PolicyAssumption DEF PROBE_ROW_COUNT
<1>3. CASE es = ms
  BY <1>1, <1>2, <1>3 DEF Least
<1>4. CASE es = Window(ms, 0, PROBE_ROW_COUNT)
  <2> DEFINE m == Least(PROBE_ROW_COUNT, Len(ms))
  <2>1. Len(es) = m /\ DOMAIN es = 1..m /\ \A i \in 1..m : i \in 1..Len(ms) /\ es[i] = ms[i]
    BY <1>2, <1>4, WindowIs
  <2>2. /\ m \in Nat /\ Least(m, MAX_VISIBLE_ROWS) = Least(MAX_VISIBLE_ROWS, Len(ms))
        /\ m > MAX_VISIBLE_ROWS <=> Len(ms) > MAX_VISIBLE_ROWS
    BY <1>1, <1>2 DEF Least
  <2> HIDE DEF m
  <2> QED BY <1>1, <2>1, <2>2
<1> QED BY <1>3, <1>4 DEF Answers

AreRows(result, rows, n) ==
    /\ Len(result.rows) = Len(rows)
    /\ \A i \in DOMAIN rows :
          /\ Cardinality(DOMAIN result.rows[i]) = n
          /\ \A c \in DOMAIN result.rows[i] : result.rows[i][c] = Joined(rows[i])

LEMMA WholeShows ==
    ASSUME NEW S, NEW names, UniqueNames(names) \in Seq(S), Len(names) \in Nat,
           Distinct(UniqueNames(names), Len(names)),
           NEW es, NEW ms, IsRows(ms), Answers(es, ms)
    PROVE  LET result == Whole(names, es, MAX_VISIBLE_ROWS)
           IN  /\ AreRows(result, FirstOf(ms, MAX_VISIBLE_ROWS), Len(names))
               /\ result.truncated = (Len(ms) > MAX_VISIBLE_ROWS)
<1> DEFINE max == MAX_VISIBLE_ROWS
           result == Whole(names, es, max)
           m == Least(max, Len(ms))
           l == Least(Len(es), max)
           U == UniqueNames(names)
           first == FirstOf(ms, max)
           r == Seen(names, es, l)
           b == Len(es) > max
<1>0. max \in Nat /\ Len(ms) \in Nat
  BY PolicyAssumption DEF IsRows
<1>1. /\ Len(es) \in Nat /\ l = m /\ (Len(es) > max <=> Len(ms) > max)
      /\ \A i \in 1..Len(es) : es[i] = ms[i]
  BY WindowRows
<1>2. Len(first) = m /\ DOMAIN first = 1..m /\ \A i \in 1..m : first[i] = ms[i]
  <2> DEFINE w == Window(ms, 0, max)
  <2> HIDE DEF max
  <2>1. first = w /\ Len(w) = m /\ DOMAIN w = 1..m /\ \A i \in 1..m : w[i] = ms[i]
    BY <1>0, WindowIs
  <2> HIDE DEF w, first
  <2> QED BY <2>1
<1>3. result.rows = r /\ result.truncated = b
  <2>1. result = Res("after", <<>>, <<>>, Known(names, Len(es)), Heading(names, Len(es)), r, b)
    BY DEF Whole
  <2> HIDE DEF r, b, result
  <2> QED BY <2>1, ResIs DEF Res
<1>4. l \in Nat /\ \A i \in 1..l : i \in 1..Len(es)
  BY <1>0, <1>1 DEF Least
<1> HIDE DEF result, first, l, m, max
<1>5. Len(r) = l
  BY <1>4, SeenFacts
<1>6. ASSUME NEW i \in 1..l
      PROVE  r[i] = RowObject(U, Same(Joined(es[i]), Len(U)))
  <2>1. Len(U) = Len(names)
    BY DEF Distinct
  <2> HIDE DEF U
  <2> QED BY <2>1 DEF Seen, U
<1> HIDE DEF r
<1>7. ASSUME NEW i \in 1..m
      PROVE  /\ Cardinality(DOMAIN r[i]) = Len(names)
             /\ \A c \in DOMAIN r[i] : r[i][c] = Joined(first[i])
  <2> DEFINE J == Joined(es[i])
             o == RowObject(U, Same(J, Len(U)))
  <2>1. i \in 1..l /\ es[i] = first[i]
    BY <1>1, <1>2, <1>4
  <2>2. Len(U) = Len(names) /\ Distinct(U, Len(U))
    BY DEF Distinct
  <2> HIDE DEF U
  <2>3. Cardinality(DOMAIN o) = Len(U) /\ \A c \in DOMAIN o : o[c] = J
    <3> HIDE DEF J
    <3>1. U \in Seq(S)
      BY DEF U
    <3> QED BY <2>2, <3>1, RowHas
  <2>4. r[i] = o
    BY <2>1, <1>6
  <2> HIDE DEF o
  <2> QED BY <2>1, <2>2, <2>3, <2>4
<1>8. AreRows(result, first, Len(names))
  BY <1>1, <1>2, <1>3, <1>5, <1>7 DEF AreRows
<1>9. result.truncated = (Len(ms) > max)
  BY <1>1, <1>3
<1> QED BY <1>8, <1>9 DEF result, first, max

\* What is assumed of the columns and the texts, of one statement.
LEMMA ColumnsAre ==
    ASSUME NEW sql \in Statements
    PROVE  /\ ColumnNames(sql) \in Seq(Names) /\ Len(ColumnNames(sql)) \in Nat
           /\ UniqueNames(ColumnNames(sql)) # <<>>
           /\ Distinct(UniqueNames(ColumnNames(sql)), Len(ColumnNames(sql)))
           /\ \E S : UniqueNames(ColumnNames(sql)) \in Seq(S)
<1> DEFINE names == ColumnNames(sql)
           U == UniqueNames(names)
<1>1. /\ names \in Seq(Names)
      /\ \A base \in Names : \A j, k \in 2..(Len(names) + 1) : Suffixed(base, j) = Suffixed(base, k) => j = k
  BY ColumnsAssumption
<1>2. Len(names) >= 1
  BY DEF ColumnNames
<1> HIDE DEF names
<1>3. Len(names) \in Nat /\ \A i \in 1..Len(names) : names[i] \in Names
  BY <1>1
<1>4. \E S : U \in Seq(S) /\ Distinct(U, Len(names))
  <2>1. \A i \in 1..Len(names) : \A j, k \in 2..(Len(names) + 1) :
            Suffixed(names[i], j) = Suffixed(names[i], k) => j = k
    BY <1>1, <1>3
  <2> QED BY <1>3, <2>1, NamesAreUnique
<1> HIDE DEF U
<1>5. U # <<>>
  <2>1. Len(U) >= 1
    BY <1>2, <1>4 DEF Distinct
  <2> QED BY <2>1
<1> QED BY <1>1, <1>3, <1>4, <1>5 DEF names, U

\* The symbols of a document with these rows.
SymbolsOf(rows) ==
    Tags \cup {FieldTag(n) : n \in Names} \cup {"\n"} \cup {"_", "E"}
        \cup {ToString(row.a) : row \in ToSet(rows)}

LEMMA TwoOf ==
    ASSUME NEW S, NEW a \in S, NEW b \in S
    PROVE  <<a, b>> \in Seq(S)
OBVIOUS

LEMMA TextsAreText ==
    ASSUME NEW sql \in Statements, PrepareManual(sql) # Refused, ~SyntaxError(sql), NEW rows \in Tables
    PROVE  /\ Covers(SymbolsOf(Evaluate(sql, rows))) /\ IsText(NewLine)
           /\ \A row \in ToSet(Evaluate(sql, rows)) : GoodRow(SymbolsOf(Evaluate(sql, rows)), row)
<1> DEFINE ms == Evaluate(sql, rows)
           S == SymbolsOf(ms)
           nl == {"\n"}
           T == nl \cup UNION {ToSet(Text(row)) : row \in ToSet(ms)}
<1>1. T \cap (Tags \cup {FieldTag(n) : n \in Names}) = {}
  BY TextsAssumption
<1> HIDE DEF ms
<1>2. Covers(S)
  BY Zenon DEF Covers, SymbolsOf
<1>3. NewLine \in T
  BY Zenon DEF NewLine
<1>4. ASSUME NEW row \in ToSet(ms) PROVE GoodRow(S, row)
  <2> DEFINE t == Text(row)
  <2>1. "_" \in S /\ "E" \in S /\ ToString(row.a) \in S
    BY Zenon DEF SymbolsOf
  <2> HIDE DEF S
  <2>2. t \in Seq(S)
    <3>1. t = <<"_", "E">> \/ t = <<ToString(row.a)>>
      BY DEF Text
    <3>2. <<"_", "E">> \in Seq(S) /\ <<ToString(row.a)>> \in Seq(S)
      BY <2>1, TwoOf, OneOf, Zenon
    <3> HIDE DEF t
    <3> QED BY <3>1, <3>2, Zenon
  <2>3. ToSet(t) \subseteq T
    OBVIOUS
  <2> HIDE DEF T, t
  <2>4. ASSUME NEW i \in 1..Len(t) PROVE IsText(t[i])
    <3>1. t[i] \in ToSet(t)
      BY <2>2 DEF ToSet
    <3> QED BY <3>1, <2>3, <1>1 DEF IsText
  <2> QED BY <2>2, <2>4 DEF GoodRow, t
<1>5. IsText(NewLine)
  <2> HIDE DEF T
  <2> QED BY <1>1, <1>3 DEF IsText
<1> QED BY <1>2, <1>4, <1>5 DEF ms

\* The user's rows, of a document that is read.
Shows(result, sql, rows) ==
    LET ms == Evaluate(sql, rows)
    IN  /\ AreRows(result, FirstOf(ms, MAX_VISIBLE_ROWS), Len(ColumnNames(sql)))
        /\ result.truncated = (Len(ms) > MAX_VISIBLE_ROWS)

\* What MySQL may write in answer to what was sent.
MayAnswer(data, sql, rows) ==
    \/ data = <<>>
    \/ /\ ~SyntaxError(PrepareManual(sql).sql)
       /\ LET xml == Xml(Evaluate(PrepareManual(sql).sql, rows), ColumnNames(sql))
          IN  \/ data = xml
              \/ \E i \in Cuts(xml) : data = SubSeq(xml, 1, i) \o <<"\n">> \/ data = SubSeq(xml, 1, i)

LEMMA ReadIsShown ==
    ASSUME NEW sql \in Statements, PrepareManual(sql) # Refused, NEW rows \in Tables,
           NEW data, MayAnswer(data, sql, rows),
           NEW result, result = ParseXml(data, PrepareManual(sql).maxVisibleRows), Parsed(result)
    PROVE  Shows(result, sql, rows)
<1> DEFINE new == PrepareManual(sql).sql
           max == PrepareManual(sql).maxVisibleRows
           names == ColumnNames(sql)
           es == Evaluate(new, rows)
           ms == Evaluate(sql, rows)
           xml == Xml(es, names)
           S == SymbolsOf(ms)
<1>1. data # <<>>
  BY NothingIsOpen
<1>2. ~SyntaxError(new) /\ (data = xml \/ \E i \in Cuts(xml) : data = SubSeq(xml, 1, i) \o <<"\n">> \/ data = SubSeq(xml, 1, i))
  BY <1>1, Zenon DEF MayAnswer
<1>3. WellFormed(sql) /\ IsRows(rows)
  BY StatementsAssumption, TablesAssumption DEF IsRows
<1>4. ~SyntaxError(sql) /\ IsRows(ms) /\ Answers(es, ms) /\ max = MAX_VISIBLE_ROWS
  BY <1>2, <1>3, ManualRows
<1>5. Covers(S) /\ IsText(NewLine) /\ \A row \in ToSet(ms) : GoodRow(S, row)
  BY <1>4, TextsAreText
<1>6. /\ names \in Seq(Names) /\ Len(names) \in Nat /\ UniqueNames(names) # <<>>
      /\ Distinct(UniqueNames(names), Len(names)) /\ \E V : UniqueNames(names) \in Seq(V)
  BY ColumnsAre
<1> HIDE DEF new, max, names, es, ms, S
<1>7. Len(es) \in Nat /\ DOMAIN es = 1..Len(es) /\ \A i \in 1..Len(es) : es[i] = ms[i] /\ ms[i] \in ToSet(ms)
  BY <1>4, WindowRows
<1>8. xml \in Seq(S) /\ ParseXml(xml, max) = Whole(names, es, max)
  <2>1. \A i \in 1..Len(es) : GoodRow(S, es[i])
    BY <1>5, <1>7
  <2>2. max \in Nat
    BY <1>4, PolicyAssumption
  <2>3. Documented(es, names, S, max)
    BY <1>5, <1>6, <1>7, <2>1, <2>2, DocumentIs
  <2> QED BY <2>3 DEF Documented
<1> HIDE DEF xml
<1>9. data = xml
  <2> SUFFICES ASSUME NEW i \in Cuts(xml), data = SubSeq(xml, 1, i) \o <<"\n">> \/ data = SubSeq(xml, 1, i)
               PROVE  FALSE
    BY <1>2
  <2>1. "\n" \in S
    BY <1>5 DEF Covers
  <2>2. ~Parsed(ParseXml(SubSeq(xml, 1, i), max)) /\ ~Parsed(ParseXml(SubSeq(xml, 1, i) \o <<"\n">>, max))
    BY <1>5, <1>8, <2>1, CutIsOpen
  <2>3. result = ParseXml(data, max)
    BY DEF max
  <2> QED BY <2>2, <2>3, Zenon
<1>10. result = Whole(names, es, MAX_VISIBLE_ROWS)
  BY <1>4, <1>8, <1>9 DEF max
<1>11. /\ AreRows(result, FirstOf(ms, MAX_VISIBLE_ROWS), Len(names))
       /\ result.truncated = (Len(ms) > MAX_VISIBLE_ROWS)
  <2>1. PICK V : UniqueNames(names) \in Seq(V)
    BY <1>6
  <2> QED BY <1>4, <1>6, <1>10, <2>1, WholeShows
<1> QED BY <1>11 DEF Shows, ms, names

\* What MySQL may have said.
Statuses == {"none", "OK", "sql_error"}

\* What a query that is answered will be shown as.
ShownInv ==
    /\ BoundInv /\ ParserInv /\ PacketInv
    /\ phase # "done" => outcome = "none"
    /\ status \in Statuses
    /\ phase \in {"sent", "reading", "replied"} => prepared # Refused
    /\ manual /\ phase \in {"reading", "replied"} => MayAnswer(body, text, stored)
    /\ phase = "replied" => parser.buffer = body
    /\ manual /\ outcome = "shown" => Shows(shown, text, stored)

LEMMA ShownInitially == Init => ShownInv
<1> SUFFICES ASSUME Init PROVE ShownInv
  OBVIOUS
<1>1. BoundInv /\ ParserInv /\ PacketInv
  BY ParserInitially, PolicyInit DEF Init, BoundInv, PacketInv
<1> QED BY <1>1 DEF Init, ShownInv, Statuses

LEMMA BoundNext == BoundInv /\ [Next]_vars => BoundInv'
<1> SUFFICES ASSUME BoundInv, [Next]_vars PROVE stored' = stored
  BY PolicyStep DEF BoundInv
<1> USE DEF query
<1>1. CASE Prepare
  BY <1>1 DEF Prepare
<1>2. ASSUME NEW n \in 1..MaxChunk, Arrives(n) \/ PacketArrives(n) PROVE stored' = stored
  BY <1>2 DEF Arrives, PacketArrives
<1>3. Ended \/ Execute \/ TooLarge \/ Answer \/ Parse \/ UNCHANGED vars => stored' = stored
  BY DEF Ended, Execute, TooLarge, Answer, Parse, vars
<1> QED BY <1>1, <1>2, <1>3 DEF Next

\* What a statement of the editor is sent as.
LEMMA SentAs ==
    ASSUME BoundInv, manual, prepared # Refused
    PROVE  /\ text \in Statements /\ stored \in Tables
           /\ prepared = PrepareManual(text) /\ PrepareManual(text) # Refused
BY DEF BoundInv, PolicyInv

LEMMA ShownStep ==
    ASSUME NumeralsDiffer, ShownInv, Unmarked, Unmarked', [Next]_vars
    PROVE  ShownInv'
<1> USE DEF query
<1>1. BoundInv /\ ParserInv /\ PacketInv /\ BoundInv' /\ ParserInv' /\ PacketInv'
  BY BoundNext, ParserStep, PacketNext DEF ShownInv
<1> DEFINE Kept ==
        /\ phase # "done" => outcome = "none"
        /\ status \in Statuses
        /\ phase \in {"sent", "reading", "replied"} => prepared # Refused
        /\ manual /\ phase \in {"reading", "replied"} => MayAnswer(body, text, stored)
        /\ phase = "replied" => parser.buffer = body
        /\ manual /\ outcome = "shown" => Shows(shown, text, stored)
<1>2. Kept
  BY DEF ShownInv
<1> SUFFICES Kept'
  BY <1>1 DEF ShownInv
<1>3. CASE UNCHANGED vars
  BY <1>2, <1>3 DEF vars
<1>4. CASE Prepare
  <2>1. /\ phase = "new" /\ UNCHANGED <<text, manual, stored, status, shown>>
        /\ \/ phase' = "done" /\ outcome' = "sql_rejected"
           \/ phase' = "sent" /\ outcome' = outcome /\ prepared' # Refused
    BY <1>4 DEF Prepare, Ends
  <2> QED BY <1>2, <2>1
<1>5. CASE Execute
  <2>1. phase = "sent" /\ phase' = "reading" /\ UNCHANGED <<text, manual, stored, prepared, outcome, shown, parser>>
    BY <1>5 DEF Execute
  <2>2. ASSUME manual PROVE MayAnswer(body', text, stored)
    <3>1. prepared = PrepareManual(text)
      BY <1>1, <1>2, <2>1, <2>2, SentAs
    <3>2. \A xml, category : Output(xml, category) => body' = xml
      BY DEF Output
    <3>3. CASE SyntaxError(prepared.sql)
      <4>1. body' = <<>>
        BY <3>2, <3>3, <1>5, Zenon DEF Execute
      <4> QED BY <4>1 DEF MayAnswer
    <3>4. CASE ~SyntaxError(prepared.sql)
      <4> DEFINE xml == Xml(Evaluate(prepared.sql, stored), ColumnNames(text))
      <4>1. \/ Output(xml, "OK")
            \/ \E i \in Cuts(xml) :
                  Output(SubSeq(xml, 1, i) \o <<"\n">>, "OK") \/ Output(SubSeq(xml, 1, i), "sql_error")
        BY <1>5, <3>4, Zenon DEF Execute
      <4> HIDE DEF xml
      <4>2. body' = xml \/ \E i \in Cuts(xml) : body' = SubSeq(xml, 1, i) \o <<"\n">> \/ body' = SubSeq(xml, 1, i)
        BY <4>1, <3>2, Zenon
      <4> QED BY <4>2, <3>1, <3>4, Zenon DEF MayAnswer, xml
    <3> QED BY <3>3, <3>4
  <2>3. status' \in Statuses
    <3>1. \A xml, category : Output(xml, category) => status' = category
      BY DEF Output
    <3>2. "OK" \in Statuses /\ "sql_error" \in Statuses
      BY DEF Statuses
    <3>3. \E xml, category : Output(xml, category) /\ category \in Statuses
      BY <1>5, <3>2, Zenon DEF Execute
    <3> QED BY <3>1, <3>3, Zenon
  <2> QED BY <1>2, <2>1, <2>2, <2>3
<1>6. ASSUME NEW n \in 1..MaxChunk, Arrives(n) PROVE Kept'
  <2>1. phase = "reading" /\ UNCHANGED <<phase, text, manual, stored, prepared, status, body, outcome, shown>>
    BY <1>6 DEF Arrives
  <2> QED BY <1>2, <2>1
<1>7. CASE TooLarge
  <2>1. /\ phase' = "done" /\ outcome' = "result_too_large" /\ phase = "reading"
        /\ UNCHANGED status
    BY <1>7 DEF TooLarge, Ends
  <2> QED BY <1>2, <2>1
<1>8. CASE Answer
  <2>1. /\ phase = "reading" /\ parser.state # "too_large"
        /\ IF session THEN parser.state = "done" ELSE wire = <<>>
        /\ UNCHANGED <<text, manual, stored, prepared, status, body, parser, shown>>
    BY <1>8 DEF Answer
  <2> DEFINE category == IF session THEN parser.pending[1] ELSE status
  <2>2. \/ phase' = "replied" /\ outcome' = outcome
        \/ category # "OK" /\ phase' = "done" /\ outcome' = category
    BY <1>8, Zenon DEF Answer, Ends
  <2>3. parser.buffer = body
    <3>1. ChunkingIrrelevant
      BY <1>1 DEF ParserInv
    <3> QED BY <2>1, <3>1 DEF ChunkingIrrelevant
  <2>4. category # "shown"
    <3>1. status \in Statuses /\ status # "shown" /\ status # "\n"
      BY <1>2 DEF Statuses
    <3>2. ASSUME session PROVE parser.pending[1] = status
      <4>1. PICK k \in 0..Len(Stream) : Reading(k)
        BY <1>1, <2>1 DEF ParserInv
      <4>5. session = TRUE
        BY <1>1, <3>2 DEF ParserInv
      <4>2. k \in Nat /\ Took(parser, body, status, TRUE, k)
        <5>1. k \in Nat
          BY <1>1 DEF ParserInv
        <5>2. Took(parser, body, status, session, k)
          BY <4>1 DEF Reading
        <5> QED BY <4>5, <5>1, <5>2
      <4>3. UnmarkedOutput(body) /\ parser.state = "done"
        BY <2>1, <3>2 DEF Unmarked
      <4> QED BY <3>1, <4>2, <4>3, TookStatus
    <3> QED BY <3>1, <3>2
  <2> QED BY <1>2, <2>1, <2>2, <2>3, <2>4
<1>9. ASSUME NEW n \in 1..MaxChunk, PacketArrives(n) PROVE Kept'
  <2>1. phase = "replied" /\ UNCHANGED <<phase, text, manual, stored, prepared, status, body, parser, outcome, shown>>
    BY <1>9 DEF PacketArrives
  <2> QED BY <1>2, <2>1
<1>10. CASE Parse
  <2>1. /\ phase = "replied" /\ phase' = "done" /\ UNCHANGED <<text, manual, stored, prepared, status, body, parser, packet>>
        /\ session => packet.state = "done"
        /\ shown' = ParseXml(Stdout, prepared.maxVisibleRows)
        /\ IF Parsed(shown') THEN outcome' = "shown" ELSE outcome' = "parse"
    BY <1>10 DEF Parse, Ends
  <2>2. Stdout = body
    <3>1. CASE session
      <4>1. PICK k \in Nat : Sent(packet, body, wire, k)
        BY <1>1, <2>1, <3>1 DEF PacketInv
      <4>2. body \in Seq(STRING)
        BY DEF Unmarked, UnmarkedOutput
      <4>3. packet.state = "done" => PacketBody(packet) = body
        BY <4>1, <4>2, SentMeans DEF Intact
      <4> QED BY <2>1, <3>1, <4>3 DEF Stdout
    <3>2. CASE ~session
      BY <1>2, <2>1, <3>2 DEF Stdout
    <3> QED BY <3>1, <3>2
  <2>3. ASSUME manual, outcome' = "shown" PROVE Shows(shown', text, stored)
    <3>1. Parsed(shown')
      BY <2>1, <2>3
    <3>2. /\ text \in Statements /\ stored \in Tables
          /\ prepared = PrepareManual(text) /\ PrepareManual(text) # Refused
      BY <1>1, <1>2, <2>1, <2>3, SentAs
    <3>3. shown' = ParseXml(body, PrepareManual(text).maxVisibleRows) /\ MayAnswer(body, text, stored)
      BY <1>2, <2>1, <2>2, <2>3, <3>2
    <3> QED BY <3>1, <3>2, <3>3, ReadIsShown
  <2> QED BY <1>2, <2>1, <2>3
<1>11. CASE Ended
  BY <1>3, <1>11 DEF Ended
<1> QED BY <1>3, <1>4, <1>5, <1>6, <1>7, <1>8, <1>9, <1>10, <1>11 DEF Next

(***************************************************************************)
(* What is shown to a statement of the editor is what the statement itself *)
(* reads: the first MAX_VISIBLE_ROWS of its rows, each with every column   *)
(* under a name of its own, and it is said exactly when there are more     *)
(* (sql-policy.js:144-225, xml-result-parser.js, README.md:136); an output *)
(* that ended early, or was damaged, or came with an error, shows nothing. *)
(* This holds for every set of statements, tables and names, every number  *)
(* of visible rows and every way the bytes are cut, in a session and in a  *)
(* runner of its own.  Assumed: two numbers do not share a numeral, and    *)
(* the end marker does not occur in the output before its end.             *)
(***************************************************************************)
THEOREM RowsAreTheQuerys ==
    ASSUME NumeralsDiffer
    PROVE  Spec /\ []Unmarked => []ShownAreTheQuerys
<1>1. ShownInv /\ Unmarked /\ Unmarked' /\ [Next]_vars => ShownInv'
  BY ShownStep
<1>2. ShownInv => ShownAreTheQuerys
  BY DEF ShownInv, ShownAreTheQuerys, Shows, AreRows, AreShown, UsersRows
<1> QED BY ShownInitially, <1>1, <1>2, PTL DEF Spec
=============================================================================
