-------------------------- MODULE QueryPath_proofs --------------------------
(***************************************************************************)
(* How a result travels, proved for every result that mysql may write, for *)
(* every limit and for every way to cut the stream into chunks.            *)
(*                                                                         *)
(* Of the result it is assumed that it does not hold the end marker, which *)
(* in the code ends in 16 random bytes, and of ToString, which is the      *)
(* decimal notation, that two numbers do not share a numeral.              *)
(*                                                                         *)
(* What crosses the pipe of the adapter is one sequence str, of which the  *)
(* parser has been given the first k symbols.  Held says what the parser   *)
(* is then: what it keeps and what it has buffered are two slices of str.  *)
(* ParseStep, that Held is kept by a chunk of any length, is the core; the *)
(* lemmas before it are about slices, about where a marker stands in them, *)
(* and about the three things a parser does.                               *)
(***************************************************************************)
EXTENDS QueryPath, SequenceTheorems, TLAPS

\* Slice(s, a, b) is what comes after the first a symbols, up to the b-th.
Slice(s, a, b) == SubSeq(s, a + 1, b)

(***************************************************************************)
(* Slices of a sequence.                                                   *)
(***************************************************************************)
LEMMA SliceFacts ==
    ASSUME NEW S, NEW s \in Seq(S), NEW a \in Nat, NEW b \in Nat, a <= b, b <= Len(s)
    PROVE  /\ Slice(s, a, b) \in Seq(S)
           /\ Len(Slice(s, a, b)) = b - a
           /\ \A i \in 1 .. b - a : Slice(s, a, b)[i] = s[a + i]
BY DEF Slice

LEMMA FromFacts ==
    ASSUME NEW S, NEW s \in Seq(S), NEW a \in Nat, a <= Len(s)
    PROVE  From(s, a) = Slice(s, a, Len(s))
BY DEF From, Slice

LEMMA LengthFacts ==
    ASSUME NEW S, NEW s \in Seq(S)
    PROVE  Len(s) \in Nat /\ DOMAIN s = 1..Len(s)
OBVIOUS

LEMMA JoinFacts ==
    ASSUME NEW S, NEW s \in Seq(S), NEW t \in Seq(S)
    PROVE  /\ s \o t \in Seq(S) /\ Len(s \o t) = Len(s) + Len(t)
           /\ \A i \in 1..Len(s) : (s \o t)[i] = s[i]
           /\ \A i \in Len(s) + 1 .. Len(s) + Len(t) : (s \o t)[i] = t[i - Len(s)]
OBVIOUS

LEMMA SameSequence ==
    ASSUME NEW S, NEW s \in Seq(S), NEW t \in Seq(S), Len(s) = Len(t),
           \A i \in 1..Len(s) : s[i] = t[i]
    PROVE  s = t
OBVIOUS

LEMMA SliceOfSlice ==
    ASSUME NEW S, NEW s \in Seq(S), NEW a \in Nat, NEW b \in Nat, a <= b, b <= Len(s),
           NEW c \in Nat, NEW d \in Nat, c <= d, d <= b - a
    PROVE  Slice(Slice(s, a, b), c, d) = Slice(s, a + c, a + d)
<1> DEFINE t == Slice(s, a, b)
           e == a + c
           f == a + d
<1>1. /\ t \in Seq(S) /\ Len(t) = b - a
      /\ \A i \in 1 .. b - a : t[i] = s[a + i]
  BY SliceFacts
<1> HIDE DEF t
<1>2. t \in Seq(S) /\ d <= Len(t)
  BY <1>1
<1>3. /\ Slice(t, c, d) \in Seq(S) /\ Len(Slice(t, c, d)) = d - c
      /\ \A i \in 1 .. d - c : Slice(t, c, d)[i] = t[c + i]
  BY <1>2, SliceFacts
<1>4. e \in Nat /\ f \in Nat /\ e <= f /\ f <= Len(s) /\ f - e = d - c
  BY LengthFacts
<1> HIDE DEF e, f
<1>5. /\ Slice(s, e, f) \in Seq(S) /\ Len(Slice(s, e, f)) = f - e
      /\ \A i \in 1 .. f - e : Slice(s, e, f)[i] = s[e + i]
  BY <1>4, SliceFacts, ZenonT(40)
<1>6. \A i \in 1 .. d - c : Slice(t, c, d)[i] = Slice(s, e, f)[i]
  <2> SUFFICES ASSUME NEW i \in 1 .. d - c
               PROVE  Slice(t, c, d)[i] = Slice(s, e, f)[i]
    OBVIOUS
  <2>1. c + i \in 1 .. b - a /\ a + (c + i) = e + i
    BY DEF e
  <2> QED BY <1>1, <1>3, <1>4, <1>5, <2>1
<1>7. Slice(t, c, d) = Slice(s, e, f)
  BY <1>3, <1>4, <1>5, <1>6, SameSequence
<1> QED BY <1>7 DEF t, e, f

LEMMA SliceJoin ==
    ASSUME NEW S, NEW s \in Seq(S), NEW a \in Nat, NEW b \in Nat, NEW c \in Nat,
           a <= b, b <= c, c <= Len(s)
    PROVE  Slice(s, a, b) \o Slice(s, b, c) = Slice(s, a, c)
<1> DEFINE x == Slice(s, a, b)
           y == Slice(s, b, c)
           z == Slice(s, a, c)
<1>0. Len(s) \in Nat /\ b <= Len(s) /\ a <= c
  BY LengthFacts
<1>1. /\ x \in Seq(S) /\ Len(x) = b - a /\ \A i \in 1 .. b - a : x[i] = s[a + i]
  BY <1>0, SliceFacts, ZenonT(40)
<1>2. /\ y \in Seq(S) /\ Len(y) = c - b /\ \A i \in 1 .. c - b : y[i] = s[b + i]
  BY <1>0, SliceFacts
<1>3. /\ z \in Seq(S) /\ Len(z) = c - a /\ \A i \in 1 .. c - a : z[i] = s[a + i]
  BY <1>0, SliceFacts, ZenonT(40)
<1> HIDE DEF x, y, z
<1>4. /\ x \o y \in Seq(S) /\ Len(x \o y) = c - a
      /\ \A i \in 1 .. b - a : (x \o y)[i] = x[i]
      /\ \A i \in b - a + 1 .. c - a : (x \o y)[i] = y[i - (b - a)]
  <2>1. x \in Seq(S) /\ y \in Seq(S) /\ Len(x) = b - a /\ Len(x) + Len(y) = c - a
    BY <1>1, <1>2
  <2>2. /\ x \o y \in Seq(S) /\ Len(x \o y) = Len(x) + Len(y)
        /\ \A i \in 1..Len(x) : (x \o y)[i] = x[i]
        /\ \A i \in Len(x) + 1 .. Len(x) + Len(y) : (x \o y)[i] = y[i - Len(x)]
    BY <2>1, JoinFacts
  <2> QED BY <2>1, <2>2
<1>5. \A i \in 1 .. c - a : (x \o y)[i] = z[i]
  <2> SUFFICES ASSUME NEW i \in 1 .. c - a PROVE (x \o y)[i] = z[i]
    OBVIOUS
  <2>1. CASE i <= b - a
    BY <1>1, <1>3, <1>4, <2>1
  <2>2. CASE i > b - a
    <3> DEFINE j == i - (b - a)
    <3>1. j \in 1 .. c - b /\ b + j = a + i
      BY <2>2
    <3>2. (x \o y)[i] = y[j]
      BY <1>4, <2>2
    <3> HIDE DEF j
    <3>3. y[j] = s[b + j]
      BY <1>2, <3>1
    <3>4. z[i] = s[a + i]
      BY <1>3
    <3> QED BY <3>1, <3>2, <3>3, <3>4
  <2>3. i <= b - a \/ i > b - a
    OBVIOUS
  <2> QED BY <2>1, <2>2, <2>3, Zenon
<1>6. x \o y = z
  BY <1>3, <1>4, <1>5, SameSequence
<1> QED BY <1>6 DEF x, y, z

\* The chunk of n symbols after the first k, and what is left.
LEMMA ChunkFacts ==
    ASSUME NEW S, NEW s \in Seq(S), NEW k \in Nat, NEW n \in Nat, k + n <= Len(s)
    PROVE  /\ SubSeq(From(s, k), 1, n) = Slice(s, k, k + n)
           /\ From(From(s, k), n) = From(s, k + n)
           /\ Len(From(s, k)) = Len(s) - k
<1> DEFINE l == Len(s)
           t == Slice(s, k, l)
<1>1. /\ l \in Nat /\ k <= l /\ k + n \in Nat /\ k + n <= l /\ n <= l - k
      /\ l - k \in Nat /\ k + 0 = k /\ k + (l - k) = l /\ 0 <= n
  BY LengthFacts
<1>2. From(s, k) = t /\ From(s, k + n) = Slice(s, k + n, l)
  BY <1>1, FromFacts
<1>3. t \in Seq(S) /\ Len(t) = l - k
  <2>1. l <= Len(s)
    BY <1>1
  <2> HIDE DEF l
  <2> QED BY <1>1, <2>1, SliceFacts
<1>4. SubSeq(t, 1, n) = Slice(t, 0, n)
  BY DEF Slice
<1>5. From(t, n) = Slice(t, n, l - k)
  <2> HIDE DEF t, l
  <2> QED BY <1>1, <1>3, FromFacts
<1>6. Slice(t, 0, n) = Slice(s, k + 0, k + n)
  <2> HIDE DEF l
  <2> QED BY <1>1, SliceOfSlice DEF l
<1>7. Slice(t, n, l - k) = Slice(s, k + n, k + (l - k))
  BY <1>1, SliceOfSlice
<1> HIDE DEF t, l
<1>8. SubSeq(From(s, k), 1, n) = Slice(s, k, k + n)
  BY <1>1, <1>2, <1>4, <1>6
<1>9. From(From(s, k), n) = From(s, k + n)
  BY <1>1, <1>2, <1>5, <1>7
<1> QED BY <1>2, <1>3, <1>8, <1>9 DEF l

(***************************************************************************)
(* indexOf, and what is kept of a stream in which a marker may have begun. *)
(***************************************************************************)
\* The mark stands in s after the first i symbols.
StandsAt(mark, s, i) ==
    i + Len(mark) <= Len(s) /\ \A x \in 1..Len(mark) : s[i + x] = mark[x]

LEMMA PrefixStands ==
    ASSUME NEW S, NEW s \in Seq(S), NEW mark \in Seq(S), NEW i \in Nat, i <= Len(s)
    PROVE  IsPrefix(mark, From(s, i)) <=> StandsAt(mark, s, i)
<1> DEFINE t == From(s, i)
           m == Len(mark)
           l == Len(s)
<1>1. l \in Nat /\ m \in Nat /\ l <= Len(s)
  BY LengthFacts
<1>2. /\ t \in Seq(S) /\ Len(t) = l - i
      /\ \A x \in 1 .. l - i : t[x] = s[i + x]
  <2>1. t = Slice(s, i, l)
    BY FromFacts
  <2> HIDE DEF t
  <2>2. i <= l
    OBVIOUS
  <2> HIDE DEF l
  <2>3. /\ Slice(s, i, l) \in Seq(S) /\ Len(Slice(s, i, l)) = l - i
        /\ \A x \in 1 .. l - i : Slice(s, i, l)[x] = s[i + x]
    BY <1>1, <2>2, SliceFacts
  <2> QED BY <2>1, <2>3
<1> HIDE DEF t
<1>3. IsPrefix(mark, t) <=> m <= Len(t) /\ \A x \in 1..m : mark[x] = t[x]
  BY <1>2 DEF IsPrefix
<1>4. m <= Len(t) => \A x \in 1..m : t[x] = s[i + x]
  BY <1>1, <1>2
<1>5. m <= Len(t) <=> i + m <= l
  BY <1>1, <1>2
<1> QED BY <1>3, <1>4, <1>5 DEF StandsAt, t

LEMMA IndexFound ==
    ASSUME NEW S, NEW s \in Seq(S), NEW mark \in Seq(S), Len(mark) > 0, NEW i \in Nat,
           StandsAt(mark, s, i), \A j \in 0 .. i - 1 : ~StandsAt(mark, s, j)
    PROVE  IndexOf(s, mark) = i + 1
<1> DEFINE found == {j \in DOMAIN s : IsPrefix(mark, From(s, j - 1))}
<1>1. found = {j \in 1..Len(s) : StandsAt(mark, s, j - 1)}
  BY PrefixStands
<1>2. i + 1 \in 1..Len(s) /\ i + 1 - 1 = i
  BY LengthFacts DEF StandsAt
<1>3. i + 1 \in found
  BY <1>1, <1>2
<1>4. \A j \in found : i + 1 <= j
  <2> SUFFICES ASSUME NEW j \in found, ~(i + 1 <= j) PROVE FALSE
    OBVIOUS
  <2>1. j \in 1..Len(s) /\ StandsAt(mark, s, j - 1)
    BY <1>1
  <2> HIDE DEF found
  <2>2. j - 1 \in 0 .. i - 1
    BY <2>1
  <2> QED BY <2>1, <2>2
<1>5. \A j \in found : (\A l \in found : j <= l) => j = i + 1
  BY <1>1, <1>3, <1>4
<1> HIDE DEF found
<1>6. (CHOOSE j \in found : \A l \in found : j <= l) = i + 1
  BY <1>3, <1>4, <1>5
<1>7. found # {}
  BY <1>3
<1> QED BY <1>6, <1>7 DEF IndexOf, found

LEMMA IndexNone ==
    ASSUME NEW S, NEW s \in Seq(S), NEW mark \in Seq(S),
           \A j \in 0 .. Len(s) - 1 : ~StandsAt(mark, s, j)
    PROVE  IndexOf(s, mark) = 0
<1>1. {j \in DOMAIN s : IsPrefix(mark, From(s, j - 1))} = {}
  <2> SUFFICES ASSUME NEW j \in 1..Len(s), IsPrefix(mark, From(s, j - 1)) PROVE FALSE
    BY LengthFacts
  <2>1. j - 1 \in 0 .. Len(s) - 1 /\ j - 1 \in Nat /\ j - 1 <= Len(s)
    BY LengthFacts
  <2>2. StandsAt(mark, s, j - 1)
    BY <2>1, PrefixStands
  <2> QED BY <2>1, <2>2
<1> QED BY <1>1 DEF IndexOf

LEMMA StandsInSlice ==
    ASSUME NEW S, NEW s \in Seq(S), NEW mark \in Seq(S),
           NEW a \in Nat, NEW b \in Nat, a <= b, b <= Len(s), NEW i \in Nat
    PROVE  StandsAt(mark, Slice(s, a, b), i) <=>
              a + i + Len(mark) <= b /\ StandsAt(mark, s, a + i)
<1> DEFINE t == Slice(s, a, b)
           m == Len(mark)
<1>1. /\ t \in Seq(S) /\ Len(t) = b - a /\ \A x \in 1 .. b - a : t[x] = s[a + x]
  BY SliceFacts
<1>2. m \in Nat /\ Len(s) \in Nat
  BY LengthFacts
<1> HIDE DEF t
<1>3. i + m <= Len(t) <=> a + i + m <= b
  BY <1>1, <1>2
<1>4. a + i + m <= b => \A x \in 1..m : t[i + x] = s[a + i + x]
  <2> SUFFICES ASSUME a + i + m <= b, NEW x \in 1..m
               PROVE  t[i + x] = s[a + i + x]
    OBVIOUS
  <2>1. i + x \in 1 .. b - a /\ a + (i + x) = a + i + x
    BY <1>2
  <2> QED BY <1>1, <2>1
<1>5. a + i + m <= b => a + i + m <= Len(s)
  BY <1>2
<1> QED BY <1>3, <1>4, <1>5 DEF StandsAt, t

LEMMA KeepFacts ==
    ASSUME NEW S, NEW s \in Seq(S), NEW mark \in Seq(S), Len(mark) > 0,
           NEW a \in Nat, NEW b \in Nat, a <= b, b <= Len(s)
    PROVE  LET keep == Len(mark) - 1
           IN  KeepOf(Slice(s, a, b), mark) =
                  Slice(s, IF b - a > keep THEN b - keep ELSE a, b)
<1> DEFINE t == Slice(s, a, b)
           keep == Len(mark) - 1
           c == b - a - keep
           d == b - a
<1>1. t \in Seq(S) /\ Len(t) = d
  BY SliceFacts
<1>2. keep \in Nat
  BY LengthFacts
<1>3. CASE b - a > keep
  <2>1. /\ c \in Nat /\ d \in Nat /\ c <= d /\ d <= b - a
        /\ a + c = b - keep /\ a + d = b /\ d - keep = c
    BY <1>2, <1>3
  <2>2. c <= Len(t)
    BY <1>1, <2>1
  <2> HIDE DEF c, d, keep
  <2>3. Slice(t, c, d) = Slice(s, a + c, a + d)
    BY <2>1, SliceOfSlice
  <2> HIDE DEF t
  <2>4. From(t, c) = Slice(t, c, Len(t))
    BY <1>1, <2>1, <2>2, FromFacts
  <2>5. From(t, Len(t) - keep) = Slice(s, b - keep, b)
    BY <1>1, <2>1, <2>3, <2>4
  <2>6. Len(t) > keep
    BY <1>1, <1>3 DEF d
  <2>7. KeepOf(t, mark) = From(t, Len(t) - keep)
    BY <2>6 DEF KeepOf, keep
  <2> QED BY <1>3, <2>5, <2>7 DEF t, keep
<1>4. CASE ~(b - a > keep)
  BY <1>1, <1>4 DEF KeepOf
<1> QED BY <1>3, <1>4

(***************************************************************************)
(* The output of the adapter: n symbols between the start marker and the   *)
(* end marker, which begins nowhere before, and, for a session, a tail of  *)
(* six, the status line.                                                   *)
(***************************************************************************)
Marks(S) ==
    /\ StartMarker \in Seq(S) /\ Len(StartMarker) = 4
    /\ EndMarker \in Seq(S) /\ Len(EndMarker) = 3
    /\ ResultPrefix \in Seq(S) /\ Len(ResultPrefix) = 3
    /\ <<"\n">> \in Seq(S) /\ Len(<<"\n">>) = 1 /\ <<"\n">>[1] = "\n"

Carries(S, str, n, tail) ==
    /\ str \in Seq(S) /\ n \in Nat /\ tail \in {0, 6} /\ Len(str) = 7 + n + tail
    /\ StandsAt(StartMarker, str, 0)
    /\ StandsAt(EndMarker, str, 4 + n) /\ \A i \in 0 .. n - 1 : ~StandsAt(EndMarker, str, 4 + i)
    /\ tail = 6 => /\ ~StandsAt(ResultPrefix, str, 7 + n) /\ StandsAt(ResultPrefix, str, 8 + n)
                   /\ str[13 + n] = "\n"

\* The end marker in what is left when b symbols of the body are flushed.
LEMMA EndFound ==
    ASSUME NEW S, NEW str, NEW n, NEW tail, Marks(S), Carries(S, str, n, tail),
           NEW b \in 0..n, NEW k \in Nat, 7 + n <= k, k <= Len(str)
    PROVE  IndexOf(Slice(str, 4 + b, k), EndMarker) = n - b + 1
<1> DEFINE a == 4 + b
           i == n - b
           t == Slice(str, a, k)
<1>1. /\ str \in Seq(S) /\ n \in Nat /\ EndMarker \in Seq(S) /\ Len(EndMarker) = 3
      /\ StandsAt(EndMarker, str, 4 + n) /\ \A x \in 0 .. n - 1 : ~StandsAt(EndMarker, str, 4 + x)
  BY DEF Marks, Carries
<1>2. a \in Nat /\ i \in Nat /\ a <= k /\ a + i = 4 + n /\ a + i + 3 <= k
  BY <1>1
<1>3. \A x \in 0 .. i - 1 : x \in Nat /\ ~StandsAt(EndMarker, str, a + x)
  <2> SUFFICES ASSUME NEW x \in 0 .. i - 1 PROVE x \in Nat /\ ~StandsAt(EndMarker, str, a + x)
    OBVIOUS
  <2>1. b + x \in 0 .. n - 1 /\ a + x = 4 + (b + x) /\ x \in Nat
    BY <1>1
  <2> QED BY <1>1, <2>1
<1> HIDE DEF a, i
<1>4. t \in Seq(S)
  BY <1>1, <1>2, SliceFacts
<1>5. \A x \in Nat : StandsAt(EndMarker, t, x) <=> a + x + 3 <= k /\ StandsAt(EndMarker, str, a + x)
  BY <1>1, <1>2, StandsInSlice
<1> HIDE DEF t
<1>6. StandsAt(EndMarker, t, i)
  BY <1>1, <1>2, <1>5
<1>7. \A x \in 0 .. i - 1 : ~StandsAt(EndMarker, t, x)
  BY <1>3, <1>5
<1>8. Len(EndMarker) > 0
  BY <1>1
<1>9. IndexOf(t, EndMarker) = i + 1
  BY <1>1, <1>2, <1>4, <1>6, <1>7, <1>8, IndexFound
<1> QED BY <1>9 DEF t, a, i

LEMMA EndNotFound ==
    ASSUME NEW S, NEW str, NEW n, NEW tail, Marks(S), Carries(S, str, n, tail),
           NEW b \in 0..n, NEW k \in Nat, 4 + b <= k, k < 7 + n
    PROVE  IndexOf(Slice(str, 4 + b, k), EndMarker) = 0
<1> DEFINE a == 4 + b
           t == Slice(str, a, k)
<1>1. /\ str \in Seq(S) /\ n \in Nat /\ EndMarker \in Seq(S) /\ Len(EndMarker) = 3
      /\ \A x \in 0 .. n - 1 : ~StandsAt(EndMarker, str, 4 + x)
  BY DEF Marks, Carries
<1>2. a \in Nat /\ a <= k /\ k <= Len(str) /\ str \in Seq(S)
  BY DEF Carries
<1>3. \A x \in Nat : a + x + 3 <= k => ~StandsAt(EndMarker, str, a + x)
  <2> SUFFICES ASSUME NEW x \in Nat, a + x + 3 <= k PROVE ~StandsAt(EndMarker, str, a + x)
    OBVIOUS
  <2>1. b + x \in 0 .. n - 1 /\ a + x = 4 + (b + x)
    BY <1>1
  <2> QED BY <1>1, <2>1
<1> HIDE DEF a
<1>4. t \in Seq(S)
  BY <1>2, SliceFacts
<1>5. \A x \in Nat : StandsAt(EndMarker, t, x) <=> a + x + 3 <= k /\ StandsAt(EndMarker, str, a + x)
  BY <1>1, <1>2, StandsInSlice
<1> HIDE DEF t
<1>6. \A x \in 0 .. Len(t) - 1 : ~StandsAt(EndMarker, t, x)
  BY <1>3, <1>5
<1>7. IndexOf(t, EndMarker) = 0
  BY <1>1, <1>4, <1>6, IndexNone
<1> QED BY <1>7 DEF t, a

Keeps(p, state, pending, buffer) ==
    p = [state |-> state, pending |-> pending, buffer |-> buffer]

\* What is flushed is the body, what is kept is not longer than two symbols.
InBody(p, str, n, k) ==
    \E b \in 0..n :
       /\ b <= MAX_RESULT_BYTES
       /\ 4 + b <= k /\ k <= 6 + b /\ k < 7 + n
       /\ Keeps(p, "xml", Slice(str, 4 + b, k), Slice(str, 4, 4 + b))

Overflown(p, str, n) ==
    /\ p.state = "too_large" /\ n > MAX_RESULT_BYTES
    /\ \E b \in 0..n : p.buffer = Slice(str, 4, 4 + b)

BodyRead(p, str, n, k, state) ==
    /\ 7 + n <= k /\ n <= MAX_RESULT_BYTES
    /\ Keeps(p, state, Slice(str, 7 + n, k), Slice(str, 4, 4 + n))

LEMMA BufferFacts ==
    ASSUME NEW S, NEW str \in Seq(S), NEW n \in Nat, NEW e \in Nat, NEW f \in Nat,
           4 <= e, e <= f, f <= 4 + n, f <= Len(str), NEW kept, NEW state,
           NEW p, NEW was, NEW rest, Keeps(p, was, rest, Slice(str, 4, e))
    PROVE  /\ f > 4 + MAX_RESULT_BYTES => Overflown(Buffer(p, Slice(str, e, f), kept, state), str, n)
           /\ f <= 4 + MAX_RESULT_BYTES =>
                 Keeps(Buffer(p, Slice(str, e, f), kept, state), state, kept, Slice(str, 4, f))
<1> DEFINE x == Slice(str, 4, e)
           y == Slice(str, e, f)
<1>1. 4 \in Nat /\ e <= Len(str) /\ 4 <= f
  BY LengthFacts
<1>2. Len(x) = e - 4
  BY <1>1, SliceFacts, ZenonT(40)
<1>3. Len(y) = f - e
  BY <1>1, SliceFacts
<1>4. x \o y = Slice(str, 4, f)
  BY <1>1, SliceJoin
<1> HIDE DEF x, y
<1>5. p.buffer = x /\ p = [state |-> was, pending |-> rest, buffer |-> x]
  BY DEF x, Keeps
<1>6. Len(p.buffer) + Len(y) = f - 4 /\ MAX_RESULT_BYTES \in Nat
  BY <1>2, <1>3, <1>5, FramingAssumption
<1>7. ASSUME f > 4 + MAX_RESULT_BYTES
      PROVE  Overflown(Buffer(p, y, kept, state), str, n)
  <2>1. Buffer(p, y, kept, state) = [p EXCEPT !.state = "too_large"]
    BY <1>6, <1>7 DEF Buffer
  <2>2. /\ [p EXCEPT !.state = "too_large"].state = "too_large"
        /\ [p EXCEPT !.state = "too_large"].buffer = x
    BY <1>5
  <2>3. n > MAX_RESULT_BYTES /\ e - 4 \in 0..n /\ 4 + (e - 4) = e
    BY <1>6, <1>7
  <2> QED BY <2>1, <2>2, <2>3 DEF Overflown, x
<1>8. ASSUME f <= 4 + MAX_RESULT_BYTES
      PROVE  Keeps(Buffer(p, y, kept, state), state, kept, x \o y)
  <2>1. ~(Len(p.buffer) + Len(y) > MAX_RESULT_BYTES)
    BY <1>6, <1>8
  <2> QED BY <1>5, <2>1 DEF Buffer, Keeps
<1> QED BY <1>4, <1>7, <1>8 DEF y

LEMMA ReadBodyFacts ==
    ASSUME NEW S, NEW str, NEW n, NEW tail, Marks(S), Carries(S, str, n, tail),
           NEW b \in 0..n, b <= MAX_RESULT_BYTES, NEW k \in Nat, 4 + b <= k, k <= Len(str),
           NEW next,
           NEW p, Keeps(p, "xml", Slice(str, 4 + b, k), Slice(str, 4, 4 + b))
    PROVE  \/ InBody(ReadBody(p, next), str, n, k)
           \/ Overflown(ReadBody(p, next), str, n)
           \/ BodyRead(ReadBody(p, next), str, n, k, next)
<1> DEFINE a == 4 + b
           t == Slice(str, a, k)
           at == IndexOf(t, EndMarker)
           kept == KeepOf(t, EndMarker)
<1>1. /\ str \in Seq(S) /\ n \in Nat /\ 4 + n <= Len(str) /\ b \in Nat /\ a \in Nat /\ a <= k
      /\ MAX_RESULT_BYTES \in Nat /\ EndMarker \in Seq(S) /\ Len(EndMarker) = 3
  BY FramingAssumption DEF Carries, Marks
<1>2. t \in Seq(S) /\ Len(t) = k - a
  BY <1>1, SliceFacts
<1>3. /\ p.state = "xml" /\ p.pending = t
      /\ Keeps(p, "xml", t, Slice(str, 4, a))
  BY DEF Keeps
<1>4. CASE 7 + n <= k
  <2> DEFINE i == n - b
  <2>1. at = i + 1
    BY <1>4, EndFound
  <2>2. /\ i \in Nat /\ 0 <= i /\ i <= k - a /\ i + 3 \in Nat /\ i + 3 <= k - a /\ k - a \in Nat
        /\ a + 0 = a /\ a + i = 4 + n /\ a + (i + 3) = 7 + n /\ a + (k - a) = k
        /\ i + 1 - 1 = i /\ i + 1 # 0
    BY <1>1, <1>4
  <2> HIDE DEF i, at
  <2>3. SubSeq(t, 1, at - 1) = Slice(str, a, 4 + n)
    <3>1. Slice(t, 0, i) = Slice(str, a + 0, a + i)
      BY <1>1, <2>2, SliceOfSlice
    <3> HIDE DEF t, a
    <3>2. SubSeq(t, 1, at - 1) = Slice(t, 0, i)
      BY <2>1, <2>2 DEF Slice
    <3> QED BY <2>2, <3>1, <3>2
  <2>4. From(t, at - 1 + Len(EndMarker)) = Slice(str, 7 + n, k)
    <3> DEFINE e == i + 3
               d == k - a
    <3>0. e \in Nat /\ d \in Nat /\ e <= d /\ d <= k - a /\ a + e = 7 + n /\ a + d = k
      BY <2>2
    <3> HIDE DEF e, d
    <3>1. Slice(t, e, d) = Slice(str, a + e, a + d)
      BY <1>1, <3>0, SliceOfSlice
    <3> HIDE DEF t, a
    <3>2. e <= Len(t) /\ d = Len(t)
      BY <1>2, <3>0 DEF d
    <3>3. From(t, e) = Slice(t, e, Len(t))
      BY <1>2, <3>0, <3>2, FromFacts
    <3>4. at - 1 + Len(EndMarker) = e
      BY <1>1, <2>1, <2>2 DEF e
    <3> QED BY <3>0, <3>1, <3>2, <3>3, <3>4
  <2> DEFINE rest == Slice(str, 7 + n, k)
  <2>5. ReadBody(p, next) = Buffer(p, Slice(str, a, 4 + n), rest, next)
    <3>1. at # 0
      BY <2>1, <2>2
    <3> HIDE DEF a, t, rest
    <3>2. ReadBody(p, next) = Buffer(p, SubSeq(t, 1, at - 1), From(t, at - 1 + Len(EndMarker)), next)
      BY <1>3, <3>1 DEF ReadBody, at
    <3> QED BY <2>3, <2>4, <3>2 DEF rest
  <2> HIDE DEF rest
  <2>7. /\ n > MAX_RESULT_BYTES => Overflown(Buffer(p, Slice(str, a, 4 + n), rest, next), str, n)
        /\ n <= MAX_RESULT_BYTES =>
              Keeps(Buffer(p, Slice(str, a, 4 + n), rest, next), next, rest, Slice(str, 4, 4 + n))
    <3> DEFINE f == 4 + n
    <3>1. /\ f \in Nat /\ 4 <= a /\ a <= f /\ f <= 4 + n /\ f <= Len(str)
          /\ n > MAX_RESULT_BYTES => f > 4 + MAX_RESULT_BYTES
          /\ n <= MAX_RESULT_BYTES => f <= 4 + MAX_RESULT_BYTES
      BY <1>1
    <3> HIDE DEF a, f, t
    <3>2. /\ f > 4 + MAX_RESULT_BYTES => Overflown(Buffer(p, Slice(str, a, f), rest, next), str, n)
          /\ f <= 4 + MAX_RESULT_BYTES =>
                Keeps(Buffer(p, Slice(str, a, f), rest, next), next, rest, Slice(str, 4, f))
      BY <1>1, <1>3, <3>1, BufferFacts
    <3> QED BY <3>1, <3>2 DEF f
  <2>8. n > MAX_RESULT_BYTES \/ n <= MAX_RESULT_BYTES
    BY <1>1
  <2> QED BY <1>4, <2>5, <2>7, <2>8 DEF BodyRead, rest
<1>5. CASE ~(7 + n <= k)
  <2> DEFINE c == IF k - a > 2 THEN k - 6 ELSE b
             rest == Slice(str, 4 + c, k)
  <2>1. k < 7 + n
    BY <1>1, <1>5
  <2>2. at = 0
    BY <2>1, EndNotFound
  <2>3. /\ c \in b..n /\ c \in 0..n /\ c \in Nat /\ k <= 6 + c /\ 4 + c <= k /\ 4 + c \in Nat
        /\ 4 + c = (IF k - a > 2 THEN k - 2 ELSE a)
        /\ c - b \in Nat /\ 0 <= c - b /\ c - b <= k - a /\ a + 0 = a /\ a + (c - b) = 4 + c
    BY <1>1, <2>1
  <2>4. kept = rest
    <3>1. Len(EndMarker) > 0 /\ Len(EndMarker) - 1 = 2
      BY <1>1
    <3>2. kept = Slice(str, IF k - a > 2 THEN k - 2 ELSE a, k)
      <4> DEFINE keep == Len(EndMarker) - 1
      <4> HIDE DEF a
      <4>1. KeepOf(Slice(str, a, k), EndMarker) = Slice(str, IF k - a > keep THEN k - keep ELSE a, k)
        BY <1>1, <3>1, KeepFacts
      <4>2. keep = 2
        BY <3>1
      <4> QED BY <4>1, <4>2
    <3> HIDE DEF c
    <3> QED BY <2>3, <3>2
  <2> HIDE DEF c
  <2>5. Len(kept) = k - (4 + c)
    BY <1>1, <2>3, <2>4, SliceFacts
  <2>6. SubSeq(t, 1, Len(t) - Len(kept)) = Slice(str, a, 4 + c)
    <3>1. Slice(t, 0, c - b) = Slice(str, a + 0, a + (c - b))
      BY <1>1, <2>3, SliceOfSlice
    <3>2. Len(t) - Len(kept) = c - b
      BY <1>1, <1>2, <2>3, <2>5
    <3> HIDE DEF t, kept
    <3>3. SubSeq(t, 1, Len(t) - Len(kept)) = Slice(t, 0, c - b)
      BY <3>2 DEF Slice
    <3> QED BY <2>3, <3>1, <3>3
  <2>7. ReadBody(p, next) = Buffer(p, Slice(str, a, 4 + c), rest, "xml")
    <3> HIDE DEF a, t, rest
    <3>1. ReadBody(p, next) = Buffer(p, SubSeq(t, 1, Len(t) - Len(kept)), kept, "xml")
      BY <1>3, <2>2 DEF ReadBody
    <3> QED BY <2>4, <2>6, <3>1
  <2>8. /\ c > MAX_RESULT_BYTES => Overflown(Buffer(p, Slice(str, a, 4 + c), rest, "xml"), str, n)
        /\ c <= MAX_RESULT_BYTES =>
              Keeps(Buffer(p, Slice(str, a, 4 + c), rest, "xml"), "xml", rest, Slice(str, 4, 4 + c))
    <3> DEFINE f == 4 + c
    <3>1. /\ f \in Nat /\ 4 <= a /\ a <= f /\ f <= 4 + n /\ f <= Len(str)
          /\ c > MAX_RESULT_BYTES => f > 4 + MAX_RESULT_BYTES
          /\ c <= MAX_RESULT_BYTES => f <= 4 + MAX_RESULT_BYTES
      BY <1>1, <2>3
    <3> HIDE DEF a, f, t, rest
    <3>2. /\ f > 4 + MAX_RESULT_BYTES => Overflown(Buffer(p, Slice(str, a, f), rest, "xml"), str, n)
          /\ f <= 4 + MAX_RESULT_BYTES =>
                Keeps(Buffer(p, Slice(str, a, f), rest, "xml"), "xml", rest, Slice(str, 4, f))
      BY <1>1, <1>3, <3>1, BufferFacts
    <3> QED BY <3>1, <3>2 DEF f
  <2>9. CASE c > MAX_RESULT_BYTES
    BY <2>7, <2>8, <2>9
  <2>10. CASE c <= MAX_RESULT_BYTES
    <3>1. Keeps(ReadBody(p, next), "xml", Slice(str, 4 + c, k), Slice(str, 4, 4 + c))
      BY <2>7, <2>8, <2>10
    <3> QED BY <2>1, <2>3, <2>10, <3>1 DEF InBody
  <2>11. c > MAX_RESULT_BYTES \/ c <= MAX_RESULT_BYTES
    BY <1>1, <2>3
  <2> QED BY <2>9, <2>10, <2>11
<1> QED BY <1>4, <1>5

\* A line feed is kept or was given up, and nothing of the prefix.
AtResult(p, str, n, tail, k) ==
    \E a \in 7 + n .. 8 + n :
       /\ tail = 6 /\ n <= MAX_RESULT_BYTES
       /\ a <= k /\ k < Len(str)
       /\ Keeps(p, "result", Slice(str, a, k), Slice(str, 4, 4 + n))

\* It is done: of a session's line it has kept the category.
Finished(p, str, n) ==
    /\ p.state = "done" /\ n <= MAX_RESULT_BYTES /\ p.buffer = Slice(str, 4, 4 + n)
    /\ Len(str) = 13 + n /\ str[12 + n] # "\n" => p.pending = <<str[12 + n]>>

LEMMA PrefixFound ==
    ASSUME NEW S, NEW str, NEW n, Marks(S), Carries(S, str, n, 6),
           NEW a \in Nat, 7 + n <= a, a <= 8 + n, NEW k \in Nat, 11 + n <= k, k <= Len(str)
    PROVE  IndexOf(Slice(str, a, k), ResultPrefix) = 9 + n - a
<1> DEFINE i == 8 + n - a
           t == Slice(str, a, k)
<1>1. /\ str \in Seq(S) /\ n \in Nat /\ ResultPrefix \in Seq(S) /\ Len(ResultPrefix) = 3
      /\ StandsAt(ResultPrefix, str, 8 + n) /\ ~StandsAt(ResultPrefix, str, 7 + n)
  BY DEF Marks, Carries
<1>2. /\ i \in Nat /\ a <= k /\ a + i = 8 + n /\ a + i + 3 <= k
      /\ \A x \in 0 .. i - 1 : x \in Nat /\ a + x = 7 + n
      /\ i + 1 = 9 + n - a
  BY <1>1
<1> HIDE DEF i
<1>3. t \in Seq(S)
  BY <1>1, <1>2, SliceFacts
<1>4. \A x \in Nat : StandsAt(ResultPrefix, t, x) <=> a + x + 3 <= k /\ StandsAt(ResultPrefix, str, a + x)
  BY <1>1, <1>2, StandsInSlice
<1> HIDE DEF t
<1>5. StandsAt(ResultPrefix, t, i)
  BY <1>1, <1>2, <1>4
<1>6. \A x \in 0 .. i - 1 : ~StandsAt(ResultPrefix, t, x)
  BY <1>1, <1>2, <1>4
<1>7. Len(ResultPrefix) > 0
  BY <1>1
<1>8. IndexOf(t, ResultPrefix) = i + 1
  BY <1>1, <1>2, <1>3, <1>5, <1>6, <1>7, IndexFound
<1> QED BY <1>2, <1>8 DEF t

LEMMA PrefixNotFound ==
    ASSUME NEW S, NEW str, NEW n, Marks(S), Carries(S, str, n, 6),
           NEW a \in Nat, 7 + n <= a, NEW k \in Nat, a <= k, k < 11 + n
    PROVE  IndexOf(Slice(str, a, k), ResultPrefix) = 0
<1> DEFINE t == Slice(str, a, k)
<1>1. /\ str \in Seq(S) /\ n \in Nat /\ ResultPrefix \in Seq(S) /\ Len(ResultPrefix) = 3
      /\ ~StandsAt(ResultPrefix, str, 7 + n)
  BY DEF Marks, Carries
<1>2. k <= Len(str) /\ str \in Seq(S)
  BY DEF Carries
<1>3. \A x \in Nat : a + x + 3 <= k => a + x = 7 + n
  BY <1>1
<1>4. t \in Seq(S)
  BY <1>2, SliceFacts
<1>5. \A x \in Nat : StandsAt(ResultPrefix, t, x) <=> a + x + 3 <= k /\ StandsAt(ResultPrefix, str, a + x)
  BY <1>1, <1>2, StandsInSlice
<1> HIDE DEF t
<1>6. \A x \in 0 .. Len(t) - 1 : ~StandsAt(ResultPrefix, t, x)
  BY <1>1, <1>3, <1>5
<1>7. IndexOf(t, ResultPrefix) = 0
  BY <1>1, <1>4, <1>6, IndexNone
<1> QED BY <1>7 DEF t

\* The line that ends is found: the category and the line feed have come.
LEMMA LineFound ==
    ASSUME NEW S, NEW str, NEW n, Marks(S), Carries(S, str, n, 6)
    PROVE  IndexOf(Slice(str, 11 + n, 13 + n), <<"\n">>) # 0
<1> DEFINE mark == <<"\n">>
           a == 11 + n
           k == 13 + n
           t == Slice(str, a, k)
<1>1. str \in Seq(S) /\ n \in Nat /\ Len(str) = k /\ str[k] = "\n"
  BY DEF Carries
<1>2. mark \in Seq(S) /\ Len(mark) = 1 /\ mark[1] = "\n" /\ Len(mark) > 0
  BY DEF Marks
<1>3. a \in Nat /\ k \in Nat /\ a <= k /\ k <= Len(str) /\ k - a = 2 /\ a + 2 = k
  BY <1>1
<1> HIDE DEF a, k, mark
<1>4. t \in Seq(S) /\ Len(t) = 2 /\ t[2] = "\n"
  <2>1. t \in Seq(S) /\ Len(t) = k - a /\ \A x \in 1 .. k - a : t[x] = str[a + x]
    BY <1>1, <1>3, SliceFacts
  <2> QED BY <1>1, <1>3, <2>1
<1> HIDE DEF t
<1>5. StandsAt(mark, t, 1)
  BY <1>2, <1>4 DEF StandsAt
<1>6. CASE StandsAt(mark, t, 0)
  <2>0. 0 \in Nat /\ \A x \in 0 .. 0 - 1 : ~StandsAt(mark, t, x)
    OBVIOUS
  <2>1. IndexOf(t, mark) = 0 + 1
    BY <1>2, <1>4, <1>6, <2>0, IndexFound, Zenon
  <2> QED BY <2>1 DEF t, a, k, mark
<1>7. CASE ~StandsAt(mark, t, 0)
  <2>1. \A x \in 0 .. 1 - 1 : ~StandsAt(mark, t, x)
    BY <1>7
  <2>2. IndexOf(t, mark) = 1 + 1
    BY <1>2, <1>4, <1>5, <2>1, IndexFound
  <2> QED BY <2>2 DEF t, a, k, mark
<1> QED BY <1>6, <1>7

\* What stands before the line feed is the category.
LEMMA LineRead ==
    ASSUME NEW S, NEW str, NEW n, Marks(S), Carries(S, str, n, 6),
           NEW k \in Nat, 11 + n <= k, k <= Len(str),
           NEW line, line = Slice(str, 11 + n, k),
           IndexOf(line, <<"\n">>) # 0, str[12 + n] # "\n"
    PROVE  SubSeq(line, 1, IndexOf(line, <<"\n">>) - 1) = <<str[12 + n]>>
<1> DEFINE mark == <<"\n">>
           a == 11 + n
           d == k - a
<1>1. str \in Seq(S) /\ n \in Nat /\ Len(str) = 13 + n /\ str[13 + n] = "\n"
  BY DEF Carries
<1>2. mark \in Seq(S) /\ Len(mark) = 1 /\ mark[1] = "\n" /\ Len(mark) > 0
  BY DEF Marks
<1>3. a \in Nat /\ a <= k /\ d \in 0..2 /\ a + 1 = 12 + n /\ a + 2 = 13 + n
  BY <1>1
<1>4. IndexOf(line, mark) # 0
  OBVIOUS
<1> HIDE DEF a, mark
<1>5. line \in Seq(S) /\ Len(line) = d /\ \A x \in 1..d : line[x] = str[a + x]
  <2>1. line = Slice(str, a, k)
    BY DEF a
  <2>2. str \in Seq(S) /\ k \in Nat /\ k <= Len(str)
    BY <1>1
  <2>3. a \in Nat /\ a <= k
    BY <1>3
  <2>4. /\ Slice(str, a, k) \in Seq(S) /\ Len(Slice(str, a, k)) = k - a
        /\ \A x \in 1 .. k - a : Slice(str, a, k)[x] = str[a + x]
    BY <2>2, <2>3, SliceFacts
  <2> QED BY <2>1, <2>4
<1> HIDE DEF d
<1>6. ASSUME 1 <= d PROVE ~StandsAt(mark, line, 0)
  <2>1. 1 \in 1..d /\ line[1] # "\n"
    BY <1>3, <1>5, <1>6
  <2> QED BY <1>2, <2>1 DEF StandsAt
<1>7. d = 2
  <2> SUFFICES ASSUME d # 2 PROVE FALSE
    OBVIOUS
  <2>1. \A j \in 0 .. Len(line) - 1 : ~StandsAt(mark, line, j)
    <3>1. d \in 0..1
      BY <1>3
    <3>2. \A j \in 0 .. Len(line) - 1 : j = 0 /\ 1 <= d
      BY <1>5, <3>1
    <3> QED BY <1>6, <3>2
  <2> QED BY <1>2, <1>4, <1>5, <2>1, IndexNone
<1>8. line[1] = str[12 + n] /\ line[2] = "\n"
  BY <1>1, <1>3, <1>5, <1>7
<1>9. IndexOf(line, mark) = 2
  <2>1. StandsAt(mark, line, 1)
    BY <1>2, <1>5, <1>7, <1>8 DEF StandsAt
  <2>2. \A x \in 0 .. 1 - 1 : ~StandsAt(mark, line, x)
    BY <1>6, <1>7
  <2>3. 1 \in Nat /\ line \in Seq(S) /\ mark \in Seq(S) /\ Len(mark) > 0
    BY <1>2, <1>5
  <2>4. IndexOf(line, mark) = 1 + 1
    BY <2>1, <2>2, <2>3, IndexFound
  <2> QED BY <2>4
<1>10. SubSeq(line, 1, 1) = <<line[1]>>
  <2> DEFINE first == SubSeq(line, 1, 1)
  <2>1. Len(first) = 1 /\ first[1] = line[1]
    BY <1>5, <1>7
  <2>2. first \in Seq(S) /\ line[1] \in S
    BY <1>5, <1>7
  <2> DEFINE only == <<line[1]>>
  <2>3. only \in Seq(S) /\ Len(only) = 1 /\ only[1] = line[1]
    BY <2>2
  <2> HIDE DEF first, only
  <2>4. first = only
    BY <2>1, <2>2, <2>3, SameSequence
  <2> QED BY <2>4 DEF first, only
<1> QED BY <1>8, <1>9, <1>10 DEF mark

LEMMA ReadStatusFacts ==
    ASSUME NEW S, NEW str, NEW n, Marks(S), Carries(S, str, n, 6), n <= MAX_RESULT_BYTES,
           NEW a \in Nat, 7 + n <= a, a <= 8 + n, NEW k \in Nat, a <= k, k <= Len(str),
           NEW p, Keeps(p, "result", Slice(str, a, k), Slice(str, 4, 4 + n))
    PROVE  AtResult(ReadStatus(p), str, n, 6, k) \/ Finished(ReadStatus(p), str, n)
<1> DEFINE t == Slice(str, a, k)
           at == IndexOf(t, ResultPrefix)
           line == From(t, at - 1 + Len(ResultPrefix))
           newline == IndexOf(line, <<"\n">>)
           read == Slice(str, 4, 4 + n)
<1>1. /\ str \in Seq(S) /\ n \in Nat /\ Len(str) = 13 + n
      /\ ResultPrefix \in Seq(S) /\ Len(ResultPrefix) = 3
  BY DEF Carries, Marks
<1>2. t \in Seq(S) /\ Len(t) = k - a
  BY <1>1, SliceFacts
<1>3. /\ p = [state |-> "result", pending |-> t, buffer |-> read]
      /\ p.state = "result" /\ p.pending = t
  BY DEF Keeps
<1>4. CASE 11 + n <= k
  <2>1. at = 9 + n - a
    BY <1>4, PrefixFound
  <2>2. at # 0
    BY <1>1, <2>1
  <2>5. line = Slice(str, 11 + n, k)
    <3> DEFINE e == 11 + n - a
               d == k - a
    <3>1. /\ e \in Nat /\ d \in Nat /\ e <= d /\ d <= k - a /\ a + e = 11 + n /\ a + d = k
      BY <1>1, <1>4
    <3>0. str \in Seq(S)
      BY <1>1
    <3>2. at - 1 + Len(ResultPrefix) = e
      BY <1>1, <2>1
    <3> HIDE DEF e, d
    <3>3. Slice(t, e, d) = Slice(str, a + e, a + d)
      BY <3>0, <3>1, SliceOfSlice
    <3> HIDE DEF t
    <3>4. e <= Len(t) /\ d = Len(t)
      BY <1>2, <3>1 DEF d
    <3>5. From(t, e) = Slice(t, e, Len(t))
      BY <1>2, <3>1, <3>4, FromFacts
    <3> QED BY <3>1, <3>2, <3>3, <3>4, <3>5
  <2> HIDE DEF at
  <2>3. CASE newline # 0
    <3>1. ReadStatus(p) = [p EXCEPT !.pending = SubSeq(line, 1, newline - 1), !.state = "done"]
      <4> HIDE DEF t, read, line, newline
      <4> QED BY <1>3, <2>2, <2>3 DEF ReadStatus, at, line, newline
    <3> HIDE DEF t, read, line, newline
    <3>2. /\ ReadStatus(p).state = "done" /\ ReadStatus(p).buffer = read
          /\ ReadStatus(p).pending = SubSeq(line, 1, newline - 1)
      BY <1>3, <3>1
    <3>3. str[12 + n] # "\n" => SubSeq(line, 1, newline - 1) = <<str[12 + n]>>
      <4>1. IndexOf(line, <<"\n">>) # 0
        BY <2>3 DEF newline
      <4> HIDE DEF newline
      <4> QED BY <1>4, <2>5, <4>1, LineRead DEF newline
    <3> QED BY <3>2, <3>3 DEF Finished, read
  <2>4. CASE newline = 0
    <3>1. ReadStatus(p) = p
      <4> HIDE DEF t, read, line, newline
      <4> QED BY <1>3, <2>2, <2>4 DEF ReadStatus, at, line, newline
    <3>3. k # 13 + n
      <4> HIDE DEF line
      <4> QED BY <2>4, <2>5, LineFound
    <3>4. k < Len(str)
      BY <1>1, <3>3
    <3> QED BY <3>1, <3>4 DEF AtResult
  <2> QED BY <2>3, <2>4
<1>5. CASE ~(11 + n <= k)
  <2> DEFINE kept == KeepOf(t, ResultPrefix)
             l == IF k - a > 2 THEN k - 2 ELSE a
  <2>1. k < 11 + n
    BY <1>1, <1>5
  <2>2. at = 0
    BY <2>1, PrefixNotFound
  <2>3. l \in 7 + n .. 8 + n /\ l <= k /\ k < Len(str)
    BY <1>1, <2>1
  <2>4. kept = Slice(str, l, k)
    <3> DEFINE keep == Len(ResultPrefix) - 1
    <3>1. Len(ResultPrefix) > 0 /\ keep = 2
      BY <1>1
    <3>2. KeepOf(Slice(str, a, k), ResultPrefix) = Slice(str, IF k - a > keep THEN k - keep ELSE a, k)
      BY <1>1, <3>1, KeepFacts
    <3> QED BY <3>1, <3>2
  <2>5. Keeps(ReadStatus(p), "result", kept, read)
    <3>1. ReadStatus(p) = [p EXCEPT !.pending = kept]
      <4> HIDE DEF t, read
      <4> QED BY <1>3, <2>2 DEF ReadStatus
    <3> HIDE DEF t, read, kept
    <3> QED BY <1>3, <3>1 DEF Keeps
  <2> HIDE DEF l, kept
  <2> QED BY <2>3, <2>4, <2>5 DEF AtResult
<1> QED BY <1>4, <1>5

AtStart(p, str, k) == k < 4 /\ Keeps(p, "start", Slice(str, 0, k), <<>>)

\* The parser has been given the first k symbols.
Held(p, str, n, tail, k) ==
    \/ AtStart(p, str, k) \/ InBody(p, str, n, k) \/ AtResult(p, str, n, tail, k)
    \/ Finished(p, str, n) \/ Overflown(p, str, n)

LEMMA ReceivedFacts ==
    ASSUME NEW S, NEW str \in Seq(S), NEW a \in Nat, NEW k \in Nat, NEW m \in Nat,
           a <= k, k <= m, m <= Len(str),
           NEW state, state # "start", NEW read, NEW p, Keeps(p, state, Slice(str, a, k), read)
    PROVE  Keeps(Received(p, Slice(str, k, m)), state, Slice(str, a, m), read)
<1> DEFINE x == Slice(str, a, k)
           y == Slice(str, k, m)
<1>1. x \o y = Slice(str, a, m)
  BY SliceJoin
<1> HIDE DEF x, y
<1>2. p = [state |-> state, pending |-> x, buffer |-> read]
  BY DEF Keeps, x
<1>3. p.pending \o y = Slice(str, a, m) /\ p.state # "start"
  BY <1>1, <1>2
<1>4. Received(p, y) = [p EXCEPT !.pending = Slice(str, a, m)]
  BY <1>3 DEF Received
<1> DEFINE z == Slice(str, a, m)
<1> HIDE DEF z
<1>5. [p EXCEPT !.pending = z] = [state |-> state, pending |-> z, buffer |-> read]
  BY <1>2
<1> QED BY <1>4, <1>5 DEF Keeps, y, z

LEMMA AwaitFacts ==
    ASSUME NEW S, NEW str, NEW n, NEW tail, Marks(S), Carries(S, str, n, tail),
           NEW k \in Nat, NEW m \in Nat, k <= m, m <= Len(str),
           NEW p, AtStart(p, str, k)
    PROVE  LET r == Received(p, Slice(str, k, m))
           IN  \/ AtStart(r, str, m)
               \/ m >= 4 /\ Keeps(r, "xml", Slice(str, 4, m), Slice(str, 4, 4))
<1> DEFINE x == Slice(str, 0, k)
           y == Slice(str, k, m)
           t == Slice(str, 0, m)
           more == [p EXCEPT !.pending = t]
           at == IndexOf(t, StartMarker)
<1>1. /\ str \in Seq(S) /\ StartMarker \in Seq(S) /\ Len(StartMarker) = 4
      /\ StandsAt(StartMarker, str, 0)
  BY DEF Marks, Carries
<1>2. 0 \in Nat /\ 0 <= k /\ 0 <= m
  OBVIOUS
<1>3. x \o y = t
  BY <1>1, <1>2, SliceJoin
<1>4. t \in Seq(S) /\ Len(t) = m - 0 /\ m - 0 = m
  BY <1>1, <1>2, SliceFacts
<1>5. \A i \in Nat : StandsAt(StartMarker, t, i) <=> 0 + i + 4 <= m /\ StandsAt(StartMarker, str, 0 + i)
  BY <1>1, <1>2, StandsInSlice
<1> HIDE DEF x, y, t
<1>6. p = [state |-> "start", pending |-> x, buffer |-> <<>>]
  BY DEF AtStart, Keeps, x
<1>7. more = [state |-> "start", pending |-> t, buffer |-> <<>>]
  BY <1>6
<1>8. Received(p, y) = AwaitStart(more)
  <2>1. p.pending \o y = t /\ p.state = "start"
    BY <1>3, <1>6
  <2> QED BY <2>1 DEF Received
<1> HIDE DEF more
<1>9. CASE m >= 4
  <2>1. StandsAt(StartMarker, t, 0) /\ \A i \in 0 .. 0 - 1 : ~StandsAt(StartMarker, t, i)
    BY <1>1, <1>2, <1>5, <1>9
  <2>2. Len(StartMarker) > 0
    BY <1>1
  <2>3. at = 0 + 1
    BY <1>1, <1>2, <1>4, <2>1, <2>2, IndexFound, Zenon
  <2>4. From(t, at - 1 + Len(StartMarker)) = Slice(str, 4, m)
    <3>1. 4 \in Nat /\ 4 <= Len(t) /\ Len(t) = m /\ 4 <= m /\ m <= m - 0 /\ 0 + 4 = 4 /\ 0 + m = m
      BY <1>4, <1>9
    <3>2. From(t, 4) = Slice(t, 4, m)
      BY <1>4, <3>1, FromFacts
    <3>3. Slice(t, 4, m) = Slice(str, 0 + 4, 0 + m)
      BY <1>1, <1>2, <3>1, SliceOfSlice DEF t
    <3>4. at - 1 + Len(StartMarker) = 4
      BY <1>1, <2>3
    <3> QED BY <3>1, <3>2, <3>3, <3>4
  <2>5. AwaitStart(more) = [more EXCEPT !.state = "xml", !.pending = Slice(str, 4, m)]
    <3>1. at # 0
      BY <2>3
    <3>2. more.pending = t
      BY <1>7
    <3> HIDE DEF at
    <3> QED BY <2>4, <3>1, <3>2 DEF AwaitStart, at
  <2>6. Slice(str, 4, 4) = <<>>
    BY <1>1 DEF Slice
  <2>7. Keeps(AwaitStart(more), "xml", Slice(str, 4, m), <<>>)
    BY <1>7, <2>5 DEF Keeps
  <2> QED BY <1>8, <1>9, <2>6, <2>7 DEF y
<1>10. CASE ~(m >= 4)
  <2>1. \A i \in 0 .. Len(t) - 1 : ~StandsAt(StartMarker, t, i)
    BY <1>5, <1>10
  <2>2. at = 0
    BY <1>1, <1>4, <2>1, IndexNone
  <2>3. KeepOf(t, StartMarker) = t
    BY <1>1, <1>4, <1>10 DEF KeepOf
  <2>4. AwaitStart(more) = [more EXCEPT !.pending = t]
    <3>1. more.pending = t
      BY <1>7
    <3> QED BY <2>2, <2>3, <3>1 DEF AwaitStart
  <2>5. Keeps(AwaitStart(more), "start", t, <<>>)
    BY <1>7, <2>4 DEF Keeps
  <2> QED BY <1>8, <1>10, <2>5 DEF AtStart, y, t
<1> QED BY <1>9, <1>10

\* One chunk more, wherever it is cut.
LEMMA ParseStep ==
    ASSUME NEW S, NEW str, NEW n, NEW tail, Marks(S), Carries(S, str, n, tail),
           NEW k \in Nat, NEW m \in Nat, k <= m, m <= Len(str),
           NEW p, Held(p, str, n, tail, k)
    PROVE  /\ tail = 6 => Held(ParseSession(p, Slice(str, k, m)), str, n, tail, m)
           /\ tail = 0 => Held(ExtractFrame(p, Slice(str, k, m)), str, n, tail, m)
<1> DEFINE chunk == Slice(str, k, m)
           r == Received(p, chunk)
           reply == ParseSession(p, chunk)
           frame == ExtractFrame(p, chunk)
<1>1. str \in Seq(S) /\ n \in Nat /\ tail \in {0, 6} /\ Len(str) = 7 + n + tail /\ MAX_RESULT_BYTES \in Nat
  BY FramingAssumption DEF Carries
<1>2. ASSUME p.state \in {"done", "too_large"} PROVE reply = p /\ frame = p
  BY <1>2 DEF ParseSession, ExtractFrame
<1>3. ASSUME p.state \notin {"done", "too_large"}
      PROVE  reply = ReadStatus(ReadBody(r, "result")) /\ frame = ReadBody(r, "done")
  BY <1>3 DEF ParseSession, ExtractFrame
<1> SUFFICES /\ tail = 6 => Held(reply, str, n, tail, m)
             /\ tail = 0 => Held(frame, str, n, tail, m)
  OBVIOUS
<1> HIDE DEF reply, frame, r
<1>4. \A q, next : q.state # "xml" => ReadBody(q, next) = q
  BY DEF ReadBody
<1>5. \A q : q.state # "result" => ReadStatus(q) = q
  BY DEF ReadStatus
<1>6. ASSUME NEW b \in 0..n, b <= MAX_RESULT_BYTES, 4 + b <= m,
             Keeps(r, "xml", Slice(str, 4 + b, m), Slice(str, 4, 4 + b)),
             p.state \notin {"done", "too_large"}
      PROVE  /\ tail = 6 => Held(reply, str, n, tail, m)
             /\ tail = 0 => Held(frame, str, n, tail, m)
  <2>1. ASSUME NEW next, NEW q, q = ReadBody(r, next)
        PROVE  InBody(q, str, n, m) \/ Overflown(q, str, n) \/ BodyRead(q, str, n, m, next)
    BY <1>6, <2>1, ReadBodyFacts
  <2>2. ASSUME NEW q, InBody(q, str, n, m) \/ Overflown(q, str, n)
        PROVE  ReadStatus(q) = q
    <3>1. q.state \in {"xml", "too_large"}
      BY <2>2 DEF InBody, Overflown, Keeps
    <3> QED BY <1>5, <3>1
  <2>3. ASSUME tail = 6 PROVE Held(reply, str, n, tail, m)
    <3> DEFINE q == ReadBody(r, "result")
    <3>1. reply = ReadStatus(q)
      BY <1>3, <1>6
    <3>2. InBody(q, str, n, m) \/ Overflown(q, str, n) \/ BodyRead(q, str, n, m, "result")
      BY <2>1
    <3> HIDE DEF q
    <3>3. CASE InBody(q, str, n, m) \/ Overflown(q, str, n)
      BY <2>2, <3>1, <3>3 DEF Held
    <3>4. CASE BodyRead(q, str, n, m, "result")
      <4> DEFINE a == 7 + n
      <4>1. /\ a \in Nat /\ 7 + n <= a /\ a <= 8 + n /\ a <= m /\ n <= MAX_RESULT_BYTES
            /\ Keeps(q, "result", Slice(str, a, m), Slice(str, 4, 4 + n))
        BY <1>1, <3>4 DEF BodyRead
      <4>2. Carries(S, str, n, 6)
        BY <2>3
      <4> HIDE DEF a
      <4>3. AtResult(ReadStatus(q), str, n, 6, m) \/ Finished(ReadStatus(q), str, n)
        BY <4>1, <4>2, ReadStatusFacts
      <4> QED BY <2>3, <3>1, <4>3 DEF Held
    <3> QED BY <3>2, <3>3, <3>4
  <2>4. ASSUME tail = 0 PROVE Held(frame, str, n, tail, m)
    <3>1. frame = ReadBody(r, "done")
      BY <1>3, <1>6
    <3>2. InBody(frame, str, n, m) \/ Overflown(frame, str, n) \/ BodyRead(frame, str, n, m, "done")
      BY <2>1, <3>1
    <3>3. BodyRead(frame, str, n, m, "done") => Finished(frame, str, n)
      <4>1. Len(str) # 13 + n
        BY <1>1, <2>4
      <4> QED BY <4>1 DEF BodyRead, Finished, Keeps
    <3> QED BY <3>2, <3>3 DEF Held
  <2> QED BY <2>3, <2>4
<1>7. CASE AtStart(p, str, k)
  <2>1. p.state \notin {"done", "too_large"}
    BY <1>7 DEF AtStart, Keeps
  <2>2. \/ AtStart(r, str, m)
        \/ m >= 4 /\ Keeps(r, "xml", Slice(str, 4, m), Slice(str, 4, 4))
    BY <1>7, AwaitFacts DEF r
  <2>3. CASE AtStart(r, str, m)
    <3>1. r.state = "start"
      BY <2>3 DEF AtStart, Keeps
    <3>2. reply = r /\ frame = r
      BY <1>3, <1>4, <1>5, <2>1, <3>1
    <3> QED BY <2>3, <3>2 DEF Held
  <2>4. CASE m >= 4 /\ Keeps(r, "xml", Slice(str, 4, m), Slice(str, 4, 4))
    <3>1. 0 \in 0..n /\ 0 <= MAX_RESULT_BYTES /\ 4 + 0 <= m /\ 4 + 0 = 4
      BY <1>1, <2>4
    <3>2. Keeps(r, "xml", Slice(str, 4 + 0, m), Slice(str, 4, 4 + 0))
      BY <2>4, <3>1
    <3> QED BY <1>6, <2>1, <3>1, <3>2
  <2> QED BY <2>2, <2>3, <2>4
<1>8. CASE InBody(p, str, n, k)
  <2>1. PICK b \in 0..n :
           /\ b <= MAX_RESULT_BYTES /\ 4 + b <= k
           /\ Keeps(p, "xml", Slice(str, 4 + b, k), Slice(str, 4, 4 + b))
    BY <1>8 DEF InBody
  <2>2. p.state \notin {"done", "too_large"}
    BY <2>1 DEF Keeps
  <2> DEFINE a == 4 + b
             read == Slice(str, 4, 4 + b)
  <2>3. a \in Nat /\ a <= k /\ a <= m /\ "xml" # "start" /\ Keeps(p, "xml", Slice(str, a, k), read)
    BY <1>1, <2>1
  <2> HIDE DEF a, read
  <2>4. Keeps(r, "xml", Slice(str, a, m), read)
    BY <1>1, <2>3, ReceivedFacts DEF r
  <2> QED BY <1>6, <2>1, <2>2, <2>3, <2>4 DEF a, read
<1>9. CASE AtResult(p, str, n, tail, k)
  <2>1. PICK a \in 7 + n .. 8 + n :
           /\ tail = 6 /\ n <= MAX_RESULT_BYTES /\ a <= k
           /\ Keeps(p, "result", Slice(str, a, k), Slice(str, 4, 4 + n))
    BY <1>9 DEF AtResult
  <2> DEFINE read == Slice(str, 4, 4 + n)
  <2>2. p.state \notin {"done", "too_large"} /\ "result" # "start"
    BY <2>1 DEF Keeps
  <2>3. a \in Nat /\ 7 + n <= a /\ a <= 8 + n /\ a <= m
    BY <1>1, <2>1
  <2>4. Keeps(r, "result", Slice(str, a, m), read)
    <3> HIDE DEF read
    <3>1. Keeps(p, "result", Slice(str, a, k), read)
      BY <2>1 DEF read
    <3> QED BY <1>1, <2>1, <2>2, <2>3, <3>1, ReceivedFacts DEF r
  <2>5. reply = ReadStatus(r)
    <3>1. r.state # "xml"
      BY <2>4 DEF Keeps
    <3> QED BY <1>3, <1>4, <2>2, <3>1
  <2>6. Carries(S, str, n, 6)
    BY <2>1
  <2>7. AtResult(ReadStatus(r), str, n, 6, m) \/ Finished(ReadStatus(r), str, n)
    BY <2>1, <2>3, <2>4, <2>6, ReadStatusFacts
  <2> QED BY <2>1, <2>5, <2>7 DEF Held
<1>10. CASE Finished(p, str, n) \/ Overflown(p, str, n)
  <2>1. p.state \in {"done", "too_large"}
    BY <1>10 DEF Finished, Overflown
  <2> QED BY <1>2, <1>10, <2>1 DEF Held
<1> QED BY <1>7, <1>8, <1>9, <1>10 DEF Held

(***************************************************************************)
(* The output is of that shape.                                            *)
(***************************************************************************)
Concat(s, t) == s \o t

LEMMA ConcatFacts ==
    ASSUME NEW S, NEW s \in Seq(S), NEW t \in Seq(S)
    PROVE  /\ Concat(s, t) \in Seq(S) /\ Len(Concat(s, t)) = Len(s) + Len(t)
           /\ \A x \in 1..Len(s) : Concat(s, t)[x] = s[x]
           /\ \A x \in Len(s) + 1 .. Len(s) + Len(t) : Concat(s, t)[x] = t[x - Len(s)]
BY JoinFacts DEF Concat

LEMMA ConcatTwice ==
    ASSUME NEW S, NEW s \in Seq(S), NEW t \in Seq(S), NEW u \in Seq(S)
    PROVE  Concat(Concat(s, t), u) = Concat(s, Concat(t, u))
BY ConcatAssociative DEF Concat

LEMMA StandsLeft ==
    ASSUME NEW S, NEW s \in Seq(S), NEW t \in Seq(S), NEW mark \in Seq(S),
           NEW i \in Nat, i + Len(mark) <= Len(s)
    PROVE  StandsAt(mark, Concat(s, t), i) <=> StandsAt(mark, s, i)
<1> DEFINE u == Concat(s, t)
<1>1. /\ u \in Seq(S) /\ Len(u) = Len(s) + Len(t)
      /\ \A x \in 1..Len(s) : u[x] = s[x]
  BY ConcatFacts
<1>2. Len(s) \in Nat /\ Len(t) \in Nat /\ Len(mark) \in Nat
  BY LengthFacts
<1> HIDE DEF u
<1>3. \A x \in 1..Len(mark) : i + x \in 1..Len(s)
  BY <1>2
<1>4. i + Len(mark) <= Len(u)
  BY <1>1, <1>2
<1> QED BY <1>1, <1>3, <1>4 DEF StandsAt, u

LEMMA StandsRight ==
    ASSUME NEW S, NEW s \in Seq(S), NEW t \in Seq(S), NEW mark \in Seq(S),
           NEW i \in Nat, NEW j \in Nat, j = Len(s) + i
    PROVE  StandsAt(mark, Concat(s, t), j) <=> StandsAt(mark, t, i)
<1> DEFINE u == Concat(s, t)
<1>1. /\ u \in Seq(S) /\ Len(u) = Len(s) + Len(t)
      /\ \A x \in Len(s) + 1 .. Len(s) + Len(t) : u[x] = t[x - Len(s)]
  BY ConcatFacts
<1>2. Len(s) \in Nat /\ Len(t) \in Nat /\ Len(mark) \in Nat
  BY LengthFacts
<1> HIDE DEF u
<1>3. j + Len(mark) <= Len(u) <=> i + Len(mark) <= Len(t)
  BY <1>1, <1>2
<1>4. i + Len(mark) <= Len(t) => \A x \in 1..Len(mark) : u[j + x] = t[i + x]
  <2> SUFFICES ASSUME i + Len(mark) <= Len(t), NEW x \in 1..Len(mark) PROVE u[j + x] = t[i + x]
    OBVIOUS
  <2>1. j + x \in Len(s) + 1 .. Len(s) + Len(t) /\ j + x - Len(s) = i + x
    BY <1>2
  <2> QED BY <1>1, <2>1
<1> QED BY <1>3, <1>4 DEF StandsAt, u

LEMMA StandsSelf ==
    ASSUME NEW S, NEW mark \in Seq(S)
    PROVE  StandsAt(mark, mark, 0)
BY LengthFacts DEF StandsAt

LEMMA SliceOfConcat ==
    ASSUME NEW S, NEW s \in Seq(S), NEW t \in Seq(S), NEW u \in Seq(S)
    PROVE  Slice(Concat(Concat(s, t), u), Len(s), Len(s) + Len(t)) = t
<1> DEFINE a == Len(s)
           b == Len(s) + Len(t)
           v == Concat(s, t)
           w == Concat(v, u)
           c == Len(v) + Len(u)
<1>1. a \in Nat /\ b \in Nat /\ a <= b /\ Len(t) \in Nat /\ Len(u) \in Nat /\ b - a = Len(t)
  BY LengthFacts
<1>2. v \in Seq(S) /\ Len(v) = b
  <2>1. Concat(s, t) \in Seq(S) /\ Len(Concat(s, t)) = Len(s) + Len(t)
    BY ConcatFacts
  <2> QED BY <2>1
<1>3. \A x \in a + 1 .. b : v[x] = t[x - a]
  <2>1. \A x \in Len(s) + 1 .. Len(s) + Len(t) : Concat(s, t)[x] = t[x - Len(s)]
    BY ConcatFacts
  <2> QED BY <2>1
<1> HIDE DEF a, b, v
<1>4. b = Len(v) /\ c = Len(v) + Len(u)
  BY <1>2
<1> HIDE DEF c
<1>5. w \in Seq(S) /\ Len(w) = c /\ \A x \in 1..b : w[x] = v[x]
  <2>1. /\ w \in Seq(S) /\ Len(w) = Len(v) + Len(u)
        /\ \A x \in 1..Len(v) : w[x] = v[x]
    <3>1. v \in Seq(S)
      BY <1>2
    <3> QED BY <3>1, ConcatFacts
  <2> QED BY <1>4, <2>1
<1> HIDE DEF w
<1>6. b <= Len(w)
  BY <1>1, <1>2, <1>4, <1>5
<1>7. /\ Slice(w, a, b) \in Seq(S) /\ Len(Slice(w, a, b)) = b - a
      /\ \A x \in 1 .. b - a : Slice(w, a, b)[x] = w[a + x]
  <2>1. w \in Seq(S)
    BY <1>5
  <2>2. a <= b
    BY <1>1
  <2> QED BY <1>6, <2>1, <2>2, <1>1, SliceFacts, ZenonT(40)
<1>8. \A x \in 1 .. b - a : Slice(w, a, b)[x] = t[x]
  <2> SUFFICES ASSUME NEW x \in 1 .. b - a PROVE Slice(w, a, b)[x] = t[x]
    OBVIOUS
  <2> DEFINE y == a + x
  <2>1. y \in a + 1 .. b /\ y - a = x /\ y \in 1..b
    BY <1>1
  <2>2. Slice(w, a, b)[x] = w[y]
    BY <1>7
  <2> HIDE DEF y
  <2>3. w[y] = v[y] /\ v[y] = t[y - a]
    BY <1>3, <1>5, <2>1
  <2> QED BY <2>1, <2>2, <2>3
<1>9. Slice(w, a, b) = t
  BY <1>1, <1>7, <1>8, SameSequence
<1> QED BY <1>9 DEF a, b, v, w

StatusLine(category) == Concat(Concat(<<"\n">>, ResultPrefix), <<category, "\n">>)

LEMMA StatusFacts ==
    ASSUME NEW S, Marks(S), NEW category \in S, "\n" \in S, ResultPrefix[1] # ResultPrefix[2]
    PROVE  /\ StatusLine(category) \in Seq(S) /\ Len(StatusLine(category)) = 6
           /\ ~StandsAt(ResultPrefix, StatusLine(category), 0)
           /\ StandsAt(ResultPrefix, StatusLine(category), 1)
           /\ StatusLine(category)[5] = category /\ StatusLine(category)[6] = "\n"
<1> DEFINE mark == ResultPrefix
           feed == <<"\n">>
           last == <<category, "\n">>
           head == Concat(feed, mark)
           line == Concat(head, last)
<1>1. mark \in Seq(S) /\ Len(mark) = 3 /\ feed \in Seq(S) /\ Len(feed) = 1 /\ mark[1] # mark[2]
  BY DEF Marks
<1>2. last \in Seq(S) /\ Len(last) = 2 /\ last[1] = category /\ last[2] = "\n"
  OBVIOUS
<1> HIDE DEF mark, feed, last
<1>3. head \in Seq(S) /\ Len(head) = 4 /\ \A x \in 1 + 1 .. 4 : head[x] = mark[x - 1]
  <2>1. /\ head \in Seq(S) /\ Len(head) = Len(feed) + Len(mark)
        /\ \A x \in Len(feed) + 1 .. Len(feed) + Len(mark) : head[x] = mark[x - Len(feed)]
    BY <1>1, ConcatFacts
  <2> HIDE DEF head
  <2> QED BY <1>1, <2>1
<1> HIDE DEF head
<1>4. /\ line \in Seq(S) /\ Len(line) = 6 /\ \A x \in 1..4 : line[x] = head[x]
      /\ \A x \in 4 + 1 .. 6 : line[x] = last[x - 4]
  <2>1. /\ line \in Seq(S) /\ Len(line) = Len(head) + Len(last)
        /\ \A x \in 1..Len(head) : line[x] = head[x]
        /\ \A x \in Len(head) + 1 .. Len(head) + Len(last) : line[x] = last[x - Len(head)]
    BY <1>2, <1>3, ConcatFacts
  <2> HIDE DEF line
  <2> QED BY <1>2, <1>3, <2>1
<1> HIDE DEF line
<1>5. line[2] = mark[1] /\ line[3] = mark[2] /\ line[4] = mark[3] /\ line[5] = category /\ line[6] = "\n"
  BY <1>2, <1>3, <1>4
<1>6. ~StandsAt(mark, line, 0)
  <2> SUFFICES ASSUME StandsAt(mark, line, 0) PROVE FALSE
    OBVIOUS
  <2>1. line[0 + 2] = mark[2]
    BY <1>1 DEF StandsAt
  <2> QED BY <1>1, <1>5, <2>1
<1>7. StandsAt(mark, line, 1)
  BY <1>1, <1>4, <1>5 DEF StandsAt
<1>8. line = StatusLine(category)
  BY DEF StatusLine, line, head, mark, feed, last
<1> QED BY <1>4, <1>5, <1>6, <1>7, <1>8 DEF mark

Written(data, tail) == Concat(Concat(Concat(StartMarker, data), EndMarker), tail)

LEMMA OutputCarries ==
    ASSUME NEW S, Marks(S), NEW data \in Seq(S), NEW tail \in Seq(S), Len(tail) \in {0, 6},
           \A i \in 0 .. Len(data) - 1 : ~StandsAt(EndMarker, Concat(data, EndMarker), i),
           Len(tail) = 6 => /\ ~StandsAt(ResultPrefix, tail, 0) /\ StandsAt(ResultPrefix, tail, 1)
                            /\ tail[6] = "\n"
    PROVE  /\ Carries(S, Written(data, tail), Len(data), Len(tail))
           /\ Slice(Written(data, tail), 4, 4 + Len(data)) = data
           /\ Len(tail) = 6 => Written(data, tail)[12 + Len(data)] = tail[5]
<1> DEFINE n == Len(data)
           sd == Concat(StartMarker, data)
           sde == Concat(sd, EndMarker)
           de == Concat(data, EndMarker)
           str == Concat(sde, tail)
<1>1. /\ StartMarker \in Seq(S) /\ Len(StartMarker) = 4
      /\ EndMarker \in Seq(S) /\ Len(EndMarker) = 3
      /\ ResultPrefix \in Seq(S) /\ Len(ResultPrefix) = 3
  BY DEF Marks
<1>2. n \in Nat /\ Len(tail) \in Nat
  BY LengthFacts
<1>3. sd \in Seq(S) /\ Len(sd) = 4 + n
  <2>1. sd \in Seq(S) /\ Len(sd) = Len(StartMarker) + Len(data)
    BY <1>1, ConcatFacts
  <2> HIDE DEF sd
  <2> QED BY <1>1, <2>1
<1>4. de \in Seq(S) /\ Len(de) = n + 3
  <2>1. de \in Seq(S) /\ Len(de) = Len(data) + Len(EndMarker)
    BY <1>1, ConcatFacts
  <2> HIDE DEF de
  <2> QED BY <1>1, <2>1
<1>5. sde = Concat(StartMarker, de)
  BY <1>1, ConcatTwice
<1> HIDE DEF sd
<1>6. sde \in Seq(S) /\ Len(sde) = 7 + n
  <2>1. sde \in Seq(S) /\ Len(sde) = Len(sd) + Len(EndMarker)
    BY <1>1, <1>3, ConcatFacts
  <2> HIDE DEF sde
  <2> QED BY <1>1, <1>2, <1>3, <2>1
<1>7. Slice(str, 4, 4 + n) = data
  <2> DEFINE et == Concat(EndMarker, tail)
  <2>1. str = Concat(sd, et)
    BY <1>1, <1>3, ConcatTwice
  <2>2. et \in Seq(S)
    BY <1>1, ConcatFacts
  <2> HIDE DEF et
  <2>3. StartMarker \in Seq(S)
    BY <1>1
  <2>4. Slice(Concat(Concat(StartMarker, data), et), Len(StartMarker), Len(StartMarker) + Len(data)) = data
    BY <2>2, <2>3, SliceOfConcat
  <2> QED BY <1>1, <2>1, <2>4 DEF sd
<1> HIDE DEF sde, de
<1>8. /\ str \in Seq(S) /\ Len(str) = 7 + n + Len(tail)
      /\ \A x \in 7 + n + 1 .. 7 + n + Len(tail) : str[x] = tail[x - (7 + n)]
  <2>1. /\ str \in Seq(S) /\ Len(str) = Len(sde) + Len(tail)
        /\ \A x \in Len(sde) + 1 .. Len(sde) + Len(tail) : str[x] = tail[x - Len(sde)]
    <3>1. sde \in Seq(S)
      BY <1>6
    <3> QED BY <3>1, ConcatFacts
  <2> HIDE DEF str
  <2> QED BY <1>6, <2>1
<1>9. StandsAt(StartMarker, str, 0)
  <2>1. 0 \in Nat /\ 0 + Len(StartMarker) <= Len(StartMarker) /\ 0 + Len(StartMarker) <= Len(sde)
    BY <1>1, <1>2, <1>6
  <2>2. StandsAt(StartMarker, sde, 0) <=> StandsAt(StartMarker, StartMarker, 0)
    BY <1>1, <1>4, <1>5, <2>1, StandsLeft
  <2>3. StandsAt(StartMarker, Concat(sde, tail), 0) <=> StandsAt(StartMarker, sde, 0)
    BY <1>1, <1>6, <2>1, StandsLeft
  <2> QED BY <1>1, <2>2, <2>3, StandsSelf
<1>10. ASSUME NEW i \in 0..n
       PROVE  StandsAt(EndMarker, str, 4 + i) <=> StandsAt(EndMarker, de, i)
  <2> DEFINE j == 4 + i
  <2>1. i \in Nat /\ j \in Nat /\ j + Len(EndMarker) <= Len(sde) /\ j = Len(StartMarker) + i
    BY <1>1, <1>2, <1>6
  <2> HIDE DEF j
  <2>2. StandsAt(EndMarker, Concat(sde, tail), j) <=> StandsAt(EndMarker, sde, j)
    BY <1>1, <1>6, <2>1, StandsLeft
  <2>3. StandsAt(EndMarker, Concat(StartMarker, de), j) <=> StandsAt(EndMarker, de, i)
    BY <1>1, <1>4, <2>1, StandsRight
  <2> QED BY <1>5, <2>2, <2>3 DEF j
<1>11. StandsAt(EndMarker, str, 4 + n)
  <2>1. StandsAt(EndMarker, EndMarker, 0)
    BY <1>1, StandsSelf
  <2>2. 0 \in Nat /\ n = Len(data) + 0 /\ n \in 0..n
    BY <1>2
  <2>3. StandsAt(EndMarker, Concat(data, EndMarker), n) <=> StandsAt(EndMarker, EndMarker, 0)
    BY <1>1, <1>2, <2>2, StandsRight
  <2> QED BY <1>10, <2>1, <2>2, <2>3 DEF de
<1>12. \A i \in 0 .. n - 1 : ~StandsAt(EndMarker, str, 4 + i)
  <2> SUFFICES ASSUME NEW i \in 0 .. n - 1 PROVE ~StandsAt(EndMarker, str, 4 + i)
    OBVIOUS
  <2>1. i \in 0..n /\ ~StandsAt(EndMarker, de, i)
    BY <1>2 DEF de
  <2> QED BY <1>10, <2>1
<1>13. ASSUME Len(tail) = 6
       PROVE  ~StandsAt(ResultPrefix, str, 7 + n) /\ StandsAt(ResultPrefix, str, 8 + n) /\ str[13 + n] = "\n"
  <2> DEFINE a == 7 + n
             b == 8 + n
  <2>1. a \in Nat /\ b \in Nat /\ a = Len(sde) + 0 /\ b = Len(sde) + 1 /\ 0 \in Nat /\ 1 \in Nat
    BY <1>2, <1>6
  <2> HIDE DEF a, b
  <2>2. StandsAt(ResultPrefix, Concat(sde, tail), a) <=> StandsAt(ResultPrefix, tail, 0)
    BY <1>1, <1>6, <2>1, StandsRight
  <2>3. StandsAt(ResultPrefix, Concat(sde, tail), b) <=> StandsAt(ResultPrefix, tail, 1)
    BY <1>1, <1>6, <2>1, StandsRight
  <2>4. str[13 + n] = tail[6]
    <3>1. 13 + n \in 7 + n + 1 .. 7 + n + Len(tail) /\ 13 + n - (7 + n) = 6
      BY <1>2, <1>13
    <3> HIDE DEF str
    <3> QED BY <1>8, <3>1
  <2> QED BY <1>13, <2>2, <2>3, <2>4 DEF a, b
<1>14. str = Written(data, tail)
  BY DEF str, sde, sd, Written
<1>17. Len(tail) = 6 => str[12 + n] = tail[5]
  <2> SUFFICES ASSUME Len(tail) = 6 PROVE str[12 + n] = tail[5]
    OBVIOUS
  <2>1. 12 + n \in 7 + n + 1 .. 7 + n + Len(tail) /\ 12 + n - (7 + n) = 5
    BY <1>2
  <2> HIDE DEF str
  <2> QED BY <1>8, <2>1
<1> HIDE DEF str
<1>15. Carries(S, str, n, Len(tail))
  BY <1>2, <1>8, <1>9, <1>11, <1>12, <1>13 DEF Carries
<1>16. Slice(str, 4, 4 + n) = data
  BY <1>7 DEF str
<1> QED BY <1>14, <1>15, <1>16, <1>17

(***************************************************************************)
(* What a parser in each of these states has kept.                         *)
(***************************************************************************)
LEMMA SliceIsPrefix ==
    ASSUME NEW S, NEW s \in Seq(S), NEW b \in Nat, b <= Len(s)
    PROVE  IsPrefix(Slice(s, 0, b), s)
<1>1. 0 \in Nat /\ 0 <= b
  OBVIOUS
<1>2. /\ Slice(s, 0, b) \in Seq(S) /\ Len(Slice(s, 0, b)) = b - 0
      /\ \A i \in 1 .. b - 0 : Slice(s, 0, b)[i] = s[0 + i]
  BY <1>1, SliceFacts
<1> DEFINE t == Slice(s, 0, b)
<1> HIDE DEF t
<1>3. t \in Seq(S) /\ Len(t) = b /\ \A i \in 1..b : t[i] = s[i]
  BY <1>2 DEF t
<1>4. IsPrefix(t, s)
  BY <1>3 DEF IsPrefix
<1> QED BY <1>4 DEF t

LEMMA HeldMeans ==
    ASSUME NEW S, NEW str, NEW n, NEW tail, Carries(S, str, n, tail),
           NEW data \in Seq(S), Len(data) = n, Slice(str, 4, 4 + n) = data,
           NEW k, k \in Nat, NEW p, Held(p, str, n, tail, k)
    PROVE  /\ p.state # "too_large" => IsPrefix(p.buffer, data)
           /\ p.state = "too_large" => n > MAX_RESULT_BYTES
           /\ p.state \in {"result", "done"} => p.buffer = data
           /\ p.state = "done" => n <= MAX_RESULT_BYTES
           /\ k = Len(str) => p.state \in {"done", "too_large"}
           /\ p.state = "done" /\ tail = 6 /\ str[12 + n] # "\n" => p.pending = <<str[12 + n]>>
<1>1. str \in Seq(S) /\ n \in Nat /\ tail \in {0, 6} /\ Len(str) = 7 + n + tail
  BY DEF Carries
<1>2. ASSUME NEW b \in 0..n PROVE IsPrefix(Slice(str, 4, 4 + b), data)
  <2> DEFINE a == 4 + n
  <2>1. /\ 4 \in Nat /\ a \in Nat /\ 4 <= a /\ a <= Len(str) /\ 0 \in Nat /\ b \in Nat
        /\ 0 <= b /\ b <= a - 4 /\ 4 + 0 = 4 /\ b <= Len(data)
    BY <1>1
  <2>2. Slice(str, 4, a) = data
    OBVIOUS
  <2> HIDE DEF a
  <2>3. Slice(Slice(str, 4, a), 0, b) = Slice(str, 4 + 0, 4 + b)
    <3> DEFINE f == 4
               o == 0
    <3>1. str \in Seq(S) /\ f \in Nat /\ o \in Nat /\ f <= a /\ o <= b /\ b <= a - f
      BY <1>1, <2>1
    <3> HIDE DEF f, o
    <3>2. Slice(Slice(str, f, a), o, b) = Slice(str, f + o, f + b)
      BY <2>1, <3>1, SliceOfSlice
    <3> QED BY <3>2 DEF f, o
  <2>4. IsPrefix(Slice(data, 0, b), data)
    BY <2>1, SliceIsPrefix
  <2> QED BY <2>1, <2>2, <2>3, <2>4
<1>3. CASE AtStart(p, str, k)
  <2>1. p.state = "start" /\ p.buffer = <<>> /\ k < 4
    BY <1>3 DEF AtStart, Keeps
  <2>2. Slice(str, 4, 4 + 0) = <<>> /\ 0 \in 0..n
    BY <1>1 DEF Slice
  <2>3. IsPrefix(p.buffer, data)
    BY <1>2, <2>1, <2>2
  <2> QED BY <1>1, <2>1, <2>3
<1>4. CASE InBody(p, str, n, k)
  <2>1. PICK b \in 0..n : k < 7 + n /\ Keeps(p, "xml", Slice(str, 4 + b, k), Slice(str, 4, 4 + b))
    BY <1>4 DEF InBody
  <2>2. p.state = "xml" /\ p.buffer = Slice(str, 4, 4 + b)
    BY <2>1 DEF Keeps
  <2>3. IsPrefix(p.buffer, data)
    BY <1>2, <2>2
  <2> QED BY <1>1, <2>1, <2>2, <2>3
<1>5. CASE AtResult(p, str, n, tail, k)
  <2>1. p.state = "result" /\ p.buffer = Slice(str, 4, 4 + n) /\ k < Len(str)
    BY <1>5 DEF AtResult, Keeps
  <2>2. n \in 0..n
    BY <1>1
  <2>3. IsPrefix(p.buffer, data)
    BY <1>2, <2>1, <2>2
  <2> QED BY <1>1, <2>1, <2>3
<1>6. CASE Finished(p, str, n)
  <2>1. p.state = "done" /\ p.buffer = Slice(str, 4, 4 + n) /\ n <= MAX_RESULT_BYTES
    BY <1>6 DEF Finished
  <2>2. n \in 0..n
    BY <1>1
  <2>3. IsPrefix(p.buffer, data)
    BY <1>2, <2>1, <2>2
  <2>4. tail = 6 /\ str[12 + n] # "\n" => p.pending = <<str[12 + n]>>
    BY <1>1, <1>6 DEF Finished
  <2> QED BY <2>1, <2>3, <2>4
<1>7. CASE Overflown(p, str, n)
  BY <1>7 DEF Overflown
<1> QED BY <1>3, <1>4, <1>5, <1>6, <1>7 DEF Held

(***************************************************************************)
(* The packet.                                                             *)
(***************************************************************************)
\* Two numbers do not share a numeral.
NumeralsDiffer == \A i, j \in Nat : ToString(i) = ToString(j) => i = j

LEMMA DecimalFacts ==
    ASSUME NumeralsDiffer, NEW most \in Nat, NEW i \in 0..most
    PROVE  Decimal(ToString(i), most) = i
<1> DEFINE Is(x) == ToString(x) = ToString(i)
<1>1. \A x \in 0..most : Is(x) => x = i
  BY DEF NumeralsDiffer
<1>2. Is(i)
  OBVIOUS
<1> HIDE DEF Is
<1>3. (CHOOSE x \in 0..most : Is(x)) = i
  BY <1>1, <1>2
<1> QED BY <1>3 DEF Decimal, Is

Framed(a, b, c, d, e, data) == <<a, a, a, b>> \o <<c, d, e>> \o data

Frames(S, sent, b, d, data) ==
    /\ sent \in Seq(S) /\ Len(sent) = 7 + Len(data)
    /\ sent[4] = b /\ sent[6] = d /\ Slice(sent, 7, Len(sent)) = data

LEMMA PacketShape ==
    ASSUME NEW S, NEW a \in S, NEW b \in S, NEW c \in S, NEW d \in S, NEW e \in S, NEW data \in Seq(S)
    PROVE  Frames(S, Framed(a, b, c, d, e, data), b, d, data)
<1> DEFINE x == <<a, a, a, b>>
           y == <<c, d, e>>
           h == Concat(x, y)
           sent == Concat(h, data)
<1>1. x \in Seq(S) /\ Len(x) = 4 /\ x[4] = b /\ y \in Seq(S) /\ Len(y) = 3 /\ y[2] = d
  OBVIOUS
<1> HIDE DEF x, y
<1>2. h \in Seq(S) /\ Len(h) = 7 /\ h[4] = b /\ h[6] = d
  <2>1. x \in Seq(S) /\ y \in Seq(S)
    BY <1>1
  <2>2. /\ h \in Seq(S) /\ Len(h) = Len(x) + Len(y)
        /\ \A i \in 1..Len(x) : h[i] = x[i]
        /\ \A i \in Len(x) + 1 .. Len(x) + Len(y) : h[i] = y[i - Len(x)]
    BY <2>1, ConcatFacts
  <2> HIDE DEF h
  <2>3. \A i \in 1..4 : h[i] = x[i]
    BY <1>1, <2>2
  <2>4. \A i \in 5..7 : h[i] = y[i - 4]
    BY <1>1, <2>2
  <2> QED BY <1>1, <2>2, <2>3, <2>4
<1> HIDE DEF h
<1>3. /\ sent \in Seq(S) /\ Len(sent) = 7 + Len(data)
      /\ \A i \in 1..7 : sent[i] = h[i]
      /\ \A i \in 8 .. 7 + Len(data) : sent[i] = data[i - 7]
  <2>1. h \in Seq(S)
    BY <1>2
  <2>2. /\ sent \in Seq(S) /\ Len(sent) = Len(h) + Len(data)
        /\ \A i \in 1..Len(h) : sent[i] = h[i]
        /\ \A i \in Len(h) + 1 .. Len(h) + Len(data) : sent[i] = data[i - Len(h)]
    BY <2>1, ConcatFacts
  <2> HIDE DEF sent
  <2> QED BY <1>2, <2>2
<1> HIDE DEF sent
<1>4. Slice(sent, 7, Len(sent)) = data
  <2> DEFINE l == Len(sent)
             t == Slice(sent, 7, l)
  <2>1. 7 \in Nat /\ l \in Nat /\ 7 <= l /\ l <= Len(sent) /\ sent \in Seq(S) /\ l - 7 = Len(data)
    BY <1>3, LengthFacts
  <2> HIDE DEF l
  <2>2. t \in Seq(S) /\ Len(t) = l - 7 /\ \A i \in 1 .. l - 7 : t[i] = sent[7 + i]
    BY <2>1, SliceFacts, ZenonT(40)
  <2> HIDE DEF t
  <2>3. \A i \in 1..Len(t) : t[i] = data[i]
    <3> SUFFICES ASSUME NEW i \in 1..Len(t) PROVE t[i] = data[i]
      OBVIOUS
    <3> DEFINE j == 7 + i
    <3>1. j \in 8 .. 7 + Len(data) /\ j - 7 = i
      BY <2>1, <2>2
    <3>2. t[i] = sent[j]
      BY <2>2
    <3> HIDE DEF j
    <3>3. sent[j] = data[j - 7]
      BY <1>3, <3>1
    <3> QED BY <3>1, <3>2, <3>3
  <2>4. t = data
    BY <2>1, <2>2, <2>3, SameSequence
  <2> QED BY <2>4 DEF t, l
<1> QED BY <1>2, <1>3, <1>4 DEF sent, h, x, y, Concat, Framed, Frames

\* The client of the broker has been given the first k symbols of a packet.
Given(q, sent, k) ==
    q = [pending |-> Slice(sent, 0, k),
         expected |-> IF k < 7 THEN 0 ELSE Len(sent),
         state |-> IF k < Len(sent) THEN "reading" ELSE "done"]

LEMMA SliceBegins ==
    ASSUME NEW S, NEW s \in Seq(S), NEW k \in Nat, k <= Len(s)
    PROVE  /\ Slice(s, 0, k) \in Seq(S) /\ Len(Slice(s, 0, k)) = k
           /\ \A i \in 1..k : Slice(s, 0, k)[i] = s[i]
<1> DEFINE o == 0
<1>1. o \in Nat /\ o <= k /\ k - o = k /\ \A i \in 1..k : o + i = i
  OBVIOUS
<1> HIDE DEF o
<1>2. /\ Slice(s, o, k) \in Seq(S) /\ Len(Slice(s, o, k)) = k - o
      /\ \A i \in 1 .. k - o : Slice(s, o, k)[i] = s[o + i]
  BY <1>1, SliceFacts
<1>3. /\ Slice(s, o, k) \in Seq(S) /\ Len(Slice(s, o, k)) = k
      /\ \A i \in 1..k : Slice(s, o, k)[i] = s[i]
  BY <1>1, <1>2
<1> QED BY <1>3 DEF o

\* A packet whose body may be sent: the numerals of its header and of its body.
LEMMA PacketStep ==
    ASSUME NumeralsDiffer, NEW S, NEW sent \in Seq(S), NEW n \in Nat, n <= MAX_RESULT_BYTES,
           Len(sent) = 7 + n, sent[4] = ToString(3), sent[6] = ToString(n),
           NEW k \in Nat, NEW m \in Nat, k < m, m <= Len(sent), NEW q, Given(q, sent, k)
    PROVE  Given(ReadPacket(q, Slice(sent, k, m)), sent, m)
<1> DEFINE x == Slice(sent, 0, k)
           y == Slice(sent, k, m)
           bytes == Slice(sent, 0, m)
           l == Len(sent)
<1>1. 0 \in Nat /\ 0 <= k /\ k <= m /\ l \in Nat /\ k < l /\ l = 7 + n /\ MAX_RESULT_BYTES \in Nat
  BY FramingAssumption
<1>2. x \o y = bytes
  BY <1>1, SliceJoin
<1>3. Len(bytes) = m /\ \A i \in 1..m : bytes[i] = sent[i]
  BY SliceBegins
<1> HIDE DEF x, y, bytes, l
<1>4. q = [pending |-> x, expected |-> IF k < 7 THEN 0 ELSE l, state |-> "reading"]
  BY <1>1 DEF Given, x, l
<1>5. q.pending \o y = bytes /\ q.state = "reading" /\ q.expected = IF k < 7 THEN 0 ELSE l
  BY <1>2, <1>4
<1>6. 3 \in 0..9 /\ n \in 0..MAX_RESULT_BYTES /\ 9 \in Nat
  BY <1>1
<1>7. Decimal(ToString(3), 9) = 3 /\ Decimal(ToString(n), MAX_RESULT_BYTES) = n
  BY <1>1, <1>6, DecimalFacts
<1> DEFINE header == IF Len(bytes) >= 4 THEN Decimal(bytes[4], 9) ELSE 0
           expected == IF q.expected = 0 /\ Len(bytes) >= 4 /\ Len(bytes) >= 4 + header
                       THEN ExpectedTotal(bytes, header) ELSE q.expected
           state == IF expected = 0 \/ Len(bytes) < expected THEN "reading"
                    ELSE IF Len(bytes) > expected THEN "failed" ELSE "done"
<1>8. ReadPacket(q, y) = [pending |-> bytes, expected |-> expected, state |-> state]
  <2> HIDE DEF header, expected
  <2>1. ReadPacket(q, y)
          = [pending |-> bytes, expected |-> expected,
             state |-> IF q.state # "reading" THEN q.state
                       ELSE IF expected = 0 \/ Len(bytes) < expected THEN "reading"
                       ELSE IF Len(bytes) > expected THEN "failed" ELSE "done"]
    BY <1>5 DEF ReadPacket, header, expected
  <2> QED BY <1>5, <2>1
<1> HIDE DEF state
<1>9. m >= 4 => header = 3
  BY <1>3, <1>7
<1>10. m >= 7 => ExpectedTotal(bytes, 3) = l
  BY <1>1, <1>3, <1>7 DEF ExpectedTotal
<1> HIDE DEF header
<1>11. expected = IF m < 7 THEN 0 ELSE l
  <2>1. CASE k >= 7
    BY <1>1, <1>5, <2>1
  <2>2. CASE k < 7 /\ m >= 7
    <3>1. q.expected = 0 /\ Len(bytes) >= 4 /\ Len(bytes) >= 4 + header /\ header = 3
      BY <1>3, <1>5, <1>9, <2>2
    <3> QED BY <1>10, <2>2, <3>1
  <2>3. CASE k < 7 /\ m < 7
    <3>1. q.expected = 0 /\ ~(Len(bytes) >= 4 /\ Len(bytes) >= 4 + header)
      BY <1>3, <1>5, <1>9, <2>3
    <3> QED BY <2>3, <3>1
  <2> QED BY <2>1, <2>2, <2>3
<1> HIDE DEF expected
<1>12. state = IF m < l THEN "reading" ELSE "done"
  BY <1>1, <1>3, <1>11 DEF state, l
<1> QED BY <1>8, <1>11, <1>12 DEF Given, bytes, l, y

LEMMA PacketFacts ==
    ASSUME NEW S, "0" \in S, "{" \in S, "}" \in S, ToString(3) \in S,
           NEW data \in Seq(S), ToString(Len(data)) \in S
    PROVE  LET sent == EncodePacket(data)
           IN  /\ sent \in Seq(S) /\ Len(sent) = 7 + Len(data)
               /\ sent[4] = ToString(3) /\ sent[6] = ToString(Len(data))
               /\ Slice(sent, 7, Len(sent)) = data
<1> DEFINE a == "0"
           b == ToString(3)
           c == "{"
           d == ToString(Len(data))
           e == "}"
<1>1. a \in S /\ b \in S /\ c \in S /\ d \in S /\ e \in S
  OBVIOUS
<1>2. EncodePacket(data) = Framed(a, b, c, d, e, data)
  <2>1. Len(<<c, d, e>>) = 3
    OBVIOUS
  <2> QED BY <2>1 DEF EncodePacket, Framed
<1> HIDE DEF a, b, c, d, e
<1>3. Frames(S, Framed(a, b, c, d, e, data), b, d, data)
  BY <1>1, PacketShape, Zenon
<1>4. Frames(S, EncodePacket(data), b, d, data)
  BY <1>2, <1>3
<1> QED BY <1>4 DEF b, d, Frames

(***************************************************************************)
(* The output of a query.  Its symbols are strings, and the two numerals   *)
(* of a packet.                                                            *)
(***************************************************************************)
\* mysql does not write the end marker, nor what would end in one.
UnmarkedOutput(data) ==
    /\ data \in Seq(STRING)
    /\ \A i \in 0 .. Len(data) - 1 : ~StandsAt(EndMarker, Concat(data, EndMarker), i)

Alphabet(data, category) ==
    STRING \cup {"_", "B", "E", "S", "\n", "0", "{", "}", ToString(3), ToString(Len(data)), category}

LineOf(category, remote) == IF remote THEN StatusLine(category) ELSE <<>>

StreamOf(data, category, remote) == Written(data, LineOf(category, remote))

TailOf(remote) == IF remote THEN 6 ELSE 0

LEMMA ThreeOf ==
    ASSUME NEW S, NEW a \in S, NEW b \in S
    PROVE  <<a, b, a>> \in Seq(S) /\ Len(<<a, b, a>>) = 3
OBVIOUS

LEMMA FourOf ==
    ASSUME NEW S, NEW a \in S, NEW b \in S, NEW c \in S
    PROVE  <<a, b, a, c>> \in Seq(S) /\ Len(<<a, b, a, c>>) = 4
OBVIOUS

LEMMA OneOf ==
    ASSUME NEW S, NEW a \in S
    PROVE  <<a>> \in Seq(S) /\ Len(<<a>>) = 1 /\ <<a>>[1] = a
OBVIOUS

LEMMA MarksOf ==
    ASSUME NEW S, "_" \in S, "B" \in S, "E" \in S, "S" \in S, "\n" \in S
    PROVE  Marks(S)
<1>1. StartMarker \in Seq(S) /\ Len(StartMarker) = 4
  BY FourOf, Zenon DEF StartMarker
<1>2. EndMarker \in Seq(S) /\ Len(EndMarker) = 3
  BY ThreeOf, Zenon DEF EndMarker
<1>3. ResultPrefix \in Seq(S) /\ Len(ResultPrefix) = 3
  BY ThreeOf, Zenon DEF ResultPrefix
<1>4. <<"\n">> \in Seq(S) /\ Len(<<"\n">>) = 1 /\ <<"\n">>[1] = "\n"
  BY OneOf, Zenon
<1> QED BY <1>1, <1>2, <1>3, <1>4 DEF Marks

LEMMA WiderSeq ==
    ASSUME NEW S, NEW T, S \subseteq T, NEW s \in Seq(S)
    PROVE  s \in Seq(T)
OBVIOUS

LEMMA OutputFacts ==
    ASSUME NEW data, UnmarkedOutput(data), NEW category, NEW remote \in BOOLEAN
    PROVE  /\ Marks(Alphabet(data, category)) /\ data \in Seq(Alphabet(data, category))
           /\ Carries(Alphabet(data, category), StreamOf(data, category, remote), Len(data), TailOf(remote))
           /\ Slice(StreamOf(data, category, remote), 4, 4 + Len(data)) = data
           /\ remote => StreamOf(data, category, remote)[12 + Len(data)] = category
<1> DEFINE S == Alphabet(data, category)
           line == LineOf(category, remote)
<1>1. STRING \subseteq S
  BY DEF Alphabet
<1>2. /\ "_" \in S /\ "B" \in S /\ "E" \in S /\ "S" \in S /\ "\n" \in S /\ category \in S
  BY DEF Alphabet
<1>3. data \in Seq(STRING)
  BY DEF UnmarkedOutput
<1> HIDE DEF S
<1>4. data \in Seq(S)
  BY <1>1, <1>3, WiderSeq
<1>5. Marks(S)
  BY <1>2, MarksOf
<1>6. ResultPrefix[1] # ResultPrefix[2]
  BY DEF ResultPrefix
<1>7. CASE remote
  <2> DEFINE t == StatusLine(category)
  <2>1. line = t /\ TailOf(remote) = 6
    BY <1>7 DEF LineOf, TailOf
  <2>2. t \in Seq(S) /\ Len(t) = 6 /\ ~StandsAt(ResultPrefix, t, 0) /\ StandsAt(ResultPrefix, t, 1)
        /\ t[5] = category /\ t[6] = "\n"
    BY <1>2, <1>5, <1>6, StatusFacts
  <2> HIDE DEF t
  <2>3. /\ Carries(S, Written(data, t), Len(data), Len(t))
        /\ Slice(Written(data, t), 4, 4 + Len(data)) = data
        /\ Written(data, t)[12 + Len(data)] = t[5]
    BY <1>4, <1>5, <2>2, OutputCarries DEF UnmarkedOutput
  <2> QED BY <1>4, <1>5, <2>1, <2>2, <2>3 DEF StreamOf, S
<1>8. CASE ~remote
  <2> DEFINE t == <<>>
  <2>1. line = t /\ TailOf(remote) = 0
    BY <1>8 DEF LineOf, TailOf
  <2>2. t \in Seq(S) /\ Len(t) = 0
    OBVIOUS
  <2> HIDE DEF t
  <2>3. /\ Carries(S, Written(data, t), Len(data), Len(t))
        /\ Slice(Written(data, t), 4, 4 + Len(data)) = data
    <3>1. Len(t) \in {0, 6} /\ Len(t) # 6
      BY <2>2
    <3>2. \A i \in 0 .. Len(data) - 1 : ~StandsAt(EndMarker, Concat(data, EndMarker), i)
      BY DEF UnmarkedOutput
    <3>3. Len(t) = 6 => /\ ~StandsAt(ResultPrefix, t, 0) /\ StandsAt(ResultPrefix, t, 1)
                        /\ t[6] = "\n"
      BY <3>1
    <3> QED BY <1>4, <1>5, <2>2, <3>1, <3>2, <3>3, OutputCarries
  <2> QED BY <1>4, <1>5, <1>8, <2>1, <2>2, <2>3 DEF StreamOf, S
<1> QED BY <1>7, <1>8

\* A parser that was given k symbols of the output of data.
Took(p, data, category, remote, k) ==
    Held(p, StreamOf(data, category, remote), Len(data), TailOf(remote), k)

\* ChunkingIrrelevant, of a parser and what has not arrived.
Keeping(p, data, left) ==
    /\ p.state # "too_large" => IsPrefix(p.buffer, data)
    /\ p.state = "too_large" => Len(data) > MAX_RESULT_BYTES
    /\ p.state \in {"result", "done"} => p.buffer = data
    /\ left = <<>> => p.state \in {"done", "too_large"}

LEMMA TookMeans ==
    ASSUME NEW data, UnmarkedOutput(data), NEW category, NEW remote \in BOOLEAN,
           NEW k \in Nat, k <= Len(StreamOf(data, category, remote)),
           NEW p, Took(p, data, category, remote, k)
    PROVE  /\ Keeping(p, data, From(StreamOf(data, category, remote), k))
           /\ p.state = "done" => p.buffer = data /\ Len(data) <= MAX_RESULT_BYTES
<1> DEFINE S == Alphabet(data, category)
           str == StreamOf(data, category, remote)
           n == Len(data)
           tail == TailOf(remote)
           left == From(str, k)
<1>1. Carries(S, str, n, tail) /\ data \in Seq(S) /\ Slice(str, 4, 4 + n) = data
  BY OutputFacts
<1>2. Held(p, str, n, tail, k)
  BY DEF Took
<1> HIDE DEF S, str, n, tail
<1>3. Len(data) = n
  BY DEF n
<1>4. /\ p.state # "too_large" => IsPrefix(p.buffer, data)
      /\ p.state = "too_large" => n > MAX_RESULT_BYTES
      /\ p.state \in {"result", "done"} => p.buffer = data
      /\ p.state = "done" => n <= MAX_RESULT_BYTES
      /\ k = Len(str) => p.state \in {"done", "too_large"}
  BY <1>1, <1>2, <1>3, HeldMeans
<1>5. left = <<>> => k = Len(str)
  <2> DEFINE o == 0
  <2>1. str \in Seq(S) /\ k <= Len(str) /\ o \in Nat /\ k + o <= Len(str) /\ Len(str) \in Nat
    BY <1>1 DEF Carries, str
  <2> HIDE DEF o
  <2>2. Len(left) = Len(str) - k
    BY <2>1, ChunkFacts
  <2> HIDE DEF left
  <2> QED BY <2>1, <2>2
<1> QED BY <1>3, <1>4, <1>5 DEF Keeping, str

\* Of a session, the category that is read is the one that was written.
LEMMA TookStatus ==
    ASSUME NEW data, UnmarkedOutput(data), NEW category, category # "\n",
           NEW k \in Nat, NEW p, Took(p, data, category, TRUE, k), p.state = "done"
    PROVE  p.pending[1] = category
<1> DEFINE S == Alphabet(data, category)
           str == StreamOf(data, category, TRUE)
           n == Len(data)
           tail == TailOf(TRUE)
<1>1. /\ Carries(S, str, n, tail) /\ data \in Seq(S) /\ Slice(str, 4, 4 + n) = data
      /\ str[12 + n] = category
  BY OutputFacts
<1>2. Held(p, str, n, tail, k)
  BY DEF Took
<1>3. tail = 6
  BY DEF TailOf
<1> HIDE DEF S, str, n, tail
<1>4. Len(data) = n
  BY DEF n
<1>5. p.state = "done" /\ tail = 6 /\ str[12 + n] # "\n" => p.pending = <<str[12 + n]>>
  BY <1>1, <1>2, <1>4, HeldMeans
<1>6. p.pending = <<str[12 + n]>>
  BY <1>1, <1>3, <1>5
<1> QED BY <1>1, <1>6

\* Nothing has arrived.
LEMMA TookNothing ==
    ASSUME NEW data, UnmarkedOutput(data), NEW category, NEW remote \in BOOLEAN
    PROVE  /\ Took(NewParser, data, category, remote, 0)
           /\ 0 <= Len(StreamOf(data, category, remote))
           /\ From(StreamOf(data, category, remote), 0) = StreamOf(data, category, remote)
<1> DEFINE str == StreamOf(data, category, remote)
           S == Alphabet(data, category)
<1>1. str \in Seq(S)
  BY OutputFacts DEF Carries
<1> HIDE DEF str, S
<1>2. Slice(str, 0, 0) = <<>> /\ From(str, 0) = str /\ 0 <= Len(str)
  BY <1>1 DEF Slice, From
<1>3. AtStart(NewParser, str, 0)
  BY <1>2 DEF AtStart, Keeps, NewParser
<1> QED BY <1>2, <1>3 DEF Took, Held, str

\* The next m symbols have arrived.
Fed(p, chunk, remote) == IF remote THEN ParseSession(p, chunk) ELSE ExtractFrame(p, chunk)

LEMMA TookMore ==
    ASSUME NEW data, UnmarkedOutput(data), NEW category, NEW remote \in BOOLEAN,
           NEW k \in Nat, k <= Len(StreamOf(data, category, remote)),
           NEW p, Took(p, data, category, remote, k),
           NEW left, left = From(StreamOf(data, category, remote), k),
           NEW m \in Nat, m <= Len(left)
    PROVE  /\ k + m <= Len(StreamOf(data, category, remote))
           /\ From(left, m) = From(StreamOf(data, category, remote), k + m)
           /\ Took(Fed(p, SubSeq(left, 1, m), remote), data, category, remote, k + m)
<1> DEFINE S == Alphabet(data, category)
           str == StreamOf(data, category, remote)
           n == Len(data)
           tail == TailOf(remote)
           e == k + m
           chunk == SubSeq(left, 1, m)
<1>1. Marks(S) /\ Carries(S, str, n, tail)
  BY OutputFacts
<1>2. Held(p, str, n, tail, k)
  BY DEF Took
<1>3. left = From(str, k) /\ k <= Len(str)
  OBVIOUS
<1> HIDE DEF S, str, n, tail
<1>4. str \in Seq(S) /\ Len(str) \in Nat
  BY <1>1 DEF Carries
<1>5. Len(left) = Len(str) - k
  <2> DEFINE o == 0
  <2>1. o \in Nat /\ k + o <= Len(str)
    BY <1>3, <1>4
  <2> HIDE DEF o
  <2> QED BY <1>3, <1>4, <2>1, ChunkFacts
<1>6. e \in Nat /\ k <= e /\ e <= Len(str) /\ k + m <= Len(str)
  BY <1>4, <1>5
<1>7. chunk = Slice(str, k, e) /\ From(left, m) = From(str, e)
  <2>1. SubSeq(From(str, k), 1, m) = Slice(str, k, k + m) /\ From(From(str, k), m) = From(str, k + m)
    BY <1>4, <1>6, ChunkFacts
  <2> QED BY <1>3, <2>1
<1> HIDE DEF e, chunk
<1>8. /\ tail = 6 => Held(ParseSession(p, chunk), str, n, tail, e)
      /\ tail = 0 => Held(ExtractFrame(p, chunk), str, n, tail, e)
  BY <1>1, <1>2, <1>6, <1>7, ParseStep
<1>9. (remote => tail = 6) /\ (~remote => tail = 0)
  BY DEF TailOf, tail
<1>10. Held(Fed(p, chunk, remote), str, n, tail, e)
  BY <1>8, <1>9 DEF Fed
<1> QED BY <1>6, <1>7, <1>10 DEF Took, str, n, tail, e, chunk

(***************************************************************************)
(* The parser's side: when it is done it has the body, whatever arrives.   *)
(***************************************************************************)
Unmarked == UnmarkedOutput(body)

Stream == StreamOf(body, status, session)

Reading(k) == wire = From(Stream, k) /\ Took(parser, body, status, session, k)

ParserInv ==
    /\ session \in BOOLEAN
    /\ phase \in {"new", "sent"} => parser = NewParser /\ body = <<>>
    /\ phase = "reading" => \E k \in 0..Len(Stream) : Reading(k)
    /\ phase = "replied" /\ session => parser.buffer = body /\ Len(body) <= MAX_RESULT_BYTES
    /\ ChunkingIrrelevant

LEMMA ParserInitially == Init => ParserInv
<1>1. IsPrefix(<<>>, <<>>)
  BY DEF IsPrefix
<1> QED BY <1>1 DEF Init, ParserInv, ChunkingIrrelevant, NewParser

\* While the output is read, what the parser took is all that matters.
LEMMA ReadingKeeps ==
    ASSUME NEW data, UnmarkedOutput(data), NEW category, NEW remote \in BOOLEAN,
           NEW k \in Nat, k <= Len(StreamOf(data, category, remote)),
           NEW p, Took(p, data, category, remote, k),
           NEW left, left = From(StreamOf(data, category, remote), k)
    PROVE  Keeping(p, data, left)
BY TookMeans

LEMMA StreamLength ==
    ASSUME NEW data, UnmarkedOutput(data), NEW category, NEW remote \in BOOLEAN
    PROVE  Len(StreamOf(data, category, remote)) \in Nat
BY OutputFacts DEF Carries

LEMMA ParserStep ==
    ASSUME ParserInv, Unmarked, Unmarked', [Next]_vars
    PROVE  ParserInv'
<1> USE DEF query
<1>1. session \in BOOLEAN /\ ChunkingIrrelevant /\ UnmarkedOutput(body) /\ UnmarkedOutput(body')
  BY DEF ParserInv, Unmarked
<1>2. CASE UNCHANGED vars
  BY <1>2 DEF vars, ParserInv, Reading, Stream, ChunkingIrrelevant
<1>3. CASE Prepare
  <2>1. /\ phase = "new" /\ phase' \in {"sent", "done"}
        /\ UNCHANGED <<session, body, parser>>
    BY <1>3 DEF Prepare, Ends
  <2> QED BY <2>1 DEF ParserInv, ChunkingIrrelevant
<1>4. CASE Execute
  <2>1. phase = "sent" /\ phase' = "reading" /\ UNCHANGED <<session, parser>>
    BY <1>4 DEF Execute
  <2>2. parser = NewParser
    BY <2>1 DEF ParserInv
  <2>3. ASSUME NEW xml, NEW category, Output(xml, category)
        PROVE  wire' = StreamOf(body', status', session)
    BY <2>3 DEF Output, StreamOf, LineOf, Written, StatusLine, Concat
  <2>4. wire' = StreamOf(body', status', session)
    BY <1>4, <2>3, Zenon DEF Execute
  <2>5. /\ Took(parser', body', status', session, 0) /\ 0 <= Len(StreamOf(body', status', session))
        /\ wire' = From(StreamOf(body', status', session), 0)
    BY <1>1, <2>1, <2>2, <2>4, TookNothing
  <2>6. Keeping(parser', body', wire')
    <3> DEFINE k == 0
    <3>1. k \in Nat /\ k <= Len(StreamOf(body', status', session))
          /\ Took(parser', body', status', session, k)
          /\ wire' = From(StreamOf(body', status', session), k)
      BY <2>5
    <3> HIDE DEF k
    <3> QED BY <1>1, <3>1, ReadingKeeps
  <2>7. 0 \in 0..Len(Stream') /\ Reading(0)'
    BY <1>1, <2>1, <2>5, StreamLength DEF Reading, Stream
  <2> QED BY <1>1, <2>1, <2>6, <2>7 DEF ParserInv, ChunkingIrrelevant, Keeping
<1>5. ASSUME NEW n \in 1..MaxChunk, Arrives(n) PROVE ParserInv'
  <2>1. /\ phase = "reading" /\ n <= Len(wire) /\ wire' = From(wire, n)
        /\ UNCHANGED <<phase, session, status, body>>
    BY <1>5 DEF Arrives, Chunk
  <2>2. PICK k \in 0..Len(Stream) : Reading(k)
    BY <2>1 DEF ParserInv
  <2> DEFINE str == StreamOf(body, status, session)
             chunk == SubSeq(wire, 1, n)
             e == k + n
  <2>3. k \in Nat /\ k <= Len(str) /\ wire = From(str, k) /\ Took(parser, body, status, session, k)
    BY <1>1, <2>2, StreamLength DEF Reading, Stream
  <2>4. n \in Nat
    OBVIOUS
  <2>5. /\ e <= Len(str) /\ From(wire, n) = From(str, e)
        /\ Took(Fed(parser, chunk, session), body, status, session, e)
    <3>1. n \in Nat /\ n <= Len(wire)
      BY <2>1
    <3> QED BY <1>1, <2>3, <3>1, TookMore
  <2>6. parser' = Fed(parser, chunk, session)
    BY <1>5 DEF Arrives, Fed
  <2>7. e \in Nat /\ Len(str) \in Nat
    BY <1>1, <2>3, <2>4, StreamLength
  <2> HIDE DEF e, chunk
  <2>8. Took(parser', body, status, session, e) /\ wire' = From(str, e)
    BY <2>1, <2>5, <2>6
  <2>9. Keeping(parser', body, wire')
    BY <1>1, <2>5, <2>7, <2>8, ReadingKeeps
  <2>10. e \in 0..Len(Stream') /\ Reading(e)'
    BY <2>1, <2>5, <2>7, <2>8 DEF Reading, Stream
  <2> QED BY <1>1, <2>1, <2>9, <2>10 DEF ParserInv, ChunkingIrrelevant, Keeping
<1>6. CASE TooLarge
  BY <1>1, <1>6 DEF TooLarge, Ends, ParserInv, ChunkingIrrelevant
<1>7. CASE Answer
  <2>1. /\ phase = "reading" /\ phase' \in {"replied", "done"}
        /\ UNCHANGED <<session, body, parser>>
    BY <1>7 DEF Answer, Ends
  <2>0. session => parser.state = "done"
    BY <1>7 DEF Answer
  <2>2. PICK k \in 0..Len(Stream) : Reading(k)
    BY <2>1 DEF ParserInv
  <2>3. parser.state = "done" => parser.buffer = body /\ Len(body) <= MAX_RESULT_BYTES
    <3>1. /\ k \in Nat /\ k <= Len(StreamOf(body, status, session))
          /\ Took(parser, body, status, session, k)
      BY <1>1, <2>2, StreamLength DEF Reading, Stream
    <3> QED BY <1>1, <3>1, TookMeans
  <2> QED BY <1>1, <2>0, <2>1, <2>3 DEF ParserInv, ChunkingIrrelevant
<1>8. ASSUME NEW n \in 1..MaxChunk, PacketArrives(n) PROVE ParserInv'
  BY <1>1, <1>8 DEF PacketArrives, ParserInv, ChunkingIrrelevant
<1>9. CASE Parse
  BY <1>1, <1>9 DEF Parse, Ends, ParserInv, ChunkingIrrelevant
<1> QED BY <1>2, <1>3, <1>4, <1>5, <1>6, <1>7, <1>8, <1>9 DEF Next, Ended

\* However the output is cut into chunks, the parser of a session or of a
\* runner keeps the body and only the body, finds it too large exactly when it
\* is, and misses no marker.  Of the body it is assumed that the end marker does
\* not occur in it before its end.
THEOREM ChunkingNeverMatters == Spec /\ []Unmarked => []ChunkingIrrelevant
<1>1. ParserInv /\ Unmarked /\ Unmarked' /\ [Next]_vars => ParserInv'
  BY ParserStep
<1>2. ParserInv => ChunkingIrrelevant
  BY DEF ParserInv
<1> QED BY ParserInitially, <1>1, <1>2, PTL DEF Spec

(***************************************************************************)
(* The client's side: the packet of a session's answer.                    *)
(***************************************************************************)
\* A packet of data of which k symbols were given to the client, and left not.
Sent(q, data, left, k) ==
    LET sent == EncodePacket(data)
    IN  k <= Len(sent) /\ left = From(sent, k) /\ Given(q, sent, k)

\* PacketIntact, of a packet and what has not arrived.
Intact(q, data, left) ==
    /\ q.state # "failed"
    /\ q.state = "done" <=> left = <<>>
    /\ q.state = "done" => PacketBody(q) = data

LEMMA PacketOf ==
    ASSUME NEW data \in Seq(STRING)
    PROVE  Frames(Alphabet(data, "OK"), EncodePacket(data), ToString(3), ToString(Len(data)), data)
<1> DEFINE S == Alphabet(data, "OK")
<1>1. "0" \in S /\ "{" \in S /\ "}" \in S /\ ToString(3) \in S /\ ToString(Len(data)) \in S
  BY DEF Alphabet
<1>2. STRING \subseteq S
  BY DEF Alphabet
<1> HIDE DEF S
<1>3. data \in Seq(S)
  BY <1>2, WiderSeq
<1>4. LET sent == EncodePacket(data)
      IN  /\ sent \in Seq(S) /\ Len(sent) = 7 + Len(data)
          /\ sent[4] = ToString(3) /\ sent[6] = ToString(Len(data))
          /\ Slice(sent, 7, Len(sent)) = data
  BY <1>1, <1>3, PacketFacts
<1> QED BY <1>4 DEF Frames, S

LEMMA SentNothing ==
    ASSUME NEW data \in Seq(STRING)
    PROVE  Sent(NewPacket, data, EncodePacket(data), 0)
<1> DEFINE S == Alphabet(data, "OK")
           sent == EncodePacket(data)
<1>1. sent \in Seq(S) /\ Len(sent) = 7 + Len(data)
  BY PacketOf DEF Frames
<1>2. Len(data) \in Nat
  OBVIOUS
<1> HIDE DEF S, sent
<1>3. Slice(sent, 0, 0) = <<>> /\ From(sent, 0) = sent /\ 0 < Len(sent)
  BY <1>1, <1>2 DEF Slice, From
<1>4. Given(NewPacket, sent, 0)
  BY <1>3 DEF Given, NewPacket
<1> QED BY <1>3, <1>4 DEF Sent, sent

LEMMA SentMore ==
    ASSUME NumeralsDiffer, NEW data \in Seq(STRING), Len(data) <= MAX_RESULT_BYTES,
           NEW k \in Nat, NEW q, NEW left, Sent(q, data, left, k),
           NEW m \in Nat, 0 < m, m <= Len(left)
    PROVE  Sent(ReadPacket(q, SubSeq(left, 1, m)), data, From(left, m), k + m)
<1> DEFINE S == Alphabet(data, "OK")
           sent == EncodePacket(data)
           n == Len(data)
           e == k + m
<1>1. sent \in Seq(S) /\ Len(sent) = 7 + n /\ sent[4] = ToString(3) /\ sent[6] = ToString(n)
  BY PacketOf DEF Frames
<1>2. n \in Nat /\ n <= MAX_RESULT_BYTES
  OBVIOUS
<1>3. k <= Len(sent) /\ left = From(sent, k) /\ Given(q, sent, k)
  BY DEF Sent
<1> HIDE DEF S, sent, n
<1>4. Len(left) = Len(sent) - k
  <2> DEFINE o == 0
  <2>1. o \in Nat /\ k + o <= Len(sent)
    BY <1>1, <1>2, <1>3
  <2> HIDE DEF o
  <2> QED BY <1>1, <1>3, <2>1, ChunkFacts
<1>5. e \in Nat /\ k < e /\ e <= Len(sent) /\ k + m <= Len(sent)
  BY <1>1, <1>2, <1>4
<1>6. SubSeq(left, 1, m) = Slice(sent, k, e) /\ From(left, m) = From(sent, e)
  <2>1. SubSeq(From(sent, k), 1, m) = Slice(sent, k, k + m) /\ From(From(sent, k), m) = From(sent, k + m)
    BY <1>1, <1>5, ChunkFacts
  <2> QED BY <1>3, <2>1
<1> HIDE DEF e
<1>7. Given(ReadPacket(q, Slice(sent, k, e)), sent, e)
  BY <1>1, <1>2, <1>3, <1>5, PacketStep
<1>8. Sent(ReadPacket(q, SubSeq(left, 1, m)), data, From(left, m), e)
  BY <1>5, <1>6, <1>7 DEF Sent, sent
<1> QED BY <1>8 DEF e

LEMMA SentMeans ==
    ASSUME NEW data \in Seq(STRING), NEW k \in Nat, NEW q, NEW left, Sent(q, data, left, k)
    PROVE  Intact(q, data, left)
<1> DEFINE S == Alphabet(data, "OK")
           sent == EncodePacket(data)
           l == Len(sent)
           t == Slice(sent, 0, k)
<1>1. sent \in Seq(S) /\ Slice(sent, 7, Len(sent)) = data /\ Len(sent) = 7 + Len(data)
  BY PacketOf DEF Frames
<1>2. k <= Len(sent) /\ left = From(sent, k) /\ Given(q, sent, k)
  BY DEF Sent
<1>3. l \in Nat /\ 7 <= l
  BY <1>1
<1> HIDE DEF S, sent
<1>4. Len(left) = l - k
  <2> DEFINE o == 0
  <2>1. o \in Nat /\ k + o <= Len(sent)
    BY <1>2, <1>3
  <2> HIDE DEF o
  <2> QED BY <1>1, <1>2, <2>1, ChunkFacts
<1>5. left = <<>> <=> k = l
  <2>1. left \in Seq(S)
    BY <1>1, <1>2 DEF From
  <2> QED BY <1>2, <1>3, <1>4, <2>1
<1>6. q.pending = t /\ q.state = IF k < l THEN "reading" ELSE "done"
  BY <1>2 DEF Given
<1>7. k = l => t = sent
  <2> SUFFICES ASSUME k = l PROVE t = sent
    OBVIOUS
  <2>1. k <= Len(sent) /\ Len(sent) = k
    BY <1>3
  <2>2. t \in Seq(S) /\ Len(t) = k /\ \A i \in 1..k : t[i] = sent[i]
    BY <1>1, <2>1, SliceBegins
  <2> HIDE DEF t
  <2> QED BY <1>1, <2>1, <2>2, SameSequence
<1>8. From(sent, 7) = data
  BY <1>1, <1>3, FromFacts
<1>9. q.state = "done" => PacketBody(q) = data
  <2> HIDE DEF t
  <2> QED BY <1>2, <1>3, <1>6, <1>7, <1>8 DEF PacketBody
<1> QED BY <1>2, <1>3, <1>5, <1>6, <1>9 DEF Intact

PacketInv ==
    /\ phase \in {"new", "sent", "reading"} => packet = NewPacket
    /\ phase = "replied" /\ session => \E k \in Nat : Sent(packet, body, wire, k)

LEMMA PacketNext ==
    ASSUME NumeralsDiffer, ParserInv, Unmarked, PacketInv, [Next]_vars
    PROVE  PacketInv'
<1> USE DEF query
<1>1. body \in Seq(STRING)
  BY DEF Unmarked, UnmarkedOutput
<1>2. CASE UNCHANGED vars
  BY <1>2 DEF vars, PacketInv
<1>3. CASE Prepare
  BY <1>3 DEF Prepare, Ends, PacketInv
<1>4. CASE Execute
  BY <1>4 DEF Execute, PacketInv
<1>5. ASSUME NEW n \in 1..MaxChunk, Arrives(n) PROVE PacketInv'
  BY <1>5 DEF Arrives, PacketInv
<1>6. CASE TooLarge
  BY <1>6 DEF TooLarge, Ends, PacketInv
<1>7. CASE Answer
  <2>1. /\ phase = "reading" /\ phase' \in {"replied", "done"}
        /\ UNCHANGED <<session, body, parser, packet, status>>
    BY <1>7 DEF Answer, Ends
  <2>2. packet = NewPacket
    BY <2>1 DEF PacketInv
  <2>3. ASSUME session, phase' = "replied" PROVE wire' = EncodePacket(body)
    <3>1. parser.state = "done" /\ wire' = EncodePacket(parser.buffer)
      BY <1>7, <2>3 DEF Answer, Ends
    <3>2. parser.buffer = body
      BY <3>1 DEF ParserInv, ChunkingIrrelevant
    <3> QED BY <3>1, <3>2
  <2>4. ASSUME session, phase' = "replied" PROVE Sent(packet', body', wire', 0)
    BY <1>1, <2>1, <2>2, <2>3, <2>4, SentNothing
  <2> QED BY <2>1, <2>4 DEF PacketInv
<1>8. ASSUME NEW n \in 1..MaxChunk, PacketArrives(n) PROVE PacketInv'
  <2>1. /\ phase = "replied" /\ session /\ n <= Len(wire) /\ wire' = From(wire, n)
        /\ packet' = ReadPacket(packet, SubSeq(wire, 1, n))
        /\ UNCHANGED <<phase, session, body>>
    BY <1>8 DEF PacketArrives, Chunk
  <2>2. PICK k \in Nat : Sent(packet, body, wire, k)
    BY <2>1 DEF PacketInv
  <2>3. Len(body) <= MAX_RESULT_BYTES /\ n \in Nat /\ 0 < n /\ n <= Len(wire)
    BY <2>1 DEF ParserInv
  <2>4. Sent(ReadPacket(packet, SubSeq(wire, 1, n)), body, From(wire, n), k + n)
    BY <1>1, <2>2, <2>3, SentMore
  <2>5. Sent(packet', body', wire', k + n) /\ k + n \in Nat
    BY <2>1, <2>3, <2>4
  <2> QED BY <2>1, <2>5 DEF PacketInv
<1>9. CASE Parse
  BY <1>9 DEF Parse, Ends, PacketInv
<1> QED BY <1>2, <1>3, <1>4, <1>5, <1>6, <1>7, <1>8, <1>9 DEF Next, Ended

\* However the packet of a session's answer is cut, the client of the broker
\* reads the body the broker sent, at its last byte and not before; with
\* ChunkingNeverMatters, that is what mysql wrote.
THEOREM PacketsStayIntact ==
    ASSUME NumeralsDiffer
    PROVE  Spec /\ []Unmarked => []PacketIntact
<1>1. Init => PacketInv
  BY DEF Init, PacketInv
<1>2. PacketInv /\ ParserInv /\ Unmarked /\ [Next]_vars => PacketInv'
  BY PacketNext
<1>3. ParserInv /\ Unmarked /\ Unmarked' /\ [Next]_vars => ParserInv'
  BY ParserStep
<1>4. PacketInv /\ Unmarked => PacketIntact
  <2> SUFFICES ASSUME PacketInv, Unmarked, phase = "replied", session PROVE Intact(packet, body, wire)
    BY DEF PacketIntact, Intact
  <2>1. PICK k \in Nat : Sent(packet, body, wire, k)
    BY DEF PacketInv
  <2>2. body \in Seq(STRING)
    BY DEF Unmarked, UnmarkedOutput
  <2> QED BY <2>1, <2>2, SentMeans
<1> QED BY ParserInitially, <1>1, <1>2, <1>3, <1>4, PTL DEF Spec
=============================================================================
