------------------------- MODULE CandidateSearchProofs -------------------------
(***************************************************************************)
(* Theorems about CandidateSearch for every catalog, every list of         *)
(* providers and every answer they may give.                               *)
(***************************************************************************)
EXTENDS CandidateSearch, FiniteSetTheorems, TLAPS

-------------------------------------------------------------------------------
(* Numbers.  The library's induction theorems take a predicate as their    *)
(* parameter; here it is a set.                                            *)

\* A set of numbers has a least one: an interval of least length from 1 on.
LEMMA LeastNumber ==
  ASSUME NEW T \in SUBSET Nat, T # {}
  PROVE  \E n \in T : \A m \in T : n <= m
<1> DEFINE Below == {1..n : n \in T}
<1>1. IsWellFoundedOn(StrictSubsetOrdering(Nat), FiniteSubsetsOf(Nat))
  BY FS_StrictSubsetOrderingWellFounded
<1>2. Below \subseteq FiniteSubsetsOf(Nat)
  <2>1. \A n \in T : IsFiniteSet(1..n) /\ 1..n \subseteq Nat
    BY FS_Interval
  <2> QED
    BY <2>1 DEF FiniteSubsetsOf
<1>3. Below # {}
  OBVIOUS
<1>4. PICK x \in Below : \A y \in Below : ~ (<<y, x>> \in StrictSubsetOrdering(Nat))
  <2> HIDE DEF Below
  <2> QED
    BY <1>1, <1>2, <1>3, WFMin
<1>5. PICK n \in T : x = 1..n
  OBVIOUS
<1>6. ASSUME NEW m \in T, m < n PROVE FALSE
  <2>1. 1..m \in Below /\ 1..m \subseteq 1..n /\ n \in 1..n /\ n \notin 1..m
    BY <1>6
  <2>2. <<1..m, x>> \in StrictSubsetOrdering(Nat)
    BY <1>5, <2>1 DEF StrictSubsetOrdering
  <2> QED
    BY <1>4, <2>1, <2>2
<1> QED
  BY <1>6

LEMMA SetInduction ==
  ASSUME NEW P \in SUBSET Nat, 0 \in P, \A n \in P : n + 1 \in P
  PROVE  P = Nat
<1> SUFFICES ASSUME P # Nat PROVE FALSE
  OBVIOUS
<1> DEFINE T == Nat \ P
<1>1. PICK n \in T : \A m \in T : n <= m
  BY LeastNumber
<1>2. n # 0 /\ n - 1 \in Nat
  OBVIOUS
<1>3. n - 1 \in P
  BY <1>1, <1>2
<1> QED
  BY <1>2, <1>3

\* What holds at 0 and carries over from each number to the next, up to N.
LEMMA StepByStep ==
  ASSUME NEW N \in Nat, NEW Q, 0 \in Q, \A n \in 1..N : n - 1 \in Q => n \in Q
  PROVE  0..N \subseteq Q
<1> DEFINE P == {n \in Nat : n <= N => n \in Q}
<1>1. 0 \in P
  OBVIOUS
<1>2. ASSUME NEW n \in P PROVE n + 1 \in P
  <2>1. n + 1 <= N => n + 1 \in 1..N /\ n <= N /\ (n + 1) - 1 = n
    OBVIOUS
  <2> QED
    BY <2>1
<1>3. P = Nat
  <2> HIDE DEF P
  <2>1. P \subseteq Nat
    BY DEF P
  <2> QED
    BY <1>1, <1>2, <2>1, SetInduction
<1> QED
  BY <1>3

\* A recursion from base by step, whose n-th value is in V[n] whenever the one
\* before is in V[n - 1], has a solution.
Recurs(N, V, base, step) ==
    base \in V[0] /\ \A n \in 1..N : \A v \in V[n - 1] : step[<<v, n>>] \in V[n]

Solves(f, N, base, step) ==
    f[0] = base /\ \A n \in 1..N : f[n] = step[<<f[n - 1], n>>]

LEMMA Recursion ==
  ASSUME NEW N \in Nat, NEW S, NEW V \in [0..N -> SUBSET S], NEW base, NEW step,
         Recurs(N, V, base, step)
  PROVE  \E f \in [0..N -> S] : Solves(f, N, base, step)
<1> USE DEF Recurs, Solves
<1> DEFINE Good(f, n) ==
             /\ f[0] = base /\ \A i \in 0..n : f[i] \in V[i]
             /\ \A i \in 1..n : f[i] = step[<<f[i - 1], i>>]
           Q == {n \in 0..N : \E f \in [0..N -> S] : Good(f, n)}
<1>1. 0 \in Q
  <2>1. base \in S
    OBVIOUS
  <2>2. [i \in 0..N |-> base] \in [0..N -> S] /\ Good([i \in 0..N |-> base], 0)
    BY <2>1
  <2>3. 0 \in 0..N
    OBVIOUS
  <2> HIDE DEF Good
  <2> QED
    BY <2>2, <2>3
<1>2. ASSUME NEW n \in 1..N, n - 1 \in Q PROVE n \in Q
  <2>1. PICK f \in [0..N -> S] : Good(f, n - 1)
    BY <1>2
  <2> DEFINE next == step[<<f[n - 1], n>>]
             g    == [f EXCEPT ![n] = next]
  <2>2. n - 1 \in 0..(n - 1) /\ n \in 0..N
    OBVIOUS
  <2>3. next \in V[n] /\ next \in S
    BY <2>1, <2>2
  <2> HIDE DEF next
  <2>4. g \in [0..N -> S] /\ g[n] = next
    BY <2>2, <2>3
  <2>5. \A i \in 0..(n - 1) : i # n /\ i \in 0..N /\ g[i] = f[i]
    OBVIOUS
  <2>6. \A i \in 1..n : i - 1 \in 0..(n - 1) /\ (i = n \/ i \in 1..(n - 1))
    OBVIOUS
  <2>7. \A i \in 0..n : i = n \/ i \in 0..(n - 1)
    OBVIOUS
  <2>8. 0 \in 0..(n - 1) /\ \A i \in 1..(n - 1) : i \in 0..(n - 1)
    OBVIOUS
  <2> HIDE DEF g
  <2>9. Good(g, n)
    <3>1. g[0] = base
      BY <2>1, <2>5, <2>8
    <3>2. \A i \in 0..n : g[i] \in V[i]
      BY <2>1, <2>3, <2>4, <2>5, <2>7
    <3>3. \A i \in 1..n : g[i] = step[<<g[i - 1], i>>]
      <4> SUFFICES ASSUME NEW i \in 1..n PROVE g[i] = step[<<g[i - 1], i>>]
        OBVIOUS
      <4>1. g[i - 1] = f[i - 1]
        BY <2>5, <2>6
      <4>2. CASE i = n
        BY <2>4, <4>1, <4>2 DEF next
      <4>3. CASE i \in 1..(n - 1)
        BY <2>1, <2>5, <2>8, <4>1, <4>3
      <4> QED
        BY <2>6, <4>2, <4>3
    <3> QED
      BY <3>1, <3>2, <3>3
  <2> QED
    BY <2>2, <2>4, <2>9
<1>3. N \in Q
  <2> HIDE DEF Q
  <2>1. 0..N \subseteq Q
    BY <1>1, <1>2, StepByStep
  <2> QED
    BY <2>1
<1> QED
  BY <1>3

LEMMA MinFact ==
  ASSUME NEW T \in SUBSET Nat, T # {}
  PROVE  Min(T) \in T /\ \A m \in T : Min(T) <= m
BY LeastNumber DEF Min

LEMMA MaxFact ==
  ASSUME NEW b \in Nat, NEW T \in SUBSET (0..b), T # {}
  PROVE  Max(T) \in T /\ \A m \in T : m <= Max(T)
<1> DEFINE Left == {b - m : m \in T}
<1>1. Left \in SUBSET Nat /\ Left # {}
  <2>1. \A m \in T : b - m \in Nat
    OBVIOUS
  <2> QED
    BY <2>1
<1>2. PICK l \in Left : \A m \in Left : l <= m
  BY <1>1, LeastNumber
<1>3. PICK n \in T : l = b - n
  OBVIOUS
<1>4. \A m \in T : m <= n
  BY <1>2, <1>3
<1> QED
  BY <1>4 DEF Max

\* The positions that a strict total order R assigns to the members of a finite
\* set are all the numbers up to its size, each once.
LEMMA Positions ==
  ASSUME NEW S, IsFiniteSet(S), NEW R \in SUBSET (S \X S),
         \A x \in S : <<x, x>> \notin R,
         \A x, y, z \in S : <<x, y>> \in R /\ <<y, z>> \in R => <<x, z>> \in R,
         \A x, y \in S : x # y => <<x, y>> \in R \/ <<y, x>> \in R
  PROVE  LET Place(x) == 1 + Cardinality({y \in S : <<y, x>> \in R})
         IN  /\ \A x \in S : Place(x) \in 1..Cardinality(S)
             /\ \A x, y \in S : <<x, y>> \in R <=> Place(x) < Place(y)
             /\ \A n \in 1..Cardinality(S) : \E x \in S : Place(x) = n
<1> DEFINE Before(x) == {y \in S : <<y, x>> \in R}
           Place(x)  == 1 + Cardinality(Before(x))
           place     == [x \in S |-> Place(x)]
<1>1. ASSUME NEW x \in S
      PROVE  /\ IsFiniteSet(Before(x)) /\ Cardinality(Before(x)) \in Nat
             /\ Place(x) \in 1..Cardinality(S)
  <2>1. Before(x) \in SUBSET (S \ {x}) /\ Before(x) \in SUBSET S
    OBVIOUS
  <2>2. IsFiniteSet(S \ {x}) /\ Cardinality(S \ {x}) = Cardinality(S) - 1
    BY FS_RemoveElement
  <2>3. IsFiniteSet(Before(x)) /\ Cardinality(Before(x)) <= Cardinality(S \ {x})
    BY <2>1, <2>2, FS_Subset
  <2>4. Cardinality(Before(x)) \in Nat /\ Cardinality(S) \in Nat
    BY <2>3, FS_CardinalityType
  <2> QED
    BY <2>2, <2>3, <2>4
<1>2. ASSUME NEW x \in S, NEW y \in S, <<x, y>> \in R
      PROVE  Place(x) < Place(y)
  <2>1. Before(x) \cup {x} \in SUBSET Before(y) /\ x \notin Before(x)
    BY <1>2
  <2>2. Cardinality(Before(x) \cup {x}) = Cardinality(Before(x)) + 1
    BY <1>1, <2>1, FS_AddElement
  <2>3. Cardinality(Before(x) \cup {x}) <= Cardinality(Before(y))
    BY <1>1, <2>1, FS_Subset
  <2> HIDE DEF Before
  <2> QED
    BY <1>1, <2>2, <2>3
<1> HIDE DEF Place, Before
<1>c. Cardinality(S) \in Nat /\ \A x \in S : Place(x) \in Int
  BY <1>1, FS_CardinalityType
<1>3. \A x, y \in S : x # y => Place(x) < Place(y) \/ Place(y) < Place(x)
  <2> SUFFICES ASSUME NEW x \in S, NEW y \in S, x # y
               PROVE  Place(x) < Place(y) \/ Place(y) < Place(x)
    OBVIOUS
  <2>1. <<x, y>> \in R \/ <<y, x>> \in R
    OBVIOUS
  <2> QED
    BY <1>2, <2>1
<1>4. place \in Injection(S, 1..Cardinality(S))
  BY <1>1, <1>c, <1>3 DEF Injection, IsInjective
<1>5. IsFiniteSet(1..Cardinality(S)) /\ Cardinality(1..Cardinality(S)) = Cardinality(S)
  BY FS_CardinalityType, FS_Interval
<1>6. place \in Surjection(S, 1..Cardinality(S))
  BY <1>4, <1>5, FS_Injection
<1>7. \A n \in 1..Cardinality(S) : \E x \in S : Place(x) = n
  BY <1>6 DEF Surjection
<1>8. ASSUME NEW x \in S, NEW y \in S, Place(x) < Place(y)
      PROVE  <<x, y>> \in R
  <2>1. x # y /\ ~ (Place(y) < Place(x))
    BY <1>c, <1>8
  <2>2. <<y, x>> \notin R
    BY <1>2, <2>1
  <2> QED
    BY <2>1, <2>2
<1>9. \A x \in S : Place(x) \in 1..Cardinality(S)
  BY <1>1
<1>10. \A x, y \in S : <<x, y>> \in R <=> Place(x) < Place(y)
  BY <1>2, <1>8
<1> QED
  BY <1>7, <1>9, <1>10, Zenon DEF Place, Before

-------------------------------------------------------------------------------
(* Texts and scores.                                                       *)

Characters == Letter \cup {" "}
Readings   == [out : Seq(Characters), gap : BOOLEAN]

LEMMA ReadingGoesOn ==
  ASSUME NEW read \in Readings, NEW character
  PROVE  ReadCharacter(read, character) \in Readings
<1>1. read.out \in Seq(Characters) /\ " " \in Characters /\ Letter \subseteq Characters
  BY DEF Readings, Characters
<1> HIDE DEF Characters
<1>a. ASSUME NEW S, NEW s \in Seq(S), NEW x \in S
      PROVE  Append(s, x) \in Seq(S) /\ s \o <<x>> \in Seq(S)
  OBVIOUS
<1>2. Append(read.out, " ") \in Seq(Characters)
  BY <1>1, <1>a
<1>3. CASE character \in Letter
  <2>1. \A s \in Seq(Characters) : s \o <<character>> \in Seq(Characters)
    BY <1>1, <1>3, <1>a
  <2> QED
    BY <1>1, <1>2, <1>3, <2>1 DEF ReadCharacter, Readings
<1>4. CASE character \notin Letter
  BY <1>4 DEF ReadCharacter, Readings
<1> QED
  BY <1>3, <1>4

\* The reading is a table too, of what was read after each character.
LEMMA ReadingTable ==
  ASSUME NEW text \in Text
  PROVE  \E read \in [0..Len(text) -> Readings] :
            /\ read[0] = [out |-> <<>>, gap |-> FALSE]
            /\ \A n \in 1..Len(text) : read[n] = ReadCharacter(read[n - 1], Folded(text)[n])
            /\ NormalizeText(text) = read[Len(text)].out
<1> DEFINE N == Len(text)
           characters == Folded(text)
           empty   == [out |-> <<>>, gap |-> FALSE]
           Body(g) == [n \in 0..N |->
                         IF n = 0 THEN empty ELSE ReadCharacter(g[n - 1], characters[n])]
           read    == CHOOSE g : g = Body(g)
           step    == [w \in Readings \X (1..N) |-> ReadCharacter(w[1], characters[w[2]])]
<1>1. N \in Nat /\ empty \in Readings
  BY DEF Text, Readings
<1>2. NormalizeText(text) = read[N].out
  BY DEF NormalizeText
<1> HIDE DEF N, characters, empty
<1>3. \E f \in [0..N -> Readings] : Solves(f, N, empty, step)
  <2> DEFINE V == [n \in 0..N |-> Readings]
  <2>1. V \in [0..N -> SUBSET Readings]
    OBVIOUS
  <2>2. Recurs(N, V, empty, step)
    BY <1>1, ReadingGoesOn DEF Recurs
  <2> HIDE DEF V, step
  <2> QED
    BY <1>1, <2>1, <2>2, Recursion
<1>4. \E f : f = Body(f)
  <2>1. PICK f \in [0..N -> Readings] : Solves(f, N, empty, step)
    BY <1>3
  <2>2. ASSUME NEW n \in 1..N PROVE f[n] = ReadCharacter(f[n - 1], characters[n])
    <3>1. f[n - 1] \in Readings
      BY <1>1
    <3>2. f[n] = step[<<f[n - 1], n>>]
      BY <2>1 DEF Solves
    <3> QED
      BY <3>1, <3>2
  <2> QED
    BY <1>1, <2>1, <2>2 DEF Solves
<1>5. read = Body(read)
  BY <1>4
<1> HIDE DEF read
<1>6. read[0] = empty /\ \A n \in 1..N : read[n] = ReadCharacter(read[n - 1], characters[n])
  BY <1>1, <1>5
<1>7. \A n \in 0..N : read[n] \in Readings
  <2> DEFINE Q == {n \in 0..N : read[n] \in Readings}
  <2>1. 0 \in Q
    BY <1>1, <1>6
  <2>2. ASSUME NEW n \in 1..N, n - 1 \in Q PROVE n \in Q
    BY <1>1, <1>6, <2>2, ReadingGoesOn
  <2>3. 0..N \subseteq Q
    <3> HIDE DEF Q
    <3> QED
      BY <1>1, <2>1, <2>2, StepByStep
  <2> QED
    BY <2>3
<1>8. read \in [0..N -> Readings]
  <2>1. read = [n \in 0..N |-> read[n]]
    BY <1>5
  <2> QED
    BY <1>7, <2>1
<1> QED
  BY <1>2, <1>6, <1>8 DEF N, characters, empty

\* A normalised text is a sequence of letters and blanks.
LEMMA NormalTextType ==
  ASSUME NEW text \in Text
  PROVE  NormalizeText(text) \in Seq(Characters)
<1>1. PICK read \in [0..Len(text) -> Readings] : NormalizeText(text) = read[Len(text)].out
  BY ReadingTable
<1>2. Len(text) \in 0..Len(text)
  BY DEF Text
<1> QED
  BY <1>1, <1>2 DEF Readings

\* No blank is first, and none follows another; the last character is a letter.
Spaced(out) ==
    /\ \A i \in 1..Len(out) : out[i] \notin Letter => i - 1 \in 1..Len(out) /\ out[i - 1] \in Letter
    /\ out # <<>> => out[Len(out)] \in Letter

LEMMA LonelyBlanks ==
  ASSUME NEW text \in Text
  PROVE  Spaced(NormalizeText(text))
<1> DEFINE N == Len(text)
           Tidy(read) == Spaced(read.out) /\ (read.gap => read.out # <<>>)
<1>1. PICK read \in [0..N -> Readings] :
         /\ read[0] = [out |-> <<>>, gap |-> FALSE]
         /\ \A n \in 1..N : read[n] = ReadCharacter(read[n - 1], Folded(text)[n])
         /\ NormalizeText(text) = read[N].out
  BY ReadingTable
<1>2. N \in Nat
  BY DEF Text
<1>3. Tidy(read[0])
  BY <1>1 DEF Spaced
<1>4. ASSUME NEW r \in Readings, Tidy(r), NEW c PROVE Tidy(ReadCharacter(r, c))
  <2> DEFINE out == r.out
  <2>1. out \in Seq(Characters) /\ Len(out) \in Nat
    BY DEF Readings
  <2>2. CASE c \notin Letter
    <3>1. ReadCharacter(r, c) = [r EXCEPT !.gap = out # <<>>]
      BY <2>2 DEF ReadCharacter
    <3> QED
      BY <1>4, <3>1 DEF Readings
  <2>3. CASE c \in Letter /\ ~r.gap
    <3> DEFINE new == out \o <<c>>
    <3>1. ReadCharacter(r, c) = [out |-> new, gap |-> FALSE]
      BY <2>3 DEF ReadCharacter
    <3> HIDE DEF out
    <3>2. /\ Len(new) = Len(out) + 1 /\ new[Len(out) + 1] = c
          /\ \A i \in 1..Len(out) : new[i] = out[i]
      BY <2>1
    <3> HIDE DEF new
    <3>3. Spaced(new)
      <4>1. Spaced(out)
        BY <1>4 DEF out
      <4>2. ASSUME NEW i \in 1..Len(new), new[i] \notin Letter
            PROVE  i - 1 \in 1..Len(new) /\ new[i - 1] \in Letter
        <5>1. i \in 1..Len(out) /\ new[i] = out[i]
          BY <2>1, <2>3, <3>2, <4>2
        <5>2. i - 1 \in 1..Len(out) /\ out[i - 1] \in Letter
          BY <4>1, <4>2, <5>1 DEF Spaced
        <5> QED
          BY <2>1, <3>2, <5>2
      <4>3. new[Len(new)] \in Letter
        BY <2>3, <3>2
      <4> QED
        BY <4>2, <4>3 DEF Spaced
    <3> QED
      BY <3>1, <3>3
  <2>4. CASE c \in Letter /\ r.gap
    <3> DEFINE new == Append(out, " ") \o <<c>>
    <3>1. ReadCharacter(r, c) = [out |-> new, gap |-> FALSE]
      BY <2>4 DEF ReadCharacter
    <3>2. out # <<>> /\ Spaced(out)
      BY <1>4, <2>4
    <3> HIDE DEF out
    <3>3. /\ Len(new) = Len(out) + 2 /\ new[Len(out) + 2] = c
          /\ \A i \in 1..Len(out) : new[i] = out[i]
      BY <2>1
    <3> HIDE DEF new
    <3>4. Spaced(new)
      <4>1. Len(out) \in 1..Len(out) /\ out[Len(out)] \in Letter
        BY <2>1, <3>2 DEF Spaced
      <4>2. ASSUME NEW i \in 1..Len(new), new[i] \notin Letter
            PROVE  i - 1 \in 1..Len(new) /\ new[i - 1] \in Letter
        <5>1. CASE i \in 1..Len(out)
          BY <2>1, <3>2, <3>3, <4>2, <5>1 DEF Spaced
        <5>2. CASE i = Len(out) + 1
          BY <2>1, <3>3, <4>1, <5>2
        <5> QED
          BY <2>1, <2>4, <3>3, <4>2, <5>1, <5>2
      <4> QED
        BY <2>1, <2>4, <3>3, <4>2 DEF Spaced
    <3> QED
      BY <3>1, <3>4
  <2> QED
    BY <2>2, <2>3, <2>4
<1>5. Tidy(read[N])
  <2> HIDE DEF Tidy
  <2> DEFINE Q == {n \in 0..N : Tidy(read[n])}
  <2>1. 0 \in Q
    BY <1>2, <1>3
  <2>2. ASSUME NEW n \in 1..N, n - 1 \in Q PROVE n \in Q
    <3>1. n \in 0..N /\ n - 1 \in 0..N /\ read[n - 1] \in Readings
      BY <1>2
    <3> QED
      BY <1>1, <1>4, <2>2, <3>1
  <2>3. 0..N \subseteq Q
    <3> HIDE DEF Q
    <3> QED
      BY <1>2, <2>1, <2>2, StepByStep
  <2> QED
    BY <1>2, <2>3
<1> QED
  BY <1>1, <1>5

LEMMA WiderSequence ==
  ASSUME NEW S, NEW T, S \subseteq T, NEW s \in Seq(S)
  PROVE  s \in Seq(T)
OBVIOUS

\* A beginning of a sequence, and the next member.
LEMMA Beginnings ==
  ASSUME NEW S, NEW s \in Seq(S), NEW n \in 1..Len(s)
  PROVE  /\ SubSeq(s, 1, n) = Append(SubSeq(s, 1, n - 1), s[n])
         /\ SubSeq(s, 1, n) = SubSeq(s, 1, n - 1) \o <<s[n]>>
         /\ SubSeq(s, 1, n - 1) \in Seq(S)
         /\ SubSeq(s, 1, 0) = <<>> /\ SubSeq(s, 1, Len(s)) = s
         /\ SubSeq(s, 1, n) # <<>>
OBVIOUS

\* For every text: a normalised text is read as it is (NormalizeText,
\* normalization.go).
THEOREM NormalizedAlready ==
  ASSUME NEW text \in Text
  PROVE  NormalizeText(NormalizeText(text)) = NormalizeText(text)
<1> DEFINE u == NormalizeText(text)
           N == Len(u)
           Sofar(n) == IF n > 0 /\ u[n] \notin Letter THEN n - 1 ELSE n
           Read(r, n) == /\ r.out = SubSeq(u, 1, Sofar(n))
                         /\ r.gap <=> (n > 0 /\ u[n] \notin Letter)
<1>1. u \in Seq(Characters) /\ Spaced(u) /\ N \in Nat
  BY NormalTextType, LonelyBlanks
<1> HIDE DEF u
<1>2. u \in Text /\ Folded(u) = u
  <2>1. Characters \subseteq STRING /\ Characters \cap DOMAIN LowerCase = {}
    <3>1. Letter \cup {" "} \subseteq STRING
      BY TextAssumption, Zenon
    <3>2. DOMAIN LowerCase \cap (Letter \cup {" "}) = {}
      BY TextAssumption
    <3>3. Characters \subseteq STRING
      BY <3>1, Zenon DEF Characters
    <3>4. Characters \cap DOMAIN LowerCase = {}
      BY <3>2, Zenon DEF Characters
    <3> QED
      BY <3>3, <3>4
  <2>2. \A i \in 1..Len(u) : u[i] \in Characters
    BY <1>1
  <2>3. u \in Seq(STRING)
    BY <1>1, <2>1, WiderSequence
  <2>4. Folded(u) = u
    BY <1>1, <2>1, <2>2 DEF Folded
  <2> QED
    BY <2>3, <2>4 DEF Text
<1>3. PICK read \in [0..N -> Readings] :
         /\ read[0] = [out |-> <<>>, gap |-> FALSE]
         /\ \A n \in 1..N : read[n] = ReadCharacter(read[n - 1], u[n])
         /\ NormalizeText(u) = read[N].out
  BY <1>2, ReadingTable
<1>4. Read(read[0], 0)
  <2>1. SubSeq(u, 1, 0) = <<>>
    BY <1>1
  <2> QED
    BY <1>3, <2>1
<1>5. ASSUME NEW n \in 1..N, NEW r \in Readings, Read(r, n - 1)
      PROVE  Read(ReadCharacter(r, u[n]), n)
  <2>1. /\ SubSeq(u, 1, n) = SubSeq(u, 1, n - 1) \o <<u[n]>>
        /\ SubSeq(u, 1, 0) = <<>> /\ n \in Nat \ {0}
    BY <1>1, Beginnings
  <2>2. n - 1 \in 0..N /\ (n > 0) /\ n \in Int
    BY <1>1
  <2>3. CASE u[n] \notin Letter
    <3>1. n - 1 \in 1..N /\ u[n - 1] \in Letter
      BY <1>1, <2>3 DEF Spaced
    <3>2. Sofar(n) = n - 1 /\ Sofar(n - 1) = n - 1
      BY <2>2, <2>3, <3>1
    <3> HIDE DEF Sofar
    <3>3. r.out = SubSeq(u, 1, n - 1) /\ SubSeq(u, 1, n - 1) # <<>>
      <4> DEFINE m == n - 1
      <4>1. m \in 1..N /\ r.out = SubSeq(u, 1, m)
        BY <1>5, <3>1, <3>2
      <4> HIDE DEF m
      <4>2. SubSeq(u, 1, m) # <<>>
        BY <1>1, <4>1, Beginnings
      <4> QED
        BY <4>1, <4>2 DEF m
    <3>4. ReadCharacter(r, u[n]) = [r EXCEPT !.gap = r.out # <<>>]
      BY <2>3 DEF ReadCharacter
    <3>5. ReadCharacter(r, u[n]).out = r.out /\ ReadCharacter(r, u[n]).gap = TRUE
      BY <3>3, <3>4 DEF Readings
    <3> QED
      BY <2>2, <2>3, <3>2, <3>3, <3>5
  <2>4. CASE u[n] \in Letter /\ ~r.gap
    <3>1. Sofar(n) = n /\ Sofar(n - 1) = n - 1
      BY <1>5, <2>2, <2>4
    <3> HIDE DEF Sofar
    <3>2. r.out = SubSeq(u, 1, n - 1)
      BY <1>5, <3>1
    <3>3. ReadCharacter(r, u[n]) = [out |-> r.out \o <<u[n]>>, gap |-> FALSE]
      BY <2>4 DEF ReadCharacter
    <3> QED
      BY <2>1, <2>4, <3>1, <3>2, <3>3
  <2>5. CASE u[n] \in Letter /\ r.gap
    <3>1. n - 1 > 0 /\ u[n - 1] \notin Letter
      BY <1>5, <2>5
    <3>2. n - 1 \in 1..N /\ u[n - 1] = " "
      <4>1. n - 1 \in 1..N
        BY <2>2, <3>1
      <4>2. u[n - 1] \in Characters
        BY <1>1, <4>1
      <4> QED
        BY <3>1, <4>1, <4>2, Zenon DEF Characters
    <3>3. Sofar(n) = n /\ Sofar(n - 1) = (n - 1) - 1
      BY <2>2, <2>5, <3>1
    <3> HIDE DEF Sofar
    <3>4. r.out = SubSeq(u, 1, (n - 1) - 1)
      BY <1>5, <3>3
    <3> DEFINE m == n - 1
    <3>5. SubSeq(u, 1, m) = Append(SubSeq(u, 1, m - 1), u[m])
      <4> HIDE DEF m
      <4>1. m \in 1..N
        BY <3>2 DEF m
      <4> QED
        BY <1>1, <4>1, Beginnings
    <3>6. ReadCharacter(r, u[n]) = [out |-> SubSeq(u, 1, m) \o <<u[n]>>, gap |-> FALSE]
      BY <2>5, <3>2, <3>4, <3>5 DEF ReadCharacter
    <3>7. ReadCharacter(r, u[n]).out = SubSeq(u, 1, n) /\ ReadCharacter(r, u[n]).gap = FALSE
      BY <2>1, <3>6
    <3> QED
      BY <2>5, <3>3, <3>7
  <2> QED
    BY <2>3, <2>4, <2>5
<1>6. Read(read[N], N)
  <2> HIDE DEF Read
  <2> DEFINE Q == {n \in 0..N : Read(read[n], n)}
  <2>1. 0 \in Q
    BY <1>1, <1>4
  <2>2. ASSUME NEW n \in 1..N, n - 1 \in Q PROVE n \in Q
    <3>1. n \in 0..N /\ n - 1 \in 0..N /\ read[n - 1] \in Readings
      BY <1>1
    <3> QED
      BY <1>3, <1>5, <2>2, <3>1
  <2>3. 0..N \subseteq Q
    <3> HIDE DEF Q
    <3> QED
      BY <1>1, <2>1, <2>2, StepByStep
  <2> QED
    BY <1>1, <2>3
<1>7. SubSeq(u, 1, N) = u /\ (N > 0 => u[N] \in Letter)
  <2>1. N > 0 => u # <<>>
    BY <1>1
  <2> QED
    BY <1>1, <2>1 DEF Spaced
<1>8. NormalizeText(u) = u
  BY <1>1, <1>3, <1>6, <1>7
<1> QED
  BY <1>8 DEF u

\* One row of the distance table, and the distance, are numbers.
Rows(n) == {row \in Seq(Int) : Len(row) = n + 1}

LEMMA MinOfThree ==
  ASSUME NEW a \in Int, NEW b \in Int, NEW c \in Int
  PROVE  Min({a, b, c}) \in Int
<1>1. \E x \in {a, b, c} : \A y \in {a, b, c} : x =< y
  OBVIOUS
<1> QED
  BY <1>1 DEF Min

LEMMA EditRowFacts ==
  ASSUME NEW right, Len(right) \in Nat, NEW above \in Rows(Len(right)), NEW letter
  PROVE  LET row == EditRow(above, letter, right)
         IN  /\ row \in Rows(Len(right))
             /\ row[1] = above[1] + 1
             /\ \A j \in 1..Len(right) : row[j + 1] = EditCell(row, above, j, letter, right)
<1> DEFINE N == Len(right)
           first == <<above[1] + 1>>
           Longer(before, j) == Append(before, EditCell(before, above, j, letter, right))
           Body(g) == [j \in 0..N |->
                         IF j = 0 THEN first ELSE Longer(g[j - 1], j)]
           row  == CHOOSE g : g = Body(g)
           step == [w \in Seq(Int) \X (1..N) |-> Longer(w[1], w[2])]
<1>1. EditRow(above, letter, right) = row[N]
  BY DEF EditRow
<1>2. N \in Nat /\ \A j \in 1..N : above[j] \in Int /\ above[j + 1] \in Int
  BY DEF Rows
<1>3. first \in Rows(0)
  <2>1. above[1] \in Int
    BY DEF Rows
  <2> QED
    BY <2>1 DEF Rows
<1> HIDE DEF N, first
<1>4. ASSUME NEW j \in 1..N, NEW before \in Rows(j - 1)
      PROVE  Longer(before, j) \in Rows(j)
  <2>1. before \in Seq(Int) /\ before[j] \in Int /\ Len(before) = j
    BY <1>2 DEF Rows
  <2>2. EditCell(before, above, j, letter, right) \in Int
    <3>1. /\ before[j] + 1 \in Int /\ above[j + 1] + 1 \in Int
          /\ above[j] + (IF letter = right[j] THEN 0 ELSE 1) \in Int
      BY <1>2, <2>1
    <3> QED
      BY <3>1, MinOfThree DEF EditCell
  <2> QED
    BY <1>2, <2>1, <2>2 DEF Rows
<1> HIDE DEF Longer
<1>5. \E f \in [0..N -> Seq(Int)] : Solves(f, N, first, step)
  <2> DEFINE V == [n \in 0..N |-> Rows(n)]
  <2>1. V \in [0..N -> SUBSET Seq(Int)]
    BY DEF Rows
  <2>2. Recurs(N, V, first, step)
    <3>1. first \in V[0]
      BY <1>2, <1>3
    <3>2. ASSUME NEW n \in 1..N, NEW v \in V[n - 1] PROVE step[<<v, n>>] \in V[n]
      <4>1. v \in Rows(n - 1) /\ n \in 0..N /\ v \in Seq(Int)
        BY <1>2 DEF Rows
      <4>2. step[<<v, n>>] = Longer(v, n)
        BY <4>1
      <4> QED
        BY <1>4, <4>1, <4>2
    <3> QED
      BY <3>1, <3>2 DEF Recurs
  <2> HIDE DEF V, step
  <2> QED
    BY <1>2, <2>1, <2>2, Recursion
<1>6. \E f : f = Body(f)
  <2>1. PICK f \in [0..N -> Seq(Int)] : Solves(f, N, first, step)
    BY <1>5
  <2>2. ASSUME NEW n \in 1..N PROVE f[n] = Longer(f[n - 1], n)
    <3>1. f[n - 1] \in Seq(Int)
      BY <1>2
    <3>2. f[n] = step[<<f[n - 1], n>>]
      BY <2>1 DEF Solves
    <3> QED
      BY <3>1, <3>2
  <2>3. f[0] = first
    BY <2>1 DEF Solves
  <2> HIDE DEF step
  <2>4. f = [j \in 0..N |-> f[j]]
    BY <2>1
  <2>5. \A j \in 0..N : f[j] = IF j = 0 THEN first ELSE Longer(f[j - 1], j)
    BY <1>2, <2>2, <2>3
  <2> QED
    BY <2>4, <2>5
<1>7. row = Body(row)
  BY <1>6
<1> HIDE DEF row
<1>8. row[0] = first /\ \A j \in 1..N : row[j] = Longer(row[j - 1], j)
  BY <1>2, <1>7
<1> DEFINE Filled(r, n) == /\ r \in Rows(n) /\ r[1] = above[1] + 1
                           /\ \A j \in 1..n : r[j + 1] = EditCell(r, above, j, letter, right)
<1>9. ASSUME NEW n \in 1..N, NEW r, Filled(r, n - 1) PROVE Filled(Longer(r, n), n)
  <2> DEFINE cell == EditCell(r, above, n, letter, right)
             long == Append(r, cell)
  <2>1. Longer(r, n) = long
    BY DEF Longer
  <2>2. long \in Rows(n)
    BY <1>4, <1>9, <2>1
  <2>3. r \in Seq(Int) /\ Len(r) = n /\ n \in Nat
    BY <1>2, <1>9 DEF Rows
  <2> HIDE DEF cell
  <2>4. long[n + 1] = cell /\ \A k \in 1..n : long[k] = r[k]
    BY <2>3
  <2> HIDE DEF long
  <2>5. \A j \in 1..n : EditCell(long, above, j, letter, right) = EditCell(r, above, j, letter, right)
    BY <2>4 DEF EditCell
  <2>6. \A j \in 1..n : long[j + 1] = EditCell(r, above, j, letter, right)
    <3>1. \A j \in 1..n : j = n \/ (j \in 1..(n - 1) /\ j + 1 \in 1..n)
      OBVIOUS
    <3> QED
      BY <1>9, <2>4, <3>1 DEF cell
  <2>7. long[1] = above[1] + 1
    BY <1>9, <2>3, <2>4
  <2> QED
    BY <2>1, <2>2, <2>5, <2>6, <2>7
<1>10. Filled(row[N], N)
  <2> DEFINE Q == {n \in 0..N : Filled(row[n], n)}
  <2>1. 0 \in Q
    <3>1. first[1] = above[1] + 1
      BY DEF first
    <3> QED
      BY <1>2, <1>3, <1>8, <3>1
  <2>2. ASSUME NEW n \in 1..N, n - 1 \in Q PROVE n \in Q
    <3> HIDE DEF Filled
    <3> QED
      BY <1>2, <1>8, <1>9, <2>2
  <2>3. 0..N \subseteq Q
    <3> HIDE DEF Q
    <3> QED
      BY <1>2, <2>1, <2>2, StepByStep
  <2> HIDE DEF Filled
  <2> QED
    BY <1>2, <2>3
<1> QED
  BY <1>1, <1>10 DEF N

\* The distance is the last cell of a table that grows row by row.
LEMMA EditTable ==
  ASSUME NEW left, NEW right, Len(left) \in Nat, Len(right) \in Nat
  PROVE  \E rows \in [0..Len(left) -> Rows(Len(right))] :
            /\ rows[0] = [j \in 1..Len(right) + 1 |-> j - 1]
            /\ \A n \in 1..Len(left) : rows[n] = EditRow(rows[n - 1], left[n], right)
            /\ EditDistance(left, right) = rows[Len(left)][Len(right) + 1]
<1> DEFINE N == Len(left)
           M == Len(right)
           first == [j \in 1..M + 1 |-> j - 1]
           Body(g) == [i \in 0..N |->
                         IF i = 0 THEN first ELSE EditRow(g[i - 1], left[i], right)]
           rows == CHOOSE g : g = Body(g)
           step == [w \in Rows(M) \X (1..N) |-> EditRow(w[1], left[w[2]], right)]
<1>1. EditDistance(left, right) = rows[N][M + 1]
  BY DEF EditDistance
<1>2. N \in Nat /\ M \in Nat
  OBVIOUS
<1>3. \A above \in Rows(M) : \A letter : EditRow(above, letter, right) \in Rows(M)
  BY EditRowFacts
<1> HIDE DEF N, M
<1>4. first \in Rows(M)
  BY <1>2 DEF Rows
<1> HIDE DEF first
<1>5. \E f \in [0..N -> Rows(M)] : Solves(f, N, first, step)
  <2> DEFINE V == [n \in 0..N |-> Rows(M)]
  <2>1. V \in [0..N -> SUBSET Rows(M)]
    OBVIOUS
  <2>2. Recurs(N, V, first, step)
    BY <1>2, <1>3, <1>4 DEF Recurs
  <2> HIDE DEF V, step
  <2> QED
    BY <1>2, <2>1, <2>2, Recursion
<1>6. \E f : f = Body(f)
  <2>1. PICK f \in [0..N -> Rows(M)] : Solves(f, N, first, step)
    BY <1>5
  <2>2. ASSUME NEW n \in 1..N PROVE f[n] = EditRow(f[n - 1], left[n], right)
    <3>1. f[n - 1] \in Rows(M)
      BY <1>2
    <3>2. f[n] = step[<<f[n - 1], n>>]
      BY <2>1 DEF Solves
    <3> QED
      BY <3>1, <3>2
  <2> QED
    BY <1>2, <2>1, <2>2 DEF Solves
<1>7. rows = Body(rows)
  BY <1>6
<1> HIDE DEF rows
<1>8. rows[0] = first /\ \A n \in 1..N : rows[n] = EditRow(rows[n - 1], left[n], right)
  BY <1>2, <1>7
<1>9. \A n \in 0..N : rows[n] \in Rows(M)
  <2> DEFINE Q == {n \in 0..N : rows[n] \in Rows(M)}
  <2>1. 0 \in Q
    BY <1>2, <1>4, <1>8
  <2>2. ASSUME NEW n \in 1..N, n - 1 \in Q PROVE n \in Q
    BY <1>2, <1>3, <1>8, <2>2
  <2>3. 0..N \subseteq Q
    <3> HIDE DEF Q
    <3> QED
      BY <1>2, <2>1, <2>2, StepByStep
  <2> QED
    BY <2>3
<1>10. rows = [n \in 0..N |-> rows[n]]
  BY <1>7
<1>11. rows \in [0..N -> Rows(M)]
  BY <1>9, <1>10
<1> QED
  BY <1>1, <1>8, <1>11 DEF N, M, first

LEMMA EditDistanceType ==
  ASSUME NEW left, NEW right, Len(left) \in Nat, Len(right) \in Nat
  PROVE  EditDistance(left, right) \in Int
<1> DEFINE N == Len(left)
           M == Len(right)
<1>1. PICK rows \in [0..N -> Rows(M)] : EditDistance(left, right) = rows[N][M + 1]
  BY EditTable
<1>2. N \in 0..N /\ M + 1 \in 1..(M + 1)
  OBVIOUS
<1> HIDE DEF N, M
<1>3. rows[N][M + 1] \in Int
  BY <1>1, <1>2 DEF Rows
<1> QED
  BY <1>1, <1>3

-------------------------------------------------------------------------------
(* The distance is the least cost of an alignment.                         *)

Differing(left, right, p) == {a \in p : left[a[1]] # right[a[2]]}
CostOf(left, right, i, j, p) ==
    i + j - 2 * Cardinality(p) + Cardinality(Differing(left, right, p))

\* d is the least cost of an alignment of i letters of left with j of right.
Least(d, left, right, i, j) ==
    /\ \E p \in Aligned(i, j) : d = CostOf(left, right, i, j, p)
    /\ \A p \in Aligned(i, j) : d <= CostOf(left, right, i, j, p)

LEMMA AlignedIsFinite ==
  ASSUME NEW left, NEW right, NEW i \in Nat, NEW j \in Nat, NEW p \in Aligned(i, j)
  PROVE  /\ IsFiniteSet(p) /\ Cardinality(p) \in Nat
         /\ IsFiniteSet(Differing(left, right, p))
         /\ Cardinality(Differing(left, right, p)) \in Nat
         /\ CostOf(left, right, i, j, p) \in Int
<1>1. IsFiniteSet((1..i) \X (1..j))
  <2>1. IsFiniteSet(1..i) /\ IsFiniteSet(1..j)
    BY FS_Interval
  <2> QED
    BY <2>1, FS_Product
<1>2. p \in SUBSET ((1..i) \X (1..j)) /\ Differing(left, right, p) \in SUBSET p
  BY DEF Aligned, Differing
<1>3. IsFiniteSet(p)
  BY <1>1, <1>2, FS_Subset
<1>4. IsFiniteSet(Differing(left, right, p))
  BY <1>2, <1>3, FS_Subset
<1>5. Cardinality(p) \in Nat /\ Cardinality(Differing(left, right, p)) \in Nat
  BY <1>3, <1>4, FS_CardinalityType
<1> QED
  BY <1>3, <1>4, <1>5 DEF CostOf

\* With nothing on one side there is only the empty alignment.
LEMMA LeastAtTheEdge ==
  ASSUME NEW left, NEW right, NEW i \in Nat, NEW j \in Nat, i = 0 \/ j = 0
  PROVE  Least(i + j, left, right, i, j)
<1>1. Aligned(i, j) = {{}}
  <2>1. (1..i) \X (1..j) = {}
    OBVIOUS
  <2> QED
    BY <2>1 DEF Aligned
<1>2. CostOf(left, right, i, j, {}) = i + j
  <2>1. Differing(left, right, {}) = {}
    BY DEF Differing
  <2>2. Cardinality({}) = 0 /\ Cardinality(Differing(left, right, {})) = 0
    BY <2>1, FS_EmptySet, Zenon
  <2>3. CostOf(left, right, i, j, {}) = i + j - 2 * 0 + 0
    BY <2>2, Zenon DEF CostOf
  <2> QED
    BY <2>3
<1> QED
  BY <1>1, <1>2 DEF Least

\* There is one least cost.
LEMMA LeastIsOne ==
  ASSUME NEW left, NEW right, NEW i \in Nat, NEW j \in Nat,
         NEW d \in Int, Least(d, left, right, i, j),
         NEW e \in Int, Least(e, left, right, i, j)
  PROVE  d = e
BY DEF Least

\* An alignment leaves the last letter of left or of right alone, or pairs them.
LEMMA LastPair ==
  ASSUME NEW i \in Nat \ {0}, NEW j \in Nat \ {0}, NEW p \in Aligned(i, j)
  PROVE  \/ p \in Aligned(i - 1, j)
         \/ p \in Aligned(i, j - 1)
         \/ <<i, j>> \in p /\ p \ {<<i, j>>} \in Aligned(i - 1, j - 1)
<1>1. /\ \A a \in p : /\ a[1] \in 1..i /\ a[2] \in 1..j /\ a = <<a[1], a[2]>>
      /\ \A a, b \in p : (a[1] < b[1]) <=> (a[2] < b[2])
  BY DEF Aligned
<1>2. CASE \A a \in p : a[1] # i
  <2>1. \A a \in p : a[1] \in 1..(i - 1)
    BY <1>1, <1>2
  <2> QED
    BY <1>1, <2>1 DEF Aligned
<1>3. CASE \A a \in p : a[2] # j
  <2>1. \A a \in p : a[2] \in 1..(j - 1)
    BY <1>1, <1>3
  <2> QED
    BY <1>1, <2>1 DEF Aligned
<1>4. ASSUME NEW a \in p, NEW b \in p, a[1] = i, b[2] = j
      PROVE  <<i, j>> \in p /\ p \ {<<i, j>>} \in Aligned(i - 1, j - 1)
  <2>1. a[2] = j
    BY <1>1, <1>4
  <2>2. <<i, j>> \in p
    BY <1>1, <1>4, <2>1
  <2>3. ASSUME NEW c \in p, c # <<i, j>> PROVE c[1] \in 1..(i - 1) /\ c[2] \in 1..(j - 1)
    BY <1>1, <1>4, <2>1, <2>3
  <2>4. p \ {<<i, j>>} \in SUBSET ((1..(i - 1)) \X (1..(j - 1)))
    BY <1>1, <2>3
  <2> QED
    BY <1>1, <2>2, <2>4 DEF Aligned
<1> QED
  BY <1>2, <1>3, <1>4

\* Conversely, each of the three is an alignment.
LEMMA OneMore ==
  ASSUME NEW i \in Nat \ {0}, NEW j \in Nat \ {0}
  PROVE  /\ \A p \in Aligned(i - 1, j) : p \in Aligned(i, j)
         /\ \A p \in Aligned(i, j - 1) : p \in Aligned(i, j)
         /\ \A p \in Aligned(i - 1, j - 1) :
               <<i, j>> \notin p /\ p \cup {<<i, j>>} \in Aligned(i, j)
<1>1. \A n \in 1..(i - 1) : n \in 1..i
  OBVIOUS
<1>2. \A n \in 1..(j - 1) : n \in 1..j
  OBVIOUS
<1>3. ASSUME NEW p \in Aligned(i - 1, j) PROVE p \in Aligned(i, j)
  BY <1>1, <1>3 DEF Aligned
<1>4. ASSUME NEW p \in Aligned(i, j - 1) PROVE p \in Aligned(i, j)
  BY <1>2, <1>4 DEF Aligned
<1>5. ASSUME NEW p \in Aligned(i - 1, j - 1)
      PROVE  <<i, j>> \notin p /\ p \cup {<<i, j>>} \in Aligned(i, j)
  <2> DEFINE q == p \cup {<<i, j>>}
  <2>1. /\ \A a \in p : a[1] \in 1..(i - 1) /\ a[2] \in 1..(j - 1) /\ a = <<a[1], a[2]>>
        /\ \A a, b \in p : (a[1] < b[1]) <=> (a[2] < b[2])
    BY DEF Aligned
  <2>2. <<i, j>> \notin p
    BY <2>1
  <2>3. q \in SUBSET ((1..i) \X (1..j))
    BY <1>1, <1>2, <2>1
  <2>4. ASSUME NEW a \in q, NEW b \in q PROVE (a[1] < b[1]) <=> (a[2] < b[2])
    <3>1. CASE a \in p /\ b \in p
      BY <2>1, <3>1
    <3>2. CASE a \in p /\ b = <<i, j>>
      BY <2>1, <3>2
    <3>3. CASE a = <<i, j>> /\ b \in p
      BY <2>1, <3>3
    <3>4. CASE a = <<i, j>> /\ b = <<i, j>>
      BY <3>4
    <3> QED
      BY <3>1, <3>2, <3>3, <3>4
  <2> QED
    BY <2>2, <2>3, <2>4 DEF Aligned
<1> QED
  BY <1>3, <1>4, <1>5

LEMMA LeastMember ==
  ASSUME NEW T, T \subseteq Int, NEW d \in T, \A c \in T : d <= c
  PROVE  d = Min(T)
<1>1. \A x \in T : (\A y \in T : x =< y) => x = d
  OBVIOUS
<1> QED
  BY <1>1 DEF Min

\* The least of three numbers.
LEMMA MinIsOneOfThree ==
  ASSUME NEW a \in Int, NEW b \in Int, NEW c \in Int
  PROVE  /\ Min({a, b, c}) \in {a, b, c}
         /\ Min({a, b, c}) <= a /\ Min({a, b, c}) <= b /\ Min({a, b, c}) <= c
<1> DEFINE T == {a, b, c}
<1>1. \E x \in T : \A y \in T : x =< y
  OBVIOUS
<1>2. a \in T /\ b \in T /\ c \in T
  OBVIOUS
<1> HIDE DEF T
<1>3. Min(T) \in T /\ \A y \in T : Min(T) <= y
  BY <1>1 DEF Min
<1> QED
  BY <1>2, <1>3, Zenon DEF T

\* The least cost of a cell from those of its neighbours.
LEMMA LeastStep ==
  ASSUME NEW left, NEW right, NEW i \in Nat \ {0}, NEW j \in Nat \ {0},
         NEW up \in Int, Least(up, left, right, i - 1, j),
         NEW before \in Int, Least(before, left, right, i, j - 1),
         NEW both \in Int, Least(both, left, right, i - 1, j - 1)
  PROVE  Least(Min({before + 1, up + 1, both + IF left[i] = right[j] THEN 0 ELSE 1}),
               left, right, i, j)
<1> DEFINE off  == IF left[i] = right[j] THEN 0 ELSE 1
           d    == Min({before + 1, up + 1, both + off})
           last == <<i, j>>
<1>1. i - 1 \in Nat /\ j - 1 \in Nat /\ i \in Nat /\ j \in Nat /\ off \in Int
  OBVIOUS
<1>2. /\ d \in {before + 1, up + 1, both + off} /\ d \in Int
      /\ d <= before + 1 /\ d <= up + 1 /\ d <= both + off
  <2> HIDE DEF off
  <2>1. before + 1 \in Int /\ up + 1 \in Int /\ both + off \in Int
    BY <1>1
  <2>2. /\ d \in {before + 1, up + 1, both + off}
        /\ d <= before + 1 /\ d <= up + 1 /\ d <= both + off
    BY <2>1, MinIsOneOfThree, Zenon
  <2> QED
    BY <2>1, <2>2
<1>3. ASSUME NEW p \in Aligned(i - 1, j)
      PROVE  /\ p \in Aligned(i, j)
             /\ CostOf(left, right, i, j, p) = CostOf(left, right, i - 1, j, p) + 1
             /\ CostOf(left, right, i - 1, j, p) \in Int
  <2>1. Cardinality(p) \in Nat /\ Cardinality(Differing(left, right, p)) \in Nat
    BY <1>1, AlignedIsFinite
  <2>2. p \in Aligned(i, j)
    BY OneMore
  <2>3. /\ CostOf(left, right, i, j, p) = CostOf(left, right, i - 1, j, p) + 1
        /\ CostOf(left, right, i - 1, j, p) \in Int
    BY <1>1, <2>1 DEF CostOf
  <2> QED
    BY <2>2, <2>3
<1>4. ASSUME NEW p \in Aligned(i, j - 1)
      PROVE  /\ p \in Aligned(i, j)
             /\ CostOf(left, right, i, j, p) = CostOf(left, right, i, j - 1, p) + 1
             /\ CostOf(left, right, i, j - 1, p) \in Int
  <2>1. Cardinality(p) \in Nat /\ Cardinality(Differing(left, right, p)) \in Nat
    BY <1>1, AlignedIsFinite
  <2>2. p \in Aligned(i, j)
    BY OneMore
  <2>3. /\ CostOf(left, right, i, j, p) = CostOf(left, right, i, j - 1, p) + 1
        /\ CostOf(left, right, i, j - 1, p) \in Int
    BY <1>1, <2>1 DEF CostOf
  <2> QED
    BY <2>2, <2>3
<1>5. ASSUME NEW p \in Aligned(i - 1, j - 1)
      PROVE  /\ p \cup {last} \in Aligned(i, j)
             /\ CostOf(left, right, i, j, p \cup {last})
                  = CostOf(left, right, i - 1, j - 1, p) + off
             /\ CostOf(left, right, i - 1, j - 1, p) \in Int
  <2> DEFINE differing == Differing(left, right, p)
  <2>1. /\ IsFiniteSet(p) /\ IsFiniteSet(differing)
        /\ Cardinality(p) \in Nat /\ Cardinality(differing) \in Nat
    BY <1>1, AlignedIsFinite
  <2>2. last \notin p /\ last \notin differing /\ p \cup {last} \in Aligned(i, j)
    BY OneMore DEF Differing
  <2>3. Cardinality(p \cup {last}) = Cardinality(p) + 1
    BY <2>1, <2>2, FS_AddElement
  <2>4. Differing(left, right, p \cup {last})
          = IF left[i] = right[j] THEN differing ELSE differing \cup {last}
    BY DEF Differing
  <2>5. Cardinality(differing \cup {last}) = Cardinality(differing) + 1
    BY <2>1, <2>2, FS_AddElement
  <2>6. Cardinality(Differing(left, right, p \cup {last})) = Cardinality(differing) + off
    <3> HIDE DEF differing
    <3> QED
      BY <2>1, <2>4, <2>5
  <2> HIDE DEF off, last
  <2>7. /\ CostOf(left, right, i, j, p \cup {last})
             = i + j - 2 * (Cardinality(p) + 1) + (Cardinality(differing) + off)
        /\ CostOf(left, right, i - 1, j - 1, p)
             = (i - 1) + (j - 1) - 2 * Cardinality(p) + Cardinality(differing)
    BY <2>3, <2>6 DEF CostOf
  <2> HIDE DEF differing
  <2> QED
    BY <1>1, <2>1, <2>2, <2>7
<1> HIDE DEF off, d
<1>6. \E p \in Aligned(i, j) : d = CostOf(left, right, i, j, p)
  <2>1. CASE d = before + 1
    <3>1. PICK p \in Aligned(i, j - 1) : before = CostOf(left, right, i, j - 1, p)
      BY DEF Least
    <3> QED
      BY <1>4, <2>1, <3>1
  <2>2. CASE d = up + 1
    <3>1. PICK p \in Aligned(i - 1, j) : up = CostOf(left, right, i - 1, j, p)
      BY DEF Least
    <3> QED
      BY <1>3, <2>2, <3>1
  <2>3. CASE d = both + off
    <3>1. PICK p \in Aligned(i - 1, j - 1) : both = CostOf(left, right, i - 1, j - 1, p)
      BY DEF Least
    <3> QED
      BY <1>5, <2>3, <3>1
  <2> QED
    BY <1>2, <2>1, <2>2, <2>3
<1>7. ASSUME NEW p \in Aligned(i, j) PROVE d <= CostOf(left, right, i, j, p)
  <2>1. CASE p \in Aligned(i - 1, j)
    <3>1. up <= CostOf(left, right, i - 1, j, p)
      BY <2>1 DEF Least
    <3> QED
      BY <1>2, <1>3, <2>1, <3>1
  <2>2. CASE p \in Aligned(i, j - 1)
    <3>1. before <= CostOf(left, right, i, j - 1, p)
      BY <2>2 DEF Least
    <3> QED
      BY <1>2, <1>4, <2>2, <3>1
  <2>3. CASE last \in p /\ p \ {last} \in Aligned(i - 1, j - 1)
    <3> DEFINE q == p \ {last}
    <3>1. p = q \cup {last} /\ q \in Aligned(i - 1, j - 1)
      BY <2>3
    <3> HIDE DEF q, last
    <3>2. both <= CostOf(left, right, i - 1, j - 1, q)
      BY <3>1 DEF Least
    <3>3. /\ CostOf(left, right, i, j, p) = CostOf(left, right, i - 1, j - 1, q) + off
          /\ CostOf(left, right, i - 1, j - 1, q) \in Int
      BY <1>5, <3>1
    <3> QED
      BY <1>1, <1>2, <3>2, <3>3
  <2> QED
    BY <2>1, <2>2, <2>3, LastPair
<1> QED
  BY <1>6, <1>7 DEF Least, d, off

\* For texts of any length: the table holds the least cost of every pair of
\* beginnings, the last cell that of the two texts (editDistance, scoring.go).
THEOREM DistanceIsLeast ==
  ASSUME NEW left, NEW right, Len(left) \in Nat, Len(right) \in Nat
  PROVE  Least(EditDistance(left, right), left, right, Len(left), Len(right))
<1> DEFINE N == Len(left)
           M == Len(right)
           Exact(row, n) == \A j \in 0..M : Least(row[j + 1], left, right, n, j)
<1>1. PICK rows \in [0..N -> Rows(M)] :
         /\ rows[0] = [j \in 1..M + 1 |-> j - 1]
         /\ \A n \in 1..N : rows[n] = EditRow(rows[n - 1], left[n], right)
         /\ EditDistance(left, right) = rows[N][M + 1]
  BY EditTable
<1>2. N \in Nat /\ M \in Nat
  OBVIOUS
<1>3. ASSUME NEW n \in 1..N, Exact(rows[n - 1], n - 1) PROVE Exact(rows[n], n)
  <2> DEFINE above == rows[n - 1]
             row   == rows[n]
  <2>1. n - 1 \in 0..N /\ n \in 0..N /\ n \in Nat \ {0} /\ n - 1 \in Nat
    BY <1>2
  <2>2. above \in Rows(M) /\ row \in Rows(M) /\ row = EditRow(above, left[n], right)
    BY <1>1, <2>1
  <2> HIDE DEF above, row
  <2>3. /\ row[1] = above[1] + 1
        /\ \A j \in 1..M : row[j + 1] = EditCell(row, above, j, left[n], right)
    BY <2>2, EditRowFacts
  <2>4. \A j \in 0..M : above[j + 1] \in Int /\ row[j + 1] \in Int
    BY <1>2, <2>2 DEF Rows
  <2>5. \A j \in 0..M : Least(above[j + 1], left, right, n - 1, j)
    BY <1>3 DEF above
  <2> DEFINE Q == {j \in 0..M : Least(row[j + 1], left, right, n, j)}
  <2>6. 0 \in Q
    <3>1. 0 \in 0..M /\ 0 + 1 = 1
      BY <1>2
    <3>2. Least(n, left, right, n, 0)
      BY <2>1, LeastAtTheEdge
    <3>3. above[1] = n - 1
      <4>1. Least(above[1], left, right, n - 1, 0)
        BY <2>5, <3>1
      <4>2. Least(n - 1, left, right, n - 1, 0)
        <5>1. Least((n - 1) + 0, left, right, n - 1, 0)
          BY <2>1, LeastAtTheEdge, Zenon
        <5>2. (n - 1) + 0 = n - 1
          BY <2>1
        <5> QED
          BY <5>1, <5>2, Zenon
      <4>3. above[1] \in Int
        BY <2>4, <3>1
      <4> QED
        BY <2>1, <4>1, <4>2, <4>3, LeastIsOne
    <3> QED
      BY <2>1, <2>3, <3>1, <3>2, <3>3
  <2>7. ASSUME NEW j \in 1..M, j - 1 \in Q PROVE j \in Q
    <3> DEFINE off == IF left[n] = right[j] THEN 0 ELSE 1
    <3>1. j \in 0..M /\ j - 1 \in 0..M /\ (j - 1) + 1 = j /\ j \in Nat \ {0}
      BY <1>2
    <3>2. Least(row[j], left, right, n, j - 1) /\ row[j] \in Int
      BY <2>4, <2>7, <3>1
    <3>3. Least(above[j + 1], left, right, n - 1, j) /\ above[j + 1] \in Int
      BY <2>4, <2>5, <3>1
    <3>4. Least(above[j], left, right, n - 1, j - 1) /\ above[j] \in Int
      BY <2>4, <2>5, <3>1
    <3>5. row[j + 1] = Min({row[j] + 1, above[j + 1] + 1, above[j] + off})
      BY <2>3 DEF EditCell
    <3>6. Least(Min({row[j] + 1, above[j + 1] + 1, above[j] + off}), left, right, n, j)
      BY <2>1, <3>1, <3>2, <3>3, <3>4, LeastStep
    <3> QED
      BY <3>1, <3>5, <3>6
  <2>8. 0..M \subseteq Q
    <3> HIDE DEF Q
    <3> QED
      BY <1>2, <2>6, <2>7, StepByStep
  <2> QED
    BY <2>8 DEF row
<1>4. Exact(rows[0], 0)
  <2>1. ASSUME NEW j \in 0..M PROVE rows[0][j + 1] = 0 + j /\ j \in Nat
    <3>1. j + 1 \in 1..M + 1 /\ (j + 1) - 1 = 0 + j
      BY <1>2
    <3> QED
      BY <1>1, <3>1
  <2>2. ASSUME NEW j \in 0..M PROVE Least(0 + j, left, right, 0, j)
    <3>1. j \in Nat /\ 0 \in Nat
      BY <1>2
    <3> QED
      BY <3>1, LeastAtTheEdge, Zenon
  <2> QED
    BY <2>1, <2>2
<1>5. Exact(rows[N], N)
  <2> DEFINE Q == {n \in 0..N : Exact(rows[n], n)}
  <2>1. 0 \in Q
    BY <1>2, <1>4
  <2>2. ASSUME NEW n \in 1..N, n - 1 \in Q PROVE n \in Q
    <3> HIDE DEF Exact
    <3> QED
      BY <1>2, <1>3, <2>2
  <2>3. 0..N \subseteq Q
    <3> HIDE DEF Q
    <3> QED
      BY <1>2, <2>1, <2>2, StepByStep
  <2> HIDE DEF Exact
  <2> QED
    BY <1>2, <2>3
<1> QED
  BY <1>1, <1>2, <1>5

-------------------------------------------------------------------------------
(* A phrase in a text: k characters come before it.                        *)

Occurs(phrase, value, k) ==
    /\ k \in 0..(Len(value) - Len(phrase))
    /\ \A i \in 1..Len(phrase) : value[k + i] = phrase[i]

LEMMA PrefixOccurs ==
  ASSUME NEW S, NEW s \in Seq(S), NEW t \in Seq(S)
  PROVE  IsPrefix(s, t) <=> Occurs(s, t, 0)
BY DEF IsPrefix, Occurs

LEMMA SuffixOccurs ==
  ASSUME NEW S, NEW s \in Seq(S), NEW t \in Seq(S)
  PROVE  IsSuffix(s, t) <=> Len(s) <= Len(t) /\ Occurs(s, t, Len(t) - Len(s))
<1> DEFINE rs == Reverse(s)
           rt == Reverse(t)
<1>1. /\ rs \in Seq(S) /\ Len(rs) = Len(s) /\ \A i \in 1..Len(s) : rs[i] = s[Len(s) - i + 1]
      /\ rt \in Seq(S) /\ Len(rt) = Len(t) /\ \A i \in 1..Len(t) : rt[i] = t[Len(t) - i + 1]
  BY DEF Reverse
<1>2. IsSuffix(s, t) <=> Occurs(rs, rt, 0)
  BY <1>1, PrefixOccurs DEF IsSuffix
<1> HIDE DEF rs, rt
<1>3. ASSUME Len(s) <= Len(t), Occurs(rs, rt, 0) PROVE Occurs(s, t, Len(t) - Len(s))
  <2> SUFFICES ASSUME NEW i \in 1..Len(s) PROVE t[Len(t) - Len(s) + i] = s[i]
    BY <1>3 DEF Occurs
  <2>1. Len(s) - i + 1 \in 1..Len(s) /\ Len(s) - i + 1 \in 1..Len(t)
    BY <1>3
  <2>2. rs[Len(s) - i + 1] = s[i] /\ rt[Len(s) - i + 1] = t[Len(t) - Len(s) + i]
    <3> DEFINE m == Len(s) - i + 1
    <3>1. Len(s) - m + 1 = i /\ Len(t) - m + 1 = Len(t) - Len(s) + i
      OBVIOUS
    <3> HIDE DEF m
    <3>2. m \in 1..Len(s) /\ m \in 1..Len(t)
      BY <2>1 DEF m
    <3>3. rs[m] = s[i] /\ rt[m] = t[Len(t) - Len(s) + i]
      BY <1>1, <3>1, <3>2
    <3> QED
      BY <3>3 DEF m
  <2> QED
    BY <1>1, <1>3, <2>1, <2>2 DEF Occurs
<1>4. ASSUME Len(s) <= Len(t), Occurs(s, t, Len(t) - Len(s)) PROVE Occurs(rs, rt, 0)
  <2> SUFFICES ASSUME NEW i \in 1..Len(s) PROVE rt[i] = rs[i]
    BY <1>1, <1>4 DEF Occurs
  <2>1. Len(s) - i + 1 \in 1..Len(s) /\ i \in 1..Len(t)
    BY <1>4
  <2>2. t[Len(t) - Len(s) + (Len(s) - i + 1)] = s[Len(s) - i + 1]
    BY <1>4, <2>1 DEF Occurs
  <2>3. Len(t) - Len(s) + (Len(s) - i + 1) = Len(t) - i + 1
    OBVIOUS
  <2>4. rt[i] = t[Len(t) - i + 1] /\ rs[i] = s[Len(s) - i + 1]
    BY <1>1, <2>1
  <2> QED
    BY <2>2, <2>3, <2>4
<1>5. Occurs(rs, rt, 0) => Len(s) <= Len(t)
  BY <1>1 DEF Occurs
<1> QED
  BY <1>2, <1>3, <1>4, <1>5

\* The phrase stands alone after k characters: it begins and ends at a blank, or
\* with the text.
Alone(phrase, value, k, blank) ==
    /\ Occurs(phrase, value, k)
    /\ k = 0 \/ value[k] = blank
    /\ k + Len(phrase) = Len(value) \/ value[k + Len(phrase) + 1] = blank

\* The phrase is cut out of the text between two such places.
CutOut(phrase, value, blank) ==
    \E v \in (1..Len(value)) \X (1..Len(value)) :
        /\ v[1] = 1 \/ value[v[1] - 1] = blank
        /\ v[2] = Len(value) \/ value[v[2] + 1] = blank
        /\ phrase = SubSeq(value, v[1], v[2])

LEMMA WordsStandAlone ==
  ASSUME NEW S, NEW phrase \in Seq(S), NEW value \in Seq(S), phrase # <<>>, NEW blank
  PROVE  CutOut(phrase, value, blank) <=>
           \E k \in 0..Len(value) : Alone(phrase, value, k, blank)
<1> DEFINE P == Len(phrase)
           V == Len(value)
           Cut(v) == /\ v[1] = 1 \/ value[v[1] - 1] = blank
                     /\ v[2] = V \/ value[v[2] + 1] = blank
<1>1. P \in Nat \ {0} /\ V \in Nat
  OBVIOUS
<1>2. ASSUME NEW v \in (1..V) \X (1..V), Cut(v), phrase = SubSeq(value, v[1], v[2])
      PROVE  \E k \in 0..V : Alone(phrase, value, k, blank)
  <2>1. v[1] \in 1..V /\ v[2] \in 1..V
    OBVIOUS
  <2>2. v[1] <= v[2] /\ P = v[2] - v[1] + 1 /\ \A i \in 1..P : phrase[i] = value[v[1] + i - 1]
    BY <1>1, <1>2, <2>1
  <2> DEFINE k == v[1] - 1
  <2>3. k \in 0..V /\ k \in 0..(V - P) /\ k + P = v[2] /\ \A i \in 1..P : k + i = v[1] + i - 1
    BY <1>1, <2>1, <2>2
  <2>4. k = 0 \/ value[k] = blank
    BY <1>2, <2>1
  <2>5. k + P = V \/ value[k + P + 1] = blank
    BY <1>2, <2>3
  <2>6. \A i \in 1..P : value[k + i] = phrase[i]
    BY <2>2, <2>3
  <2> HIDE DEF k
  <2> QED
    BY <2>3, <2>4, <2>5, <2>6 DEF Alone, Occurs
<1>3. ASSUME NEW k \in 0..V, Alone(phrase, value, k, blank)
      PROVE  \E v \in (1..V) \X (1..V) : Cut(v) /\ phrase = SubSeq(value, v[1], v[2])
  <2>1. /\ k \in 0..(V - P) /\ \A i \in 1..P : value[k + i] = phrase[i]
        /\ k = 0 \/ value[k] = blank
        /\ k + P = V \/ value[k + P + 1] = blank
    BY <1>3 DEF Alone, Occurs
  <2>2. k + 1 \in 1..V /\ k + P \in 1..V /\ (k + 1) - 1 = k
    BY <1>1, <2>1
  <2>3. phrase = SubSeq(value, k + 1, k + P)
    BY <1>1, <2>1, <2>2
  <2> DEFINE v == <<k + 1, k + P>>
  <2>4. v \in (1..V) \X (1..V) /\ v[1] = k + 1 /\ v[2] = k + P
    BY <2>2
  <2> HIDE DEF v
  <2>5. v[1] - 1 = k /\ v[2] + 1 = k + P + 1
    BY <1>1, <2>1, <2>4
  <2>6. v[1] = 1 \/ value[v[1] - 1] = blank
    BY <2>1, <2>4, <2>5
  <2>7. v[2] = V \/ value[v[2] + 1] = blank
    BY <2>1, <2>4, <2>5
  <2> QED
    BY <2>3, <2>4, <2>6, <2>7
<1> QED
  BY <1>2, <1>3 DEF CutOut

LEMMA PhrasesStandAlone ==
  ASSUME NEW S, NEW blank \in S, NEW phrase \in Seq(S), NEW value \in Seq(S), phrase # <<>>
  PROVE  (\/ value = phrase
          \/ IsPrefix(phrase \o <<blank>>, value)
          \/ IsSuffix(<<blank>> \o phrase, value)
          \/ \E k \in 1..Len(value) :
                IsPrefix(<<blank>> \o phrase \o <<blank>>, SubSeq(value, k, Len(value))))
           <=> \E k \in 0..Len(value) : Alone(phrase, value, k, blank)
<1> DEFINE P == Len(phrase)
           V == Len(value)
           right == phrase \o <<blank>>
           left  == <<blank>> \o phrase
           both  == <<blank>> \o phrase \o <<blank>>
<1>1. P \in Nat \ {0} /\ V \in Nat
  OBVIOUS
<1>2. /\ right \in Seq(S) /\ Len(right) = P + 1 /\ right[P + 1] = blank
      /\ \A i \in 1..P : right[i] = phrase[i]
  OBVIOUS
<1>3. /\ left \in Seq(S) /\ Len(left) = P + 1 /\ left[1] = blank
      /\ \A i \in 1..P : left[i + 1] = phrase[i]
  OBVIOUS
<1>4. /\ both \in Seq(S) /\ Len(both) = P + 2 /\ both[1] = blank /\ both[P + 2] = blank
      /\ \A i \in 1..P : both[i + 1] = phrase[i]
  OBVIOUS
<1> HIDE DEF right, left, both
<1>5. value = phrase <=> P = V /\ Alone(phrase, value, 0, blank)
  <2>1. ASSUME P = V, \A i \in 1..P : value[0 + i] = phrase[i] PROVE value = phrase
    BY <2>1
  <2> QED
    BY <1>1, <2>1 DEF Alone, Occurs
<1>6. IsPrefix(right, value) <=> P < V /\ value[P + 1] = blank /\ Alone(phrase, value, 0, blank)
  <2>1. IsPrefix(right, value) <=> Occurs(right, value, 0)
    BY <1>2, PrefixOccurs
  <2>2. ASSUME Occurs(right, value, 0)
        PROVE  P < V /\ value[P + 1] = blank /\ Alone(phrase, value, 0, blank)
    <3>1. 0 \in 0..(V - (P + 1)) /\ \A i \in 1..(P + 1) : value[0 + i] = right[i]
      BY <1>2, <2>2 DEF Occurs
    <3>2. P < V /\ 0 \in 0..(V - P)
      BY <1>1, <3>1
    <3>3. value[P + 1] = blank
      BY <1>1, <1>2, <3>1
    <3>4. \A i \in 1..P : value[0 + i] = phrase[i]
      BY <1>1, <1>2, <3>1
    <3> QED
      BY <1>1, <3>2, <3>3, <3>4 DEF Alone, Occurs
  <2>3. ASSUME P < V, value[P + 1] = blank, Alone(phrase, value, 0, blank)
        PROVE  Occurs(right, value, 0)
    <3>1. \A i \in 1..P : value[0 + i] = phrase[i]
      BY <2>3 DEF Alone, Occurs
    <3>2. \A i \in 1..(P + 1) : value[0 + i] = right[i]
      BY <1>1, <1>2, <2>3, <3>1
    <3>3. 0 \in 0..(V - (P + 1))
      BY <1>1, <2>3
    <3> QED
      BY <1>2, <3>2, <3>3 DEF Occurs
  <2> QED
    BY <2>1, <2>2, <2>3
<1>7. IsSuffix(left, value) <=> P < V /\ value[V - P] = blank /\ Alone(phrase, value, V - P, blank)
  <2> DEFINE k == V - P
  <2>1. IsSuffix(left, value) <=> P + 1 <= V /\ Occurs(left, value, V - (P + 1))
    BY <1>3, SuffixOccurs
  <2>2. ASSUME P + 1 <= V, Occurs(left, value, V - (P + 1))
        PROVE  P < V /\ value[k] = blank /\ Alone(phrase, value, k, blank)
    <3>1. \A i \in 1..(P + 1) : value[V - (P + 1) + i] = left[i]
      BY <1>3, <2>2 DEF Occurs
    <3>2. value[k] = blank
      <4>1. V - (P + 1) + 1 = k
        BY <1>1
      <4> QED
        BY <1>1, <1>3, <3>1, <4>1
    <3>3. \A i \in 1..P : value[k + i] = phrase[i]
      <4>1. \A i \in 1..P : i + 1 \in 1..(P + 1) /\ V - (P + 1) + (i + 1) = k + i
        BY <1>1
      <4> QED
        BY <1>3, <3>1, <4>1
    <3>4. k \in 0..(V - P) /\ k + P = V
      BY <1>1, <2>2
    <3> HIDE DEF k
    <3> QED
      BY <1>1, <2>2, <3>2, <3>3, <3>4 DEF Alone, Occurs
  <2>3. ASSUME P < V, value[k] = blank, Alone(phrase, value, k, blank)
        PROVE  P + 1 <= V /\ Occurs(left, value, V - (P + 1))
    <3>1. \A i \in 1..P : value[k + i] = phrase[i]
      BY <2>3 DEF Alone, Occurs
    <3>2. \A i \in 1..(P + 1) : value[V - (P + 1) + i] = left[i]
      <4> SUFFICES ASSUME NEW i \in 1..(P + 1) PROVE value[V - (P + 1) + i] = left[i]
        OBVIOUS
      <4>1. CASE i = 1
        <5>1. V - (P + 1) + 1 = k
          BY <1>1
        <5> QED
          BY <1>3, <2>3, <4>1, <5>1
      <4>2. CASE i # 1
        <5>1. i - 1 \in 1..P /\ (i - 1) + 1 = i /\ V - (P + 1) + i = k + (i - 1)
          BY <1>1, <4>2
        <5> HIDE DEF k
        <5> QED
          BY <1>3, <3>1, <5>1
      <4> QED
        BY <4>1, <4>2
    <3>3. P + 1 <= V /\ V - (P + 1) \in 0..(V - (P + 1))
      BY <1>1, <2>3
    <3> QED
      BY <1>3, <3>2, <3>3 DEF Occurs
  <2> QED
    BY <2>1, <2>2, <2>3
<1>8. ASSUME NEW k \in 1..V
      PROVE  IsPrefix(both, SubSeq(value, k, V)) <=>
               k + P < V /\ value[k] = blank /\ value[k + P + 1] = blank /\ Occurs(phrase, value, k)
  <2> DEFINE rest == SubSeq(value, k, V)
  <2>1. /\ rest \in Seq(S) /\ Len(rest) = V - k + 1
        /\ \A j \in 1..(V - k + 1) : rest[j] = value[k + j - 1]
    BY <1>1
  <2> HIDE DEF rest
  <2>2. IsPrefix(both, rest) <=> Occurs(both, rest, 0)
    BY <1>4, <2>1, PrefixOccurs
  <2>3. ASSUME Occurs(both, rest, 0)
        PROVE  k + P < V /\ value[k] = blank /\ value[k + P + 1] = blank /\ Occurs(phrase, value, k)
    <3>1. 0 \in 0..((V - k + 1) - (P + 2)) /\ \A j \in 1..(P + 2) : rest[0 + j] = both[j]
      BY <1>4, <2>1, <2>3 DEF Occurs
    <3>2. k + P < V
      BY <1>1, <3>1
    <3>3. \A j \in 1..(P + 2) : j \in 1..(V - k + 1) /\ 0 + j = j
      BY <1>1, <3>2
    <3>4. \A j \in 1..(P + 2) : value[k + j - 1] = both[j]
      BY <2>1, <3>1, <3>3
    <3>5. value[k] = blank
      <4>1. 1 \in 1..(P + 2) /\ k + 1 - 1 = k
        BY <1>1
      <4> QED
        BY <1>4, <3>4, <4>1
    <3>6. value[k + P + 1] = blank
      <4>1. P + 2 \in 1..(P + 2) /\ k + (P + 2) - 1 = k + P + 1
        BY <1>1
      <4> QED
        BY <1>4, <3>4, <4>1
    <3>7. \A i \in 1..P : value[k + i] = phrase[i]
      <4>1. \A i \in 1..P : i + 1 \in 1..(P + 2) /\ k + (i + 1) - 1 = k + i
        BY <1>1
      <4> QED
        BY <1>4, <3>4, <4>1
    <3>8. k \in 0..(V - P)
      BY <1>1, <3>2
    <3> QED
      BY <3>2, <3>5, <3>6, <3>7, <3>8 DEF Occurs
  <2>4. ASSUME k + P < V, value[k] = blank, value[k + P + 1] = blank, Occurs(phrase, value, k)
        PROVE  Occurs(both, rest, 0)
    <3>1. \A i \in 1..P : value[k + i] = phrase[i]
      BY <2>4 DEF Occurs
    <3>2. ASSUME NEW j \in 1..(P + 2) PROVE rest[j] = both[j]
      <4>0. rest[j] = value[k + j - 1] /\ k + j - 1 = k + (j - 1)
        BY <1>1, <2>1, <2>4
      <4>1. CASE j = 1
        BY <1>4, <2>4, <4>0, <4>1
      <4>2. CASE j = P + 2
        <5>1. k + j - 1 = k + P + 1
          BY <1>1, <4>2
        <5> QED
          BY <1>4, <2>4, <4>0, <4>2, <5>1
      <4>3. CASE j # 1 /\ j # P + 2
        <5>1. j - 1 \in 1..P /\ (j - 1) + 1 = j
          BY <1>1, <4>3
        <5> QED
          BY <1>4, <3>1, <4>0, <5>1
      <4> QED
        BY <4>1, <4>2, <4>3
    <3>3. 0 \in 0..((V - k + 1) - (P + 2)) /\ \A j \in 1..(P + 2) : 0 + j = j
      BY <1>1, <2>4
    <3> QED
      BY <1>4, <2>1, <3>2, <3>3 DEF Occurs
  <2> QED
    BY <2>2, <2>3, <2>4 DEF rest
<1> DEFINE contains == \/ value = phrase \/ IsPrefix(right, value) \/ IsSuffix(left, value)
                       \/ \E k \in 1..V : IsPrefix(both, SubSeq(value, k, V))
<1>10. ASSUME contains PROVE \E k \in 0..V : Alone(phrase, value, k, blank)
  <2>1. 0 \in 0..V /\ (P < V => V - P \in 0..V)
    BY <1>1
  <2>2. \A k \in 1..V : k \in 0..V
    BY <1>1
  <2>3. CASE \E k \in 1..V : IsPrefix(both, SubSeq(value, k, V))
    BY <1>8, <2>2, <2>3 DEF Alone
  <2> QED
    BY <1>5, <1>6, <1>7, <1>10, <2>1, <2>3
<1>11. ASSUME NEW k \in 0..V, Alone(phrase, value, k, blank) PROVE contains
  <2>1. k \in 0..(V - P) /\ (k = 0 \/ k \in 1..V)
    BY <1>1, <1>11 DEF Alone, Occurs
  <2>2. CASE k = 0 /\ k + P = V
    BY <1>1, <1>5, <1>11, <2>2
  <2>3. CASE k = 0 /\ k + P # V
    <3>1. P < V /\ k + P + 1 = P + 1
      BY <1>1, <2>1, <2>3
    <3>2. value[P + 1] = blank /\ Alone(phrase, value, 0, blank)
      BY <1>11, <2>3, <3>1 DEF Alone
    <3> QED
      BY <1>6, <3>1, <3>2
  <2>4. CASE k # 0 /\ k + P = V
    <3>1. P < V /\ k = V - P
      BY <1>1, <2>1, <2>4
    <3>2. value[V - P] = blank /\ Alone(phrase, value, V - P, blank)
      BY <1>11, <2>4, <3>1 DEF Alone
    <3> QED
      BY <1>7, <3>1, <3>2
  <2>5. CASE k # 0 /\ k + P # V
    <3>1. k + P < V /\ k \in 1..V
      BY <1>1, <2>1, <2>5
    <3>2. value[k] = blank /\ value[k + P + 1] = blank /\ Occurs(phrase, value, k)
      BY <1>11, <2>5 DEF Alone
    <3> QED
      BY <1>8, <3>1, <3>2
  <2> QED
    BY <2>2, <2>3, <2>4, <2>5
<1> HIDE DEF Alone
<1> QED
  BY <1>10, <1>11, Zenon DEF right, left, both

\* For every title and all aliases: the keywords of a title are those of whom an
\* alias is among its words (containsNormalizedPhrase, normalization.go).
THEOREM KeywordsAreWords ==
  ASSUME NEW text \in Text
  PROVE  ExtractVersionKeywords(text) =
           {k \in DOMAIN VersionAliases :
               {NormalizeText(a) : a \in VersionAliases[k]} \cap Words(NormalizeText(text)) # {}}
<1> DEFINE normal == NormalizeText(text)
<1>1. ASSUME NEW k \in DOMAIN VersionAliases, NEW a \in VersionAliases[k]
      PROVE  ContainsPhrase(normal, NormalizeText(a)) <=> NormalizeText(a) \in Words(normal)
  <2>1. a \in Text /\ NormalizeText(a) # <<>>
    BY AliasAssumption
  <2>2. NormalizeText(a) \in Seq(Characters) /\ normal \in Seq(Characters)
    BY <2>1, NormalTextType
  <2>3. " " \in Characters
    BY DEF Characters
  <2> DEFINE phrase == NormalizeText(a)
  <2> HIDE DEF phrase, normal
  <2>4. phrase \in Seq(Characters) /\ phrase # <<>>
    BY <2>1, <2>2 DEF phrase
  <2>c. PICK blank : blank = " "
    OBVIOUS
  <2> DEFINE alone == \E n \in 0..Len(normal) : Alone(phrase, normal, n, blank)
  <2>5. ContainsPhrase(normal, phrase) <=> alone
    BY <2>2, <2>3, <2>4, <2>c, PhrasesStandAlone, Zenon DEF ContainsPhrase
  <2>6. CutOut(phrase, normal, blank) <=> alone
    BY <2>2, <2>4, WordsStandAlone
  <2>7. CutOut(phrase, normal, blank) <=> phrase \in Words(normal)
    BY <2>c, Zenon DEF Words, CutOut
  <2> QED
    BY <2>5, <2>6, <2>7 DEF phrase
<1> HIDE DEF normal
<1>2. ExtractVersionKeywords(text) =
        {k \in DOMAIN VersionAliases :
            \E a \in VersionAliases[k] : ContainsPhrase(normal, NormalizeText(a))}
  BY DEF ExtractVersionKeywords, normal
<1>3. ASSUME NEW k \in DOMAIN VersionAliases
      PROVE  (\E a \in VersionAliases[k] : ContainsPhrase(normal, NormalizeText(a))) <=>
               {NormalizeText(a) : a \in VersionAliases[k]} \cap Words(normal) # {}
  BY <1>1
<1> QED
  BY <1>2, <1>3 DEF normal

-------------------------------------------------------------------------------
(* Similarity and scores.                                                  *)

LEMMA MaxOfTwo ==
  ASSUME NEW a \in Int, NEW b \in Int
  PROVE  Max({a, b}) \in {a, b} /\ Max({a, b}) >= a /\ Max({a, b}) >= b
<1>1. \E x \in {a, b} : \A y \in {a, b} : x >= y
  OBVIOUS
<1> QED
  BY <1>1 DEF Max

LEMMA MinOfTwo ==
  ASSUME NEW a \in Int, NEW b \in Int
  PROVE  Min({a, b}) \in {a, b} /\ Min({a, b}) <= a /\ Min({a, b}) <= b
<1>1. \E x \in {a, b} : \A y \in {a, b} : x =< y
  OBVIOUS
<1> QED
  BY <1>1 DEF Min

LEMMA SimilarityType ==
  ASSUME NEW left, NEW right, Len(left) \in Nat, Len(right) \in Nat
  PROVE  Similarity(left, right) \in Int
<1> DEFINE longest  == Max({Len(left), Len(right)})
           distance == EditDistance(left, right)
<1>1. longest \in Nat /\ distance \in Int
  <2>1. Len(left) \in Int /\ Len(right) \in Int
    OBVIOUS
  <2>2. longest \in {Len(left), Len(right)}
    BY <2>1, MaxOfTwo, Zenon
  <2>3. distance \in Int
    BY EditDistanceType
  <2> QED
    BY <2>2, <2>3
<1>2. Similarity(left, right) =
         IF longest = 0 THEN 0 ELSE (480 * (longest - distance)) \div longest
  BY DEF Similarity
<1> HIDE DEF longest, distance
<1>3. ASSUME longest # 0 PROVE (480 * (longest - distance)) \div longest \in Int
  BY <1>1, <1>3
<1> QED
  BY <1>2, <1>3

\* A score is between 0 and 1, and what it says is about the five aspects.
AspectNames == {"title", "artists", "album", "duration", "versions"}

LEMMA WeighedType ==
  ASSUME NEW a, NEW b, NEW c, NEW d, NEW e,
         a.points \in Int, b.points \in Int, c.points \in Int, d.points \in Int, e.points \in Int
  PROVE  LET weighed == Weighed([title |-> a, artists |-> b, album |-> c,
                                 duration |-> d, versions |-> e])
         IN  /\ weighed.score \in 0..Top
             /\ weighed.evidence \in SUBSET AspectNames
             /\ weighed.conflicts \in SUBSET AspectNames
<1> DEFINE aspects == [title |-> a, artists |-> b, album |-> c, duration |-> d, versions |-> e]
           sum == aspects.title.points + aspects.artists.points + aspects.album.points
                    + aspects.duration.points + aspects.versions.points
<1>1. DOMAIN aspects = AspectNames
  BY DEF AspectNames
<1>2. sum \in Int
  OBVIOUS
<1>3. /\ Weighed(aspects).score = Max({0, Min({Top, sum})})
      /\ Weighed(aspects).evidence \in SUBSET DOMAIN aspects
      /\ Weighed(aspects).conflicts \in SUBSET DOMAIN aspects
  BY DEF Weighed
<1> HIDE DEF sum
<1>4. Max({0, Min({Top, sum})}) \in 0..Top
  <2> DEFINE least == Min({Top, sum})
  <2>1. Top \in Nat /\ 0 \in Int
    BY DEF Top
  <2>2. Top \in Int
    BY <2>1
  <2>3. least \in {Top, sum} /\ least <= Top
    BY <1>2, <2>2, MinOfTwo, Zenon
  <2> HIDE DEF least
  <2>4. least \in Int
    BY <1>2, <2>2, <2>3
  <2>5. Max({0, least}) \in {0, least} /\ Max({0, least}) >= 0
    BY <2>1, <2>4, MaxOfTwo, Zenon
  <2>6. Max({0, least}) \in 0..Top
    BY <2>1, <2>3, <2>4, <2>5
  <2> QED
    BY <2>6 DEF least
<1> QED
  BY <1>1, <1>3, <1>4

LEMMA ScoreType ==
  ASSUME NEW observation_, NEW recording, NEW release,
         observation_.title \in Text, recording.title \in Text
  PROVE  LET scored == ScoreCandidate(observation_, recording, release)
         IN  /\ scored.score \in 0..Top
             /\ scored.evidence \in SUBSET AspectNames
             /\ scored.conflicts \in SUBSET AspectNames
<1>1. TitleAspect(observation_, recording).points \in Int
  <2>1. /\ Len(NormalizeText(observation_.title)) \in Nat
        /\ Len(NormalizeText(recording.title)) \in Nat
    BY NormalTextType
  <2>2. Similarity(NormalizeText(observation_.title), NormalizeText(recording.title)) \in Int
    BY <2>1, SimilarityType
  <2> QED
    BY <2>2 DEF TitleAspect, Aspect
<1>2. ArtistAspect(observation_, recording).points \in Int
  BY DEF ArtistAspect, Aspect
<1>3. AlbumAspect(observation_, release).points \in Int
  BY DEF AlbumAspect, Aspect
<1>4. DurationAspect(observation_, recording).points \in Int
  <2> DEFINE points == DurationAspect(observation_, recording).points
  <2>1. DurationAspect(observation_, recording)
          \in {Aspect(0, "silent"), Aspect(120, "for"), Aspect(60, "for"), Aspect(0, "against")}
    <3> DEFINE silent == None \in {observation_.duration, recording.duration}
               close  == observation_.duration - recording.duration \in -2000..2000
               near   == observation_.duration - recording.duration \in -10000..10000
    <3>1. DurationAspect(observation_, recording)
            = IF silent THEN Aspect(0, "silent")
              ELSE IF close THEN Aspect(120, "for")
              ELSE IF near THEN Aspect(60, "for") ELSE Aspect(0, "against")
      BY DEF DurationAspect
    <3> HIDE DEF silent, close, near
    <3> QED
      BY <3>1, Zenon
  <2>2. points \in {0, 120, 60}
    <3> HIDE DEF points
    <3>1. \A p, m : Aspect(p, m).points = p
      BY DEF Aspect
    <3> QED
      BY <2>1, <3>1 DEF points
  <2> QED
    BY <2>2
<1>5. VersionAspect(observation_, recording).points \in Int
  BY DEF VersionAspect, Aspect
<1> QED
  BY <1>1, <1>2, <1>3, <1>4, <1>5, WeighedType DEF ScoreCandidate

-------------------------------------------------------------------------------
(* Who is accepted.                                                        *)

\* A text is no way from itself: its letters are paired each with itself.
LEMMA SelfDistance ==
  ASSUME NEW text, Len(text) \in Nat
  PROVE  EditDistance(text, text) \in Int /\ EditDistance(text, text) <= 0
<1> DEFINE N == Len(text)
           p == {<<k, k>> : k \in 1..N}
           f == [k \in 1..N |-> <<k, k>>]
<1>1. p \in Aligned(N, N)
  BY DEF Aligned
<1>2. Cardinality(p) = N
  <2>1. f \in [1..N -> p] /\ \A k, l \in 1..N : f[k] = f[l] => k = l
    OBVIOUS
  <2>2. \A a \in p : \E k \in 1..N : f[k] = a
    OBVIOUS
  <2>3. f \in Bijection(1..N, p)
    BY <2>1, <2>2 DEF Bijection, Injection, Surjection, IsInjective
  <2>4. ExistsBijection(1..N, p)
    BY <2>3 DEF ExistsBijection
  <2> QED
    BY <2>4, FS_CountingElements
<1>3. Cardinality(Differing(text, text, p)) = 0
  <2>1. Differing(text, text, p) = {}
    BY DEF Differing
  <2> QED
    BY <2>1, FS_EmptySet
<1>4. CostOf(text, text, N, N, p) = 0
  BY <1>2, <1>3 DEF CostOf
<1>5. EditDistance(text, text) <= CostOf(text, text, N, N, p)
  BY <1>1, DistanceIsLeast DEF Least
<1> QED
  BY <1>4, <1>5, EditDistanceType

LEMMA SameTextSimilarity ==
  ASSUME NEW text, Len(text) \in Nat \ {0}
  PROVE  Similarity(text, text) \in Int /\ Similarity(text, text) >= 480
<1> DEFINE N == Len(text)
           d == EditDistance(text, text)
           longest == Max({N, N})
<1>1. N \in Nat \ {0} /\ d \in Int /\ d <= 0
  BY SelfDistance
<1>2. longest = N
  <2>1. N \in Int
    OBVIOUS
  <2>2. longest \in {N, N}
    BY <2>1, MaxOfTwo, Zenon
  <2> QED
    BY <2>2
<1>3. Similarity(text, text) = (480 * (N - d)) \div N
  <2>1. Similarity(text, text) = IF longest = 0 THEN 0 ELSE (480 * (longest - d)) \div longest
    BY DEF Similarity
  <2> QED
    BY <1>1, <1>2, <2>1
<1> HIDE DEF N, d
<1>4. (480 * (N - d)) \div N \in Int /\ (480 * (N - d)) \div N >= 480
  <2> DEFINE x == 480 * (N - d)
             q == x \div N
  <2>1. x \in Nat /\ x >= 480 * N
    BY <1>1
  <2> HIDE DEF x
  <2>2. q \in Nat /\ x < (q + 1) * N
    BY <1>1, <2>1, Z3
  <2>3. ASSUME q + 1 <= 480 PROVE FALSE
    <3>1. (q + 1) * N <= 480 * N
      BY <1>1, <2>2, <2>3, Z3
    <3> QED
      BY <1>1, <2>1, <2>2, <3>1
  <2>4. q >= 480
    BY <2>2, <2>3
  <2> QED
    BY <2>2, <2>4 DEF x
<1> QED
  BY <1>3, <1>4

\* An aspect other than title and keywords earns points only with evidence.
Earned(a) == a.points \in Nat /\ (a.verdict # "for" => a.points = 0)

LEMMA AspectsEarned ==
  /\ Earned(Aspect(0, "silent")) /\ Earned(Aspect(0, "against"))
  /\ \A points \in Nat : Earned(Aspect(points, "for"))
  /\ \A points, verdict : Aspect(points, verdict).points = points
                          /\ Aspect(points, verdict).verdict = verdict
BY DEF Earned, Aspect

LEMMA OthersEarned ==
  ASSUME NEW observation_, NEW recording, NEW release
  PROVE  /\ Earned(ArtistAspect(observation_, recording))
         /\ Earned(AlbumAspect(observation_, release))
         /\ Earned(DurationAspect(observation_, recording))
<1>1. 360 \in Nat /\ 180 \in Nat /\ 120 \in Nat /\ 90 \in Nat /\ 60 \in Nat
  OBVIOUS
<1>2. ArtistAspect(observation_, recording)
        \in {Aspect(0, "silent"), Aspect(360, "for"), Aspect(180, "for"), Aspect(0, "against")}
  <2> DEFINE silent == {} \in {DOMAIN ObservedNames(observation_),
                               DOMAIN NormalizedNames(recording.artists)}
             same   == ObservedNames(observation_) = NormalizedNames(recording.artists)
             some   == DOMAIN ObservedNames(observation_)
                         \cap DOMAIN NormalizedNames(recording.artists) # {}
  <2>1. ArtistAspect(observation_, recording)
          = IF silent THEN Aspect(0, "silent")
            ELSE IF same THEN Aspect(360, "for")
            ELSE IF some THEN Aspect(180, "for") ELSE Aspect(0, "against")
    BY DEF ArtistAspect
  <2> HIDE DEF silent, same, some
  <2> QED
    BY <2>1, Zenon
<1>3. AlbumAspect(observation_, release)
        \in {Aspect(0, "silent"), Aspect(180, "for"), Aspect(90, "for"), Aspect(0, "against")}
  BY Zenon DEF AlbumAspect
<1>4. DurationAspect(observation_, recording)
        \in {Aspect(0, "silent"), Aspect(120, "for"), Aspect(60, "for"), Aspect(0, "against")}
  <2> DEFINE silent == None \in {observation_.duration, recording.duration}
             close  == observation_.duration - recording.duration \in -2000..2000
             near   == observation_.duration - recording.duration \in -10000..10000
  <2>1. DurationAspect(observation_, recording)
          = IF silent THEN Aspect(0, "silent")
            ELSE IF close THEN Aspect(120, "for")
            ELSE IF near THEN Aspect(60, "for") ELSE Aspect(0, "against")
    BY DEF DurationAspect
  <2> HIDE DEF silent, close, near
  <2> QED
    BY <2>1, Zenon
<1>5. /\ Earned(Aspect(0, "silent")) /\ Earned(Aspect(0, "against"))
      /\ Earned(Aspect(360, "for")) /\ Earned(Aspect(180, "for")) /\ Earned(Aspect(120, "for"))
      /\ Earned(Aspect(90, "for")) /\ Earned(Aspect(60, "for"))
  BY <1>1, AspectsEarned
<1>6. Earned(ArtistAspect(observation_, recording))
  BY <1>2, <1>5
<1>7. Earned(AlbumAspect(observation_, release))
  BY <1>3, <1>5
<1>8. Earned(DurationAspect(observation_, recording))
  BY <1>4, <1>5
<1> QED
  BY <1>6, <1>7, <1>8

LEMMA WeighedFacts ==
  ASSUME NEW a, NEW b, NEW c, NEW d, NEW e,
         a.points \in Int, b.points \in Int, c.points \in Int, d.points \in Int, e.points \in Int
  PROVE  LET weighed == Weighed([title |-> a, artists |-> b, album |-> c,
                                 duration |-> d, versions |-> e])
             sum == a.points + b.points + c.points + d.points + e.points
         IN  /\ sum >= Threshold => weighed.score >= Threshold
             /\ sum < Threshold => weighed.score < Threshold
             /\ weighed.evidence = {} => /\ a.verdict # "for" /\ b.verdict # "for"
                                         /\ c.verdict # "for" /\ d.verdict # "for"
<1> DEFINE aspects == [title |-> a, artists |-> b, album |-> c, duration |-> d, versions |-> e]
           sum == a.points + b.points + c.points + d.points + e.points
           least == Min({Top, sum})
           score == Max({0, least})
<1>1. Weighed(aspects).score = score
  BY DEF Weighed
<1>2. Weighed(aspects).evidence = {x \in DOMAIN aspects : aspects[x].verdict = "for"}
  BY DEF Weighed
<1>3. Weighed(aspects).evidence = {} => /\ a.verdict # "for" /\ b.verdict # "for"
                                        /\ c.verdict # "for" /\ d.verdict # "for"
  <2>1. /\ aspects["title"] = a /\ aspects["artists"] = b
        /\ aspects["album"] = c /\ aspects["duration"] = d
        /\ {"title", "artists", "album", "duration"} \subseteq DOMAIN aspects
    OBVIOUS
  <2> HIDE DEF aspects
  <2> QED
    BY <1>2, <2>1, Zenon
<1>4. /\ sum >= Threshold => score >= Threshold
      /\ sum < Threshold => score < Threshold
  <2>1. sum \in Int /\ Top \in Int /\ 0 \in Int /\ Top >= Threshold /\ Threshold \in Nat \ {0}
    BY DEF Top, Threshold
  <2> HIDE DEF sum
  <2>2. least \in {Top, sum} /\ least <= Top /\ least <= sum
    BY <2>1, MinOfTwo, Zenon
  <2> HIDE DEF least
  <2>3. least \in Int
    BY <2>1, <2>2
  <2>4. score \in {0, least} /\ score >= 0 /\ score >= least
    BY <2>1, <2>3, MaxOfTwo, Zenon
  <2> HIDE DEF score
  <2> QED
    BY <2>1, <2>2, <2>3, <2>4
<1> QED
  BY <1>1, <1>3, <1>4

\* The observed title is enough, whatever else is found.
LEMMA TitleIsEnough ==
  ASSUME NEW observation_, NEW recording, NEW release,
         observation_.title \in Text, recording.title \in Text,
         NormalizeText(recording.title) = NormalizeText(observation_.title),
         NormalizeText(observation_.title) # <<>>
  PROVE  ScoreCandidate(observation_, recording, release).score >= Threshold
<1> DEFINE a == TitleAspect(observation_, recording)
           b == ArtistAspect(observation_, recording)
           c == AlbumAspect(observation_, release)
           d == DurationAspect(observation_, recording)
           e == VersionAspect(observation_, recording)
           title == NormalizeText(observation_.title)
<1>1. Len(title) \in Nat \ {0}
  BY NormalTextType
<1>2. a.points \in Int /\ a.points >= 480
  <2>1. a.points = Similarity(title, title)
    BY DEF TitleAspect, Aspect
  <2> HIDE DEF title, a
  <2> QED
    BY <1>1, <2>1, SameTextSimilarity
<1>3. e.points = 60
  <2>1. ExtractVersionKeywords(observation_.title) = ExtractVersionKeywords(recording.title)
    BY DEF ExtractVersionKeywords
  <2> QED
    BY <2>1 DEF VersionAspect, Aspect
<1>4. b.points \in Nat /\ c.points \in Nat /\ d.points \in Nat
  BY OthersEarned DEF Earned
<1>5. ScoreCandidate(observation_, recording, release)
        = Weighed([title |-> a, artists |-> b, album |-> c, duration |-> d, versions |-> e])
  BY DEF ScoreCandidate
<1> HIDE DEF a, b, c, d, e
<1>6. a.points + b.points + c.points + d.points + e.points >= Threshold
  BY <1>2, <1>3, <1>4 DEF Threshold
<1> QED
  BY <1>2, <1>3, <1>4, <1>5, <1>6, WeighedFacts

\* A result that nothing speaks for is not accepted.
LEMMA NothingIsNotEnough ==
  ASSUME NEW observation_, NEW recording, NEW release,
         observation_.title \in Text, recording.title \in Text,
         ScoreCandidate(observation_, recording, release).evidence = {}
  PROVE  ~ (ScoreCandidate(observation_, recording, release).score >= Threshold)
<1> DEFINE a == TitleAspect(observation_, recording)
           b == ArtistAspect(observation_, recording)
           c == AlbumAspect(observation_, release)
           d == DurationAspect(observation_, recording)
           e == VersionAspect(observation_, recording)
           similar == Similarity(NormalizeText(observation_.title), NormalizeText(recording.title))
<1>1. similar \in Int
  <2>1. /\ Len(NormalizeText(observation_.title)) \in Nat
        /\ Len(NormalizeText(recording.title)) \in Nat
    BY NormalTextType
  <2> QED
    BY <2>1, SimilarityType
<1>2. a.points = similar /\ (similar >= High => a.verdict = "for")
  <2>1. a = Aspect(similar, IF similar >= High THEN "for"
                            ELSE IF NormalizeText(observation_.title) # <<>> /\ recording.title # <<>>
                                   THEN "against" ELSE "silent")
    BY DEF TitleAspect
  <2> HIDE DEF a, similar
  <2> QED
    BY <2>1, AspectsEarned, Zenon
<1>3. e.points \in {0, 60}
  BY DEF VersionAspect, Aspect
<1>4. Earned(b) /\ Earned(c) /\ Earned(d)
  BY OthersEarned
<1>5. ScoreCandidate(observation_, recording, release)
        = Weighed([title |-> a, artists |-> b, album |-> c, duration |-> d, versions |-> e])
  BY DEF ScoreCandidate
<1>6. b.points \in Nat /\ c.points \in Nat /\ d.points \in Nat
  BY <1>4, Zenon DEF Earned
<1> HIDE DEF a, b, c, d, e, similar
<1>7. a.points \in Int /\ e.points \in Int
  BY <1>1, <1>2, <1>3
<1>8. /\ a.verdict # "for" /\ b.verdict # "for" /\ c.verdict # "for" /\ d.verdict # "for"
      /\ a.points + b.points + c.points + d.points + e.points < Threshold
           => ScoreCandidate(observation_, recording, release).score < Threshold
  BY <1>5, <1>6, <1>7, WeighedFacts
<1>9. ~ (similar >= High) /\ b.points = 0 /\ c.points = 0 /\ d.points = 0
  BY <1>2, <1>4, <1>8, Zenon DEF Earned
<1>10. a.points + b.points + c.points + d.points + e.points < Threshold
  BY <1>1, <1>2, <1>3, <1>9 DEF High, Threshold
<1>11. ScoreCandidate(observation_, recording, release).score \in 0..Top
  BY ScoreType
<1> QED
  <2> DEFINE score == ScoreCandidate(observation_, recording, release).score
  <2>1. score < Threshold
    BY <1>8, <1>10
  <2>2. score \in Int /\ Threshold \in Int
    BY <1>11 DEF Threshold, Top
  <2> HIDE DEF score
  <2>3. ~ (score >= Threshold)
    BY <2>1, <2>2
  <2> QED
    BY <2>3 DEF score

-------------------------------------------------------------------------------
(* The ranking: a permutation of the candidates, in their order.           *)

LEMMA RankedIsSorted ==
  ASSUME NEW S, NEW list \in Seq(S),
         \A i \in 1..Len(list) : list[i].score \in Int /\ list[i].recording.id \in Int
  PROVE  /\ Ranked(list) \in Seq(S) /\ Len(Ranked(list)) = Len(list)
         /\ \E p \in [1..Len(list) -> 1..Len(list)] :
               /\ \A n \in 1..Len(list) : Ranked(list)[n] = list[p[n]]
               /\ \A i \in 1..Len(list) : \E n \in 1..Len(list) : p[n] = i
               /\ \A m, n \in 1..Len(list) : m < n => Precedes(list, p[m], p[n])
<1> DEFINE N == Len(list)
           R == {t \in (1..N) \X (1..N) : Precedes(list, t[1], t[2])}
           Place(i) == 1 + Cardinality({j \in 1..N : <<j, i>> \in R})
           p == [n \in DOMAIN list |-> CHOOSE i \in DOMAIN list : Rank(list, i) = n]
<1>1. N \in Nat /\ DOMAIN list = 1..N
  OBVIOUS
<1>2. \A i, j \in 1..N : <<i, j>> \in R <=> Precedes(list, i, j)
  OBVIOUS
<1>3. \A i \in 1..N : Rank(list, i) = Place(i)
  BY <1>1, <1>2 DEF Rank
<1> HIDE DEF N, R
<1>4. IsFiniteSet(1..N) /\ Cardinality(1..N) = N
  BY <1>1, FS_Interval
<1>5. R \in SUBSET ((1..N) \X (1..N))
  BY DEF R
<1>6. /\ \A i \in 1..N : <<i, i>> \notin R
      /\ \A i, j, k \in 1..N : <<i, j>> \in R /\ <<j, k>> \in R => <<i, k>> \in R
      /\ \A i, j \in 1..N : i # j => <<i, j>> \in R \/ <<j, i>> \in R
  <2> DEFINE score == [i \in 1..N |-> list[i].score]
             id    == [i \in 1..N |-> list[i].recording.id]
  <2>1. \A i \in 1..N : score[i] \in Int /\ id[i] \in Int /\ i \in Int
    BY <1>1 DEF N
  <2>2. ASSUME NEW i \in 1..N, NEW j \in 1..N
        PROVE  <<i, j>> \in R <=>
                 \/ score[i] > score[j]
                 \/ score[i] = score[j] /\ (id[i] < id[j] \/ (id[i] = id[j] /\ i < j))
    <3>1. /\ score[i] = list[i].score /\ id[i] = list[i].recording.id
          /\ score[j] = list[j].score /\ id[j] = list[j].recording.id
      OBVIOUS
    <3> HIDE DEF score, id
    <3>2. <<i, j>> \in R <=> Precedes(list, i, j)
      BY <1>2
    <3>3. Precedes(list, i, j) <=>
            \/ score[i] > score[j]
            \/ score[i] = score[j] /\ (id[i] < id[j] \/ (id[i] = id[j] /\ i < j))
      BY <3>1 DEF Precedes
    <3> QED
      BY <3>2, <3>3
  <2> HIDE DEF score, id
  <2>3. \A i \in 1..N : <<i, i>> \notin R
    BY <2>1, <2>2
  <2>4. ASSUME NEW i \in 1..N, NEW j \in 1..N, NEW k \in 1..N,
               <<i, j>> \in R, <<j, k>> \in R
        PROVE  <<i, k>> \in R
    <3>1. \/ score[i] > score[j]
          \/ score[i] = score[j] /\ (id[i] < id[j] \/ (id[i] = id[j] /\ i < j))
      BY <2>2, <2>4
    <3>2. \/ score[j] > score[k]
          \/ score[j] = score[k] /\ (id[j] < id[k] \/ (id[j] = id[k] /\ j < k))
      BY <2>2, <2>4
    <3>3. \/ score[i] > score[k]
          \/ score[i] = score[k] /\ (id[i] < id[k] \/ (id[i] = id[k] /\ i < k))
      BY <2>1, <3>1, <3>2
    <3> QED
      BY <2>2, <3>3
  <2>5. ASSUME NEW i \in 1..N, NEW j \in 1..N, i # j
        PROVE  <<i, j>> \in R \/ <<j, i>> \in R
    <3>0. /\ score[i] \in Int /\ score[j] \in Int /\ id[i] \in Int /\ id[j] \in Int
          /\ i \in Int /\ j \in Int
      BY <2>1
    <3>1. \/ score[i] > score[j]
          \/ score[i] = score[j] /\ (id[i] < id[j] \/ (id[i] = id[j] /\ i < j))
          \/ score[j] > score[i]
          \/ score[j] = score[i] /\ (id[j] < id[i] \/ (id[j] = id[i] /\ j < i))
      BY <2>5, <3>0
    <3> QED
      BY <2>2, <3>1
  <2> QED
    BY <2>3, <2>4, <2>5
<1>7. /\ \A i \in 1..N : Place(i) \in 1..N
      /\ \A i, j \in 1..N : <<i, j>> \in R <=> Place(i) < Place(j)
      /\ \A n \in 1..N : \E i \in 1..N : Place(i) = n
  BY <1>4, <1>5, <1>6, Positions, ZenonT(40)
<1> HIDE DEF Place
<1>8. p \in [1..N -> 1..N] /\ \A n \in 1..N : Place(p[n]) = n
  <2>1. \A n \in 1..N : \E i \in DOMAIN list : Rank(list, i) = n
    BY <1>1, <1>3, <1>7
  <2>2. p \in [1..N -> 1..N] /\ \A n \in 1..N : Rank(list, p[n]) = n
    BY <1>1, <2>1
  <2> HIDE DEF p
  <2> QED
    BY <1>3, <2>2
<1>9. Ranked(list) = [n \in 1..N |-> list[p[n]]]
  <2>1. Ranked(list) = [n \in DOMAIN list |-> list[CHOOSE i \in DOMAIN list : Rank(list, i) = n]]
    BY DEF Ranked
  <2>2. \A n \in DOMAIN list : p[n] = CHOOSE i \in DOMAIN list : Rank(list, i) = n
    OBVIOUS
  <2> QED
    BY <1>1, <2>1, <2>2
<1> HIDE DEF p
<1>10. \A n \in 1..N : list[p[n]] \in S
  BY <1>1, <1>8
<1>11. Ranked(list) \in Seq(S) /\ Len(Ranked(list)) = N
  BY <1>1, <1>9, <1>10
<1>12. \A i \in 1..N : p[Place(i)] = i
  <2> SUFFICES ASSUME NEW i \in 1..N PROVE p[Place(i)] = i
    OBVIOUS
  <2> DEFINE j == p[Place(i)]
  <2>1. j \in 1..N /\ Place(j) = Place(i) /\ Place(i) \in 1..N
    BY <1>7, <1>8
  <2> HIDE DEF j
  <2>2. <<i, j>> \notin R /\ <<j, i>> \notin R
    BY <1>1, <1>7, <2>1
  <2> QED
    BY <1>6, <2>1, <2>2 DEF j
<1>13. \A m, n \in 1..N : m < n => Precedes(list, p[m], p[n])
  BY <1>2, <1>7, <1>8
<1> QED
  BY <1>7, <1>8, <1>9, <1>11, <1>12, <1>13 DEF N

-------------------------------------------------------------------------------
(* The merge.                                                              *)

Marks == AspectNames \cup {"sources"}

\* Candidates for recordings of R on releases of L, from the providers P, with
\* source rows of O and patches of Q.
CandidateSet(R, L, P, O, Q) ==
    [recording : R, release : L, score : 0..Top, evidence : SUBSET Marks,
     conflicts : SUBSET Marks, source : P, sources : SUBSET P, observation : O, patch : Q]

LEMMA ScoreRange ==
  ASSUME NEW R, NEW L, NEW P, NEW O, NEW Q, NEW c \in CandidateSet(R, L, P, O, Q)
  PROVE  c.score \in 0..Top /\ c.score \in Int
<1>1. c.score \in 0..Top
  BY DEF CandidateSet
<1>2. \A x \in 0..Top : x \in Int
  BY DEF Top
<1> QED
  BY <1>1, <1>2

\* As they are when they are accepted: of one source, without its mark, and with
\* something that speaks for them.
AsAccepted(candidate) ==
    /\ "sources" \notin candidate.evidence /\ candidate.evidence # {}
    /\ candidate.sources = {candidate.source}

SameOrigin(c, d) ==
    /\ c.recording = d.recording /\ c.release = d.release /\ c.source = d.source
    /\ c.observation = d.observation /\ c.patch = d.patch

LEMMA MinIs ==
  ASSUME NEW a \in Int, NEW b \in Int
  PROVE  Min({a, b}) = IF a <= b THEN a ELSE b
<1>1. Min({a, b}) \in {a, b} /\ Min({a, b}) <= a /\ Min({a, b}) <= b
  BY MinOfTwo, Zenon
<1> QED
  BY <1>1

\* What becomes of a candidate that another one joins: the better score, the
\* evidence that comes with it, and whether it is the second source to join.
Best(first, c) == IF c.score > first.score THEN c.score ELSE first.score
Said(first, c) == first.evidence \cup (IF c.score > first.score THEN c.evidence ELSE {})
Objected(first, c) == first.conflicts \cup (IF c.score > first.score THEN c.conflicts ELSE {})
Newly(first, c) ==
    Cardinality(first.sources \cup c.sources) > 1 /\ "sources" \notin Said(first, c)

LEMMA JoinedFacts ==
  ASSUME NEW R, NEW L, NEW P, NEW O, NEW Q,
         NEW first \in CandidateSet(R, L, P, O, Q), NEW c \in CandidateSet(R, L, P, O, Q)
  PROVE  /\ Joined(first, c) \in CandidateSet(R, L, P, O, Q)
         /\ SameOrigin(Joined(first, c), first)
         /\ Joined(first, c).sources = first.sources \cup c.sources
         /\ Joined(first, c).score
              = IF ~Newly(first, c) THEN Best(first, c)
                ELSE IF Best(first, c) + 60 > Top THEN Top ELSE Best(first, c) + 60
         /\ Joined(first, c).evidence
              = Said(first, c) \cup (IF Newly(first, c) THEN {"sources"} ELSE {})
         /\ Joined(first, c).conflicts = Objected(first, c)
<1> DEFINE U == CandidateSet(R, L, P, O, Q)
           better == c.score > first.score
           scored == IF ~better THEN first
                     ELSE [first EXCEPT !.score = c.score,
                                        !.evidence = @ \cup c.evidence,
                                        !.conflicts = @ \cup c.conflicts]
           joined == [scored EXCEPT !.sources = @ \cup c.sources]
           marked == [joined EXCEPT !.evidence = @ \cup {"sources"},
                                    !.score = Min({Top, @ + 60})]
<1>1. Joined(first, c) = IF Cardinality(joined.sources) > 1 /\ "sources" \notin joined.evidence
                           THEN marked ELSE joined
  BY DEF Joined
<1>2. /\ scored \in U /\ SameOrigin(scored, first) /\ scored.sources = first.sources
      /\ scored.score = (IF better THEN c.score ELSE first.score)
      /\ scored.evidence = first.evidence \cup (IF better THEN c.evidence ELSE {})
      /\ scored.conflicts = first.conflicts \cup (IF better THEN c.conflicts ELSE {})
  <2>1. CASE better
    BY <2>1 DEF CandidateSet, SameOrigin
  <2>2. CASE ~better
    BY <2>2 DEF CandidateSet, SameOrigin
  <2> QED
    BY <2>1, <2>2
<1> HIDE DEF scored
<1>3. /\ joined \in U /\ SameOrigin(joined, first)
      /\ joined.sources = first.sources \cup c.sources
      /\ joined.score = scored.score /\ joined.evidence = scored.evidence
      /\ joined.conflicts = scored.conflicts
  BY <1>2 DEF CandidateSet, SameOrigin
<1> HIDE DEF joined
<1>4. /\ marked \in U /\ SameOrigin(marked, first) /\ marked.sources = joined.sources
      /\ marked.score = (IF joined.score + 60 > Top THEN Top ELSE joined.score + 60)
      /\ marked.evidence = joined.evidence \cup {"sources"}
      /\ marked.conflicts = joined.conflicts
  <2>1. joined.score \in 0..Top /\ Top \in Nat
    BY <1>3 DEF CandidateSet, Top
  <2> DEFINE more == Min({Top, joined.score + 60})
  <2>2. more = (IF Top <= joined.score + 60 THEN Top ELSE joined.score + 60)
    <3>1. Top \in Int /\ joined.score + 60 \in Int
      BY <2>1
    <3> QED
      BY <3>1, MinIs, Zenon
  <2> HIDE DEF more
  <2>3. more \in 0..Top /\ more = (IF joined.score + 60 > Top THEN Top ELSE joined.score + 60)
    BY <2>1, <2>2
  <2>4. marked = [joined EXCEPT !.evidence = @ \cup {"sources"}, !.score = more]
    BY DEF more
  <2>5. "sources" \in Marks
    BY DEF Marks
  <2> HIDE DEF marked
  <2> QED
    BY <1>3, <2>3, <2>4, <2>5 DEF CandidateSet, SameOrigin
<1> HIDE DEF marked
<1>5. /\ joined.score = Best(first, c) /\ joined.evidence = Said(first, c)
      /\ joined.sources = first.sources \cup c.sources
      /\ joined.conflicts = Objected(first, c)
  BY <1>2, <1>3 DEF Best, Said, Objected
<1>6. Newly(first, c) <=> Cardinality(joined.sources) > 1 /\ "sources" \notin joined.evidence
  BY <1>5, Zenon DEF Newly
<1>7. CASE Newly(first, c)
  <2>1. Joined(first, c) = marked
    BY <1>1, <1>6, <1>7
  <2> QED
    BY <1>3, <1>4, <1>5, <1>7, <2>1 DEF SameOrigin
<1>8. CASE ~Newly(first, c)
  <2>1. Joined(first, c) = joined
    BY <1>1, <1>6, <1>8
  <2> QED
    BY <1>3, <1>5, <1>8, <2>1
<1> QED
  BY <1>7, <1>8

\* Among the first n candidates: those that open a place in the merged list,
\* and those that end up in the place of f.
KeyOf(list, i)      == MergeKey(list[i].recording)
Founders(list, n)   ==
    {f \in 1..n : KeyOf(list, f) = None \/ \A i \in 1..(f - 1) : KeyOf(list, i) # KeyOf(list, f)}
Party(list, n, f)   ==
    {i \in 1..n : i = f \/ (KeyOf(list, f) # None /\ KeyOf(list, i) = KeyOf(list, f))}

\* What the place of f holds after n candidates.
Stands(m, list, n, f) ==
    /\ SameOrigin(m, list[f])
    /\ KeyOf(list, f) = None => m = list[f]
    /\ m.sources = UNION {list[i].sources : i \in Party(list, n, f)}
    /\ IsFiniteSet(m.sources) /\ m.sources # {}
    /\ \A i \in Party(list, n, f) : list[i].score <= m.score
    /\ \E i \in Party(list, n, f) : Shows(m, list[i])
    /\ m.conflicts \subseteq UNION {list[i].conflicts : i \in Party(list, n, f)}
    /\ m.evidence \ {"sources"} \subseteq UNION {list[i].evidence : i \in Party(list, n, f)}
    /\ ("sources" \in m.evidence) <=> (Cardinality(m.sources) > 1)

MergedWell(merged, list, n) ==
    /\ Len(merged) = Cardinality(Founders(list, n))
    /\ \A k \in 1..Len(merged) : \E f \in Founders(list, n) : Stands(merged[k], list, n, f)
    /\ \A f \in Founders(list, n) : \E k \in 1..Len(merged) : Stands(merged[k], list, n, f)

\* A candidate alone in its place.
LEMMA StandsAlone ==
  ASSUME NEW R, NEW L, NEW P, NEW O, NEW Q, NEW list \in Seq(CandidateSet(R, L, P, O, Q)),
         NEW n \in 1..Len(list), AsAccepted(list[n]), n \in Founders(list, n)
  PROVE  Stands(list[n], list, n, n)
<1> DEFINE c == list[n]
<1>1. c \in CandidateSet(R, L, P, O, Q) /\ n \in Nat
  OBVIOUS
<1>2. Party(list, n, n) = {n}
  <2>1. \A i \in 1..n : i # n => i \in 1..(n - 1)
    OBVIOUS
  <2> QED
    BY <2>1 DEF Party, Founders
<1>3. c.score \in 0..Top /\ c.score \in Int
  BY <1>1, ScoreRange
<1>4. c.sources = {c.source} /\ "sources" \notin c.evidence
  BY DEF AsAccepted
<1>5. IsFiniteSet(c.sources) /\ Cardinality(c.sources) = 1
  <2>1. IsFiniteSet({c.source}) /\ Cardinality({c.source}) = 1
    BY FS_Singleton
  <2> QED
    BY <1>4, <2>1
<1>6. /\ UNION {list[i].sources : i \in {n}} = c.sources
      /\ UNION {list[i].conflicts : i \in {n}} = c.conflicts
      /\ UNION {list[i].evidence : i \in {n}} = c.evidence
  OBVIOUS
<1> HIDE DEF c
<1>7. SameOrigin(c, c)
  BY DEF SameOrigin
<1>8. c.score <= c.score /\ Shows(c, c)
  BY <1>3 DEF Shows
<1> QED
  BY <1>2, <1>3, <1>4, <1>5, <1>6, <1>7, <1>8 DEF Stands, c

\* A candidate joins the one that holds the place of its key.
LEMMA StandsJoined ==
  ASSUME NEW R, NEW L, NEW P, NEW O, NEW Q, NEW list \in Seq(CandidateSet(R, L, P, O, Q)),
         NEW n \in 1..Len(list), AsAccepted(list[n]),
         NEW f \in Founders(list, n - 1), NEW m \in CandidateSet(R, L, P, O, Q),
         Stands(m, list, n - 1, f),
         KeyOf(list, f) # None, KeyOf(list, f) = KeyOf(list, n)
  PROVE  Stands(Joined(m, list[n]), list, n, f)
<1> DEFINE c == list[n]
           j == Joined(m, c)
           best == IF c.score > m.score THEN c.score ELSE m.score
           said == m.evidence \cup (IF c.score > m.score THEN c.evidence ELSE {})
           mark == Cardinality(m.sources \cup c.sources) > 1 /\ "sources" \notin said
           against == m.conflicts \cup (IF c.score > m.score THEN c.conflicts ELSE {})
           before == Party(list, n - 1, f)
           party  == Party(list, n, f)
<1>1. /\ c \in CandidateSet(R, L, P, O, Q) /\ n \in Nat
      /\ f \in 1..(n - 1) /\ f \in 1..n /\ n - 1 \in Nat
  BY DEF Founders
<1>2. /\ SameOrigin(j, m)
      /\ j.sources = m.sources \cup c.sources
      /\ j.score = (IF ~mark THEN best ELSE IF best + 60 > Top THEN Top ELSE best + 60)
      /\ j.evidence = said \cup (IF mark THEN {"sources"} ELSE {})
      /\ j.conflicts = against
  <2> HIDE DEF c
  <2>1. c \in CandidateSet(R, L, P, O, Q) /\ m \in CandidateSet(R, L, P, O, Q)
    BY <1>1
  <2>2. /\ SameOrigin(j, m) /\ j.sources = m.sources \cup c.sources
        /\ j.score = (IF ~Newly(m, c) THEN Best(m, c)
                      ELSE IF Best(m, c) + 60 > Top THEN Top ELSE Best(m, c) + 60)
        /\ j.evidence = Said(m, c) \cup (IF Newly(m, c) THEN {"sources"} ELSE {})
        /\ j.conflicts = Objected(m, c)
    BY <2>1, JoinedFacts
  <2>3. best = Best(m, c) /\ said = Said(m, c) /\ against = Objected(m, c)
    BY DEF Best, Said, Objected
  <2>4. mark <=> Newly(m, c)
    BY Zenon DEF Newly, Said
  <2> HIDE DEF best, said, mark, against
  <2> QED
    BY <2>2, <2>3, <2>4
<1>3. party = before \cup {n} /\ \A i \in before : i \in 1..(n - 1)
  BY <1>1 DEF Party
<1>4. /\ SameOrigin(m, list[f])
      /\ m.sources = UNION {list[i].sources : i \in before}
      /\ IsFiniteSet(m.sources) /\ m.sources # {}
      /\ \A i \in before : list[i].score <= m.score
      /\ ("sources" \in m.evidence) <=> (Cardinality(m.sources) > 1)
      /\ m.conflicts \subseteq UNION {list[i].conflicts : i \in before}
      /\ m.evidence \ {"sources"} \subseteq UNION {list[i].evidence : i \in before}
  BY DEF Stands
<1>5. PICK w \in before : Shows(m, list[w])
  BY DEF Stands
<1>6. c.sources = {c.source} /\ "sources" \notin c.evidence
  BY DEF AsAccepted
<1>7. /\ m.score \in 0..Top /\ c.score \in 0..Top /\ Top \in Nat
      /\ \A i \in 1..n : list[i].score \in 0..Top
  <2>1. \A i \in 1..n : list[i] \in CandidateSet(R, L, P, O, Q)
    OBVIOUS
  <2>2. \A i \in 1..n : list[i].score \in 0..Top
    BY <2>1, ScoreRange
  <2>3. Top \in Nat
    BY DEF Top
  <2>4. m.score \in 0..Top /\ c.score \in 0..Top
    BY <1>1, ScoreRange
  <2> QED
    BY <1>1, <2>2, <2>3, <2>4
<1>8. w \in 1..n /\ w \in party /\ n \in party /\ list[w].score \in 0..Top
  BY <1>1, <1>3, <1>5, <1>7
<1> HIDE DEF j, party, before
<1>9. j.sources = UNION {list[i].sources : i \in party}
  BY <1>2, <1>3, <1>4
<1>10. /\ IsFiniteSet(j.sources) /\ j.sources # {}
       /\ Cardinality(j.sources) \in Nat /\ Cardinality(m.sources) \in Nat
       /\ Cardinality(m.sources) >= 1 /\ Cardinality(j.sources) >= Cardinality(m.sources)
  <2>1. IsFiniteSet(j.sources) /\ j.sources # {}
    <3>0. IsFiniteSet(m.sources)
      BY <1>4
    <3>1. IsFiniteSet(m.sources \cup {c.source})
      BY <3>0, FS_AddElement, Zenon
    <3> QED
      BY <1>2, <1>4, <1>6, <3>1
  <2>2. Cardinality(j.sources) \in Nat /\ Cardinality(m.sources) \in Nat
    BY <1>4, <2>1, FS_CardinalityType
  <2>3. Cardinality(m.sources) # 0
    BY <1>4, FS_EmptySet
  <2>4. m.sources \in SUBSET j.sources
    BY <1>2
  <2>5. Cardinality(m.sources) <= Cardinality(j.sources)
    BY <2>1, <2>4, FS_Subset
  <2> QED
    BY <2>1, <2>2, <2>3, <2>5
<1>11. ("sources" \in said) <=> (Cardinality(m.sources) > 1)
  BY <1>4, <1>6
<1> HIDE DEF said, against
<1>12. ("sources" \in j.evidence) <=> (Cardinality(j.sources) > 1)
  <2>1. mark <=> Cardinality(j.sources) > 1 /\ ~ (Cardinality(m.sources) > 1)
    BY <1>2, <1>11
  <2>2. "sources" \in j.evidence <=> (Cardinality(m.sources) > 1 \/ mark)
    BY <1>2, <1>11
  <2> HIDE DEF mark
  <2> QED
    BY <1>10, <2>1, <2>2
<1>13. mark => Cardinality(m.sources) = 1 /\ m.score = list[w].score
  BY <1>5, <1>10, <1>11 DEF Shows
<1>14. Cardinality(j.sources) = 1 => ~mark /\ Cardinality(m.sources) = 1
  BY <1>2, <1>10
<1> HIDE DEF mark
<1>15. best <= j.score /\ best \in 0..Top
  <2>1. j.score = (IF ~mark THEN best ELSE IF best + 60 > Top THEN Top ELSE best + 60)
    BY <1>2
  <2>2. best \in 0..Top /\ Top \in Nat
    BY <1>7
  <2> HIDE DEF best, j
  <2> QED
    BY <2>1, <2>2
<1>16. \A i \in party : list[i].score <= j.score
  <2> SUFFICES ASSUME NEW i \in party PROVE list[i].score <= j.score
    OBVIOUS
  <2>1. i \in 1..n /\ (i = n \/ list[i].score <= m.score)
    BY <1>1, <1>3, <1>4
  <2>2. list[i].score <= best
    <3>1. list[i].score \in Int /\ m.score \in Int /\ c.score \in Int
      BY <1>7, <2>1
    <3>2. i = n => list[i].score = c.score
      OBVIOUS
    <3> HIDE DEF c
    <3> QED
      BY <2>1, <3>1, <3>2
  <2>3. list[i].score \in 0..Top /\ j.score \in Int
    BY <1>2, <1>7, <2>1
  <2> HIDE DEF best
  <2> QED
    BY <1>15, <2>2, <2>3
<1>17. \E i \in party : Shows(j, list[i])
  <2>0. ASSUME NEW v \in 0..Top
        PROVE  Min({Top, v + 60}) = IF v + 60 > Top THEN Top ELSE v + 60
    <3>1. Top \in Int /\ v + 60 \in Int
      BY <1>7
    <3>2. Min({Top, v + 60}) = IF Top <= v + 60 THEN Top ELSE v + 60
      BY <3>1, MinIs, Zenon
    <3> QED
      BY <3>1, <3>2
  <2>1. CASE c.score > m.score
    <3>1. best = list[n].score /\ said = m.evidence \cup list[n].evidence
          /\ against = m.conflicts \cup list[n].conflicts
      BY <2>1 DEF said, against
    <3>2. list[n].evidence \subseteq j.evidence /\ list[n].conflicts \subseteq j.conflicts
      BY <1>2, <3>1
    <3>3. CASE ~mark
      <4>1. j.score = list[n].score
        BY <1>2, <3>1, <3>3
      <4> QED
        BY <1>8, <3>2, <4>1 DEF Shows
    <3>4. CASE mark
      <4>1. j.score = Min({Top, list[n].score + 60})
        BY <1>2, <1>7, <2>0, <3>1, <3>4
      <4>2. Cardinality(j.sources) > 1
        BY <1>10, <1>14, <3>4
      <4> QED
        BY <1>8, <3>2, <4>1, <4>2 DEF Shows
    <3> QED
      BY <3>3, <3>4
  <2>2. CASE ~ (c.score > m.score)
    <3>1. best = m.score /\ said = m.evidence /\ against = m.conflicts
      BY <2>2 DEF said, against
    <3>2. list[w].evidence \subseteq j.evidence /\ list[w].conflicts \subseteq j.conflicts
      BY <1>2, <1>5, <3>1 DEF Shows
    <3>3. CASE ~mark
      <4>1. j.score = m.score
        BY <1>2, <3>1, <3>3
      <4>2. Cardinality(m.sources) > 1 => Cardinality(j.sources) > 1
        BY <1>10
      <4> QED
        BY <1>5, <1>8, <3>2, <4>1, <4>2 DEF Shows
    <3>4. CASE mark
      <4>1. j.score = Min({Top, list[w].score + 60})
        BY <1>2, <1>8, <1>13, <2>0, <3>1, <3>4
      <4>2. Cardinality(j.sources) > 1
        BY <1>10, <1>14, <3>4
      <4> QED
        BY <1>8, <3>2, <4>1, <4>2 DEF Shows
    <3> QED
      BY <3>3, <3>4
  <2> QED
    BY <2>1, <2>2
<1>19. /\ j.conflicts \subseteq UNION {list[i].conflicts : i \in party}
       /\ j.evidence \ {"sources"} \subseteq UNION {list[i].evidence : i \in party}
  <2>1. j.conflicts \subseteq m.conflicts \cup list[n].conflicts
    BY <1>2 DEF against
  <2>2. j.evidence \ {"sources"} \subseteq (m.evidence \ {"sources"}) \cup list[n].evidence
    BY <1>2 DEF said
  <2> QED
    BY <1>3, <1>4, <2>1, <2>2
<1>18. SameOrigin(j, list[f])
  BY <1>2, <1>4 DEF SameOrigin
<1> QED
  BY <1>9, <1>10, <1>12, <1>16, <1>17, <1>18, <1>19 DEF Stands, j, party

\* A candidate of another key, or of none, changes nothing for a place.
LEMMA StandsStill ==
  ASSUME NEW list, NEW n \in Nat \ {0}, NEW f \in Founders(list, n - 1), NEW m,
         Stands(m, list, n - 1, f), KeyOf(list, f) = None \/ KeyOf(list, f) # KeyOf(list, n)
  PROVE  Stands(m, list, n, f)
<1>1. Party(list, n, f) = Party(list, n - 1, f)
  <2>1. f \in 1..(n - 1) /\ \A i \in 1..n : i = n \/ i \in 1..(n - 1)
    BY DEF Founders
  <2>2. \A i \in 1..(n - 1) : i \in 1..n
    OBVIOUS
  <2>3. f # n
    BY <2>1
  <2> QED
    BY <2>1, <2>2, <2>3 DEF Party
<1> QED
  BY <1>1 DEF Stands

LEMMA FoundersNext ==
  ASSUME NEW list, NEW n \in Nat \ {0}
  PROVE  /\ Founders(list, n) = Founders(list, n - 1)
                                  \cup (IF n \in Founders(list, n) THEN {n} ELSE {})
         /\ n \notin Founders(list, n - 1) /\ IsFiniteSet(Founders(list, n - 1))
<1>1. \A i \in 1..n : i = n \/ i \in 1..(n - 1)
  OBVIOUS
<1>2. n \notin 1..(n - 1) /\ n \in 1..n /\ \A i \in 1..(n - 1) : i \in 1..n
  OBVIOUS
<1>3. IsFiniteSet(1..(n - 1))
  BY FS_Interval
<1>4. Founders(list, n - 1) \in SUBSET (1..(n - 1))
  BY DEF Founders
<1>5. IsFiniteSet(Founders(list, n - 1))
  BY <1>3, <1>4, FS_Subset
<1>6. Founders(list, n) = Founders(list, n - 1)
                            \cup (IF n \in Founders(list, n) THEN {n} ELSE {})
  BY <1>1, <1>2 DEF Founders
<1> QED
  BY <1>2, <1>4, <1>5, <1>6

\* Every key has a founder, its first candidate.
LEMMA FounderOf ==
  ASSUME NEW list, NEW n \in Nat, NEW i \in 1..n, KeyOf(list, i) # None
  PROVE  \E f \in Founders(list, n) : f <= i /\ KeyOf(list, f) = KeyOf(list, i)
<1> DEFINE T == {j \in 1..i : KeyOf(list, j) = KeyOf(list, i)}
<1>1. T \in SUBSET Nat /\ i \in T
  OBVIOUS
<1>2. PICK f \in T : \A j \in T : f <= j
  BY <1>1, LeastNumber
<1>3. f \in 1..n /\ f <= i /\ KeyOf(list, f) = KeyOf(list, i)
  OBVIOUS
<1>4. ASSUME NEW j \in 1..(f - 1) PROVE KeyOf(list, j) # KeyOf(list, f)
  BY <1>2, <1>3
<1> QED
  BY <1>3, <1>4 DEF Founders

LEMMA MergeType ==
  ASSUME NEW R, NEW L, NEW P, NEW O, NEW Q,
         NEW merged \in Seq(CandidateSet(R, L, P, O, Q)), NEW c \in CandidateSet(R, L, P, O, Q)
  PROVE  Merge(merged, c) \in Seq(CandidateSet(R, L, P, O, Q))
<1> DEFINE U    == CandidateSet(R, L, P, O, Q)
           key  == MergeKey(c.recording)
           same == {k \in DOMAIN merged : key # None /\ MergeKey(merged[k].recording) = key}
           next == [k \in DOMAIN merged |->
                      IF k \in same THEN Joined(merged[k], c) ELSE merged[k]]
<1>1. Merge(merged, c) = IF same = {} THEN Append(merged, c) ELSE next
  BY DEF Merge
<1>2. \A m \in U : Joined(m, c) \in U
  BY JoinedFacts
<1>3. Len(merged) \in Nat /\ DOMAIN merged = 1..Len(merged)
      /\ \A k \in 1..Len(merged) : merged[k] \in U
  OBVIOUS
<1> HIDE DEF U, same
<1>4. next \in [1..Len(merged) -> U]
  BY <1>2, <1>3
<1> HIDE DEF next
<1>5. next \in Seq(U)
  BY <1>3, <1>4
<1>6. Append(merged, c) \in Seq(U)
  BY DEF U
<1> QED
  BY <1>1, <1>5, <1>6 DEF U

LEMMA MergeStep ==
  ASSUME NEW R, NEW L, NEW P, NEW O, NEW Q, NEW list \in Seq(CandidateSet(R, L, P, O, Q)),
         NEW n \in 1..Len(list), AsAccepted(list[n]),
         NEW merged \in Seq(CandidateSet(R, L, P, O, Q)), MergedWell(merged, list, n - 1)
  PROVE  MergedWell(Merge(merged, list[n]), list, n)
<1> DEFINE U    == CandidateSet(R, L, P, O, Q)
           c    == list[n]
           key  == KeyOf(list, n)
           same == {k \in 1..Len(merged) : key # None /\ MergeKey(merged[k].recording) = key}
           F    == Founders(list, n - 1)
           out  == Merge(merged, c)
<1>1. c \in U /\ n \in Nat \ {0} /\ Len(merged) \in Nat /\ DOMAIN merged = 1..Len(merged)
  OBVIOUS
<1>2. out = IF same = {} THEN Append(merged, c)
            ELSE [k \in 1..Len(merged) |->
                    IF k \in same THEN Joined(merged[k], c) ELSE merged[k]]
  BY <1>1 DEF Merge, KeyOf
<1>3. /\ Len(merged) = Cardinality(F)
      /\ \A k \in 1..Len(merged) : \E f \in F : Stands(merged[k], list, n - 1, f)
      /\ \A f \in F : \E k \in 1..Len(merged) : Stands(merged[k], list, n - 1, f)
  BY DEF MergedWell
<1>4. ASSUME NEW k \in 1..Len(merged), NEW f \in F, Stands(merged[k], list, n - 1, f)
      PROVE  MergeKey(merged[k].recording) = KeyOf(list, f)
  BY <1>4 DEF Stands, SameOrigin, KeyOf
<1>5. /\ Founders(list, n) = F \cup (IF n \in Founders(list, n) THEN {n} ELSE {})
      /\ n \notin F /\ IsFiniteSet(F)
  BY <1>1, FoundersNext
<1>6. F \subseteq 1..(n - 1) /\ n \in 1..n
  BY <1>1 DEF Founders
<1> HIDE DEF F, out, key
<1>7. CASE same = {}
  <2>1. n \in Founders(list, n)
    <3> SUFFICES ASSUME key # None, NEW i \in 1..(n - 1), KeyOf(list, i) = key
                 PROVE  FALSE
      BY <1>6 DEF Founders, key
    <3>1. PICK f \in F : KeyOf(list, f) = key
      BY <1>1, FounderOf DEF F
    <3>2. PICK k \in 1..Len(merged) : Stands(merged[k], list, n - 1, f)
      BY <1>3
    <3> QED
      BY <1>4, <1>7, <3>1, <3>2
  <2>2. ASSUME NEW f \in F PROVE KeyOf(list, f) = None \/ KeyOf(list, f) # KeyOf(list, n)
    BY <1>6, <2>1 DEF Founders
  <2>3. ASSUME NEW f \in F, NEW m, Stands(m, list, n - 1, f) PROVE Stands(m, list, n, f)
    BY <1>1, <2>2, <2>3, StandsStill DEF F
  <2>4. Stands(c, list, n, n)
    BY <2>1, StandsAlone
  <2>5. Founders(list, n) = F \cup {n} /\ Cardinality(F \cup {n}) = Cardinality(F) + 1
    BY <1>5, <2>1, FS_AddElement
  <2>6. /\ Len(out) = Len(merged) + 1 /\ out[Len(merged) + 1] = c
        /\ \A k \in 1..Len(merged) : out[k] = merged[k]
    BY <1>1, <1>2, <1>7
  <2>7. \A k \in 1..(Len(merged) + 1) : k = Len(merged) + 1 \/ k \in 1..Len(merged)
    BY <1>1
  <2>8. /\ Len(merged) + 1 \in 1..(Len(merged) + 1)
        /\ \A k \in 1..Len(merged) : k \in 1..(Len(merged) + 1)
    BY <1>1
  <2> HIDE DEF c, same
  <2>9. \A k \in 1..Len(out) : \E f \in Founders(list, n) : Stands(out[k], list, n, f)
    BY <1>3, <2>3, <2>4, <2>5, <2>6, <2>7
  <2>10. \A f \in Founders(list, n) : \E k \in 1..Len(out) : Stands(out[k], list, n, f)
    BY <1>3, <2>3, <2>4, <2>5, <2>6, <2>8
  <2> QED
    BY <1>3, <2>5, <2>6, <2>9, <2>10 DEF MergedWell, out, c
<1>8. CASE same # {}
  <2>1. PICK o \in same : TRUE
    BY <1>8
  <2>2. PICK g \in F : Stands(merged[o], list, n - 1, g)
    BY <1>3
  <2>3. key # None /\ KeyOf(list, g) = key
    BY <1>4, <2>2
  <2>4. n \notin Founders(list, n)
    BY <1>6, <2>3 DEF Founders, key
  <2>5. Founders(list, n) = F
    BY <1>5, <2>4
  <2>6. /\ Len(out) = Len(merged)
        /\ \A k \in 1..Len(merged) :
              out[k] = IF k \in same THEN Joined(merged[k], c) ELSE merged[k]
    <3>1. out \in Seq(U)
      BY <1>1, MergeType DEF out
    <3>2. out = [k \in 1..Len(merged) |->
                   IF k \in same THEN Joined(merged[k], c) ELSE merged[k]]
      BY <1>2, <1>8
    <3> HIDE DEF U, c, same
    <3>3. DOMAIN out = 1..Len(merged)
      BY <3>2
    <3>4. Len(out) = Len(merged)
      BY <1>1, <3>1, <3>3
    <3> QED
      BY <3>2, <3>4
  <2>7. ASSUME NEW k \in 1..Len(merged), NEW f \in F, Stands(merged[k], list, n - 1, f)
        PROVE  Stands(out[k], list, n, f)
    <3>1. MergeKey(merged[k].recording) = KeyOf(list, f)
      BY <1>4, <2>7
    <3>2. CASE k \in same
      <4>1. KeyOf(list, f) = KeyOf(list, n) /\ KeyOf(list, f) # None /\ merged[k] \in U
        BY <3>1, <3>2 DEF key
      <4>2. out[k] = Joined(merged[k], c)
        BY <2>6, <3>2
      <4>3. Stands(Joined(merged[k], list[n]), list, n, f)
        BY <2>7, <4>1, StandsJoined DEF F
      <4> QED
        BY <4>2, <4>3
    <3>3. CASE k \notin same
      <4>1. KeyOf(list, f) # KeyOf(list, n)
        BY <2>3, <3>1, <3>3 DEF key
      <4>2. Stands(merged[k], list, n, f)
        BY <1>1, <2>7, <4>1, StandsStill DEF F
      <4> QED
        BY <2>6, <3>3, <4>2
    <3> QED
      BY <3>2, <3>3
  <2> HIDE DEF c, same
  <2> QED
    BY <1>3, <2>5, <2>6, <2>7 DEF MergedWell, out, c
<1> QED
  BY <1>7, <1>8

LEMMA MergeIsWell ==
  ASSUME NEW R, NEW L, NEW P, NEW O, NEW Q, NEW list \in Seq(CandidateSet(R, L, P, O, Q)),
         \A i \in 1..Len(list) : AsAccepted(list[i])
  PROVE  /\ MergeCrossSourceCandidates(list) \in Seq(CandidateSet(R, L, P, O, Q))
         /\ MergedWell(MergeCrossSourceCandidates(list), list, Len(list))
<1> DEFINE U == CandidateSet(R, L, P, O, Q)
           N == Len(list)
           Body(g) == [n \in 0..N |-> IF n = 0 THEN <<>> ELSE Merge(g[n - 1], list[n])]
           merged  == CHOOSE g : g = Body(g)
           step    == [w \in Seq(U) \X (1..N) |-> Merge(w[1], list[w[2]])]
<1>1. N \in Nat /\ <<>> \in Seq(U) /\ \A n \in 1..N : list[n] \in U /\ AsAccepted(list[n])
  OBVIOUS
<1>2. MergeCrossSourceCandidates(list) = merged[N]
  BY DEF MergeCrossSourceCandidates
<1>3. ASSUME NEW v \in Seq(U), NEW n \in 1..N PROVE Merge(v, list[n]) \in Seq(U)
  BY <1>1, MergeType
<1>4. ASSUME NEW v \in Seq(U), NEW n \in 1..N, MergedWell(v, list, n - 1)
      PROVE  MergedWell(Merge(v, list[n]), list, n)
  BY <1>1, <1>4, MergeStep
<1> HIDE DEF N, U
<1>5. \E f \in [0..N -> Seq(U)] : Solves(f, N, <<>>, step)
  <2> DEFINE V == [n \in 0..N |-> Seq(U)]
  <2>1. V \in [0..N -> SUBSET Seq(U)]
    OBVIOUS
  <2>2. Recurs(N, V, <<>>, step)
    <3>1. \A v \in Seq(U), n \in 1..N : step[<<v, n>>] = Merge(v, list[n])
      OBVIOUS
    <3>2. \A n \in 0..N : V[n] = Seq(U)
      OBVIOUS
    <3>3. 0 \in 0..N /\ \A n \in 1..N : n \in 0..N /\ n - 1 \in 0..N
      BY <1>1
    <3> HIDE DEF V, step
    <3>4. <<>> \in V[0]
      BY <1>1, <3>2, <3>3
    <3>5. ASSUME NEW n \in 1..N, NEW v \in V[n - 1] PROVE step[<<v, n>>] \in V[n]
      <4>1. v \in Seq(U) /\ V[n] = Seq(U)
        BY <3>2, <3>3
      <4> QED
        BY <1>3, <3>1, <4>1
    <3> QED
      BY <3>4, <3>5 DEF Recurs
  <2> HIDE DEF V, step
  <2> QED
    BY <1>1, <2>1, <2>2, Recursion
<1>6. \E f : f = Body(f)
  <2>1. PICK f \in [0..N -> Seq(U)] : Solves(f, N, <<>>, step)
    BY <1>5
  <2>2. ASSUME NEW n \in 1..N PROVE f[n] = Merge(f[n - 1], list[n])
    <3>1. f[n - 1] \in Seq(U)
      BY <1>1
    <3>2. f[n] = step[<<f[n - 1], n>>]
      BY <2>1 DEF Solves
    <3> QED
      BY <3>1, <3>2
  <2>3. f = [n \in 0..N |-> f[n]]
    BY <2>1
  <2>4. f[0] = <<>>
    BY <2>1 DEF Solves
  <2> HIDE DEF step
  <2>5. \A n \in 0..N : n # 0 => n \in 1..N
    BY <1>1
  <2>6. \A n \in 0..N : f[n] = (IF n = 0 THEN <<>> ELSE Merge(f[n - 1], list[n]))
    BY <2>2, <2>4, <2>5
  <2> QED
    BY <1>1, <2>3, <2>4, <2>6
<1>7. merged = Body(merged)
  BY <1>6
<1> HIDE DEF merged
<1>8. merged[0] = <<>> /\ \A n \in 1..N : merged[n] = Merge(merged[n - 1], list[n])
  BY <1>1, <1>7
<1>9. merged[N] \in Seq(U) /\ MergedWell(merged[N], list, N)
  <2> DEFINE T == {n \in 0..N : merged[n] \in Seq(U) /\ MergedWell(merged[n], list, n)}
  <2>1. 0 \in T
    <3>1. Founders(list, 0) = {}
      BY DEF Founders
    <3>2. Len(<<>>) = 0 /\ 1..0 = {} /\ Cardinality({}) = 0
      BY FS_EmptySet
    <3>3. MergedWell(<<>>, list, 0)
      BY <3>1, <3>2 DEF MergedWell
    <3>4. 0 \in 0..N
      BY <1>1
    <3> QED
      BY <1>1, <1>8, <3>3, <3>4
  <2>2. ASSUME NEW n \in 1..N, n - 1 \in T PROVE n \in T
    <3>1. merged[n] = Merge(merged[n - 1], list[n])
      BY <1>8
    <3>2. merged[n - 1] \in Seq(U) /\ MergedWell(merged[n - 1], list, n - 1)
      BY <2>2
    <3> QED
      BY <1>3, <1>4, <3>1, <3>2
  <2>3. 0..N \subseteq T
    <3> HIDE DEF T
    <3> QED
      BY <1>1, <2>1, <2>2, StepByStep
  <2> QED
    BY <1>1, <2>3
<1> QED
  BY <1>2, <1>9 DEF U, N

\* A founder for every key, and one for every candidate without a key.
LEMMA FoundersCount ==
  ASSUME NEW S, NEW list \in Seq(S)
  PROVE  Cardinality(Founders(list, Len(list))) =
           Cardinality({MergeKey(list[i].recording) : i \in Keyed(list)})
             + Cardinality(DOMAIN list \ Keyed(list))
<1> DEFINE N     == Len(list)
           F     == Founders(list, N)
           alone == DOMAIN list \ Keyed(list)
           first == F \cap Keyed(list)
           keys  == {MergeKey(list[i].recording) : i \in Keyed(list)}
           key   == [f \in first |-> KeyOf(list, f)]
<1>1. /\ N \in Nat /\ DOMAIN list = 1..N /\ Keyed(list) \subseteq 1..N
      /\ \A i \in 1..N : i \in Keyed(list) <=> KeyOf(list, i) # None
      /\ keys = {KeyOf(list, i) : i \in Keyed(list)}
  BY DEF Keyed, KeyOf
<1> HIDE DEF N, keys
<1>2. F = first \cup alone /\ first \cap alone = {} /\ F \in SUBSET (1..N)
  BY <1>1 DEF Founders
<1>3. IsFiniteSet(first) /\ IsFiniteSet(alone)
  <2>1. IsFiniteSet(1..N) /\ first \in SUBSET (1..N) /\ alone \in SUBSET (1..N)
    BY <1>1, FS_Interval
  <2> QED
    BY <2>1, FS_Subset
<1>4. key \in Bijection(first, keys)
  <2>1. key \in [first -> keys]
    BY <1>1
  <2>2. ASSUME NEW f \in first, NEW g \in first, key[f] = key[g] PROVE f = g
    <3>1. f \in 1..N /\ g \in 1..N /\ KeyOf(list, f) = KeyOf(list, g) /\ KeyOf(list, f) # None
      BY <1>1, <1>2, <2>2
    <3>2. ~ (f < g)
      <4>1. f < g => f \in 1..(g - 1)
        BY <3>1
      <4> QED
        BY <3>1, <4>1 DEF Founders
    <3>3. ~ (g < f)
      <4>1. g < f => g \in 1..(f - 1)
        BY <3>1
      <4> QED
        BY <3>1, <4>1 DEF Founders
    <3> QED
      BY <1>1, <3>1, <3>2, <3>3
  <2>3. ASSUME NEW k \in keys PROVE \E f \in first : key[f] = k
    <3>1. PICK i \in Keyed(list) : k = KeyOf(list, i)
      BY <1>1
    <3>2. i \in 1..N /\ KeyOf(list, i) # None
      BY <1>1
    <3>3. PICK f \in F : KeyOf(list, f) = KeyOf(list, i)
      BY <1>1, <3>2, FounderOf
    <3>4. f \in first
      BY <1>1, <1>2, <3>2, <3>3
    <3> QED
      BY <3>1, <3>3, <3>4
  <2> HIDE DEF key, first
  <2> QED
    BY <2>1, <2>2, <2>3 DEF Bijection, Injection, Surjection, IsInjective
<1>5. Cardinality(keys) = Cardinality(first)
  <2> HIDE DEF key, first
  <2>1. ExistsBijection(first, keys)
    BY <1>4 DEF ExistsBijection
  <2> QED
    BY <1>3, <2>1, FS_Bijection
<1>6. Cardinality(F) = Cardinality(first) + Cardinality(alone)
  <2> HIDE DEF F, first, alone
  <2>1. Cardinality(first \cup alone) =
           Cardinality(first) + Cardinality(alone) - Cardinality(first \cap alone)
    BY <1>3, FS_Union
  <2>2. Cardinality(first \cap alone) = 0
    BY <1>2, FS_EmptySet
  <2>3. Cardinality(first) \in Nat /\ Cardinality(alone) \in Nat
    BY <1>3, FS_CardinalityType
  <2> QED
    BY <1>2, <2>1, <2>2, <2>3
<1> QED
  BY <1>5, <1>6 DEF N, keys

\* What a place of the merged list holds is what becomes of its party.
LEMMA PlaceFacts ==
  ASSUME NEW R, NEW L, NEW P, NEW O, NEW Q, NEW list \in Seq(CandidateSet(R, L, P, O, Q)),
         NEW m \in CandidateSet(R, L, P, O, Q), NEW f \in Founders(list, Len(list)),
         Stands(m, list, Len(list), f), MergeKey(m.recording) # None
  PROVE  LET alike == {i \in DOMAIN list :
                         MergeKey(list[i].recording) = MergeKey(m.recording)}
         IN  StandsFor(m, list, alike, Max({list[i].score : i \in alike}))
<1> DEFINE N == Len(list)
           alike  == {i \in DOMAIN list : MergeKey(list[i].recording) = MergeKey(m.recording)}
           scores == {list[i].score : i \in alike}
           best   == Max(scores)
<1>1. N \in Nat /\ DOMAIN list = 1..N /\ \A i \in 1..N : list[i] \in CandidateSet(R, L, P, O, Q)
  OBVIOUS
<1>2. m.recording = list[f].recording /\ m.observation = list[f].observation
  BY DEF Stands, SameOrigin
<1>3. KeyOf(list, f) = MergeKey(m.recording) /\ KeyOf(list, f) # None
  BY <1>2 DEF KeyOf
<1>4. f \in 1..N /\ f \in alike
  BY <1>1, <1>2 DEF Founders
<1>5. Party(list, N, f) = alike
  BY <1>1, <1>3, <1>4 DEF Party, KeyOf
<1>6. Min(alike) = f
  <2>1. alike \in SUBSET Nat
    BY <1>1
  <2>2. Min(alike) \in alike /\ \A i \in alike : Min(alike) <= i
    BY <1>4, <2>1, MinFact
  <2>3. \A i \in alike : i \in 1..N /\ KeyOf(list, i) = KeyOf(list, f)
    BY <1>1, <1>3 DEF KeyOf
  <2>4. ASSUME NEW i \in alike PROVE ~ (i < f)
    <3>1. i \in 1..N /\ KeyOf(list, i) = KeyOf(list, f)
      BY <2>3
    <3>2. i < f => i \in 1..(f - 1)
      BY <1>4, <3>1
    <3> QED
      BY <1>3, <3>1, <3>2 DEF Founders
  <2> DEFINE least == Min(alike)
  <2> HIDE DEF alike, least
  <2>5. least \in Nat /\ f \in Nat /\ least <= f /\ ~ (least < f)
    BY <1>1, <1>4, <2>1, <2>2, <2>4 DEF least
  <2> QED
    BY <2>5 DEF least
<1>7. /\ m.sources = UNION {list[i].sources : i \in alike}
      /\ IsFiniteSet(m.sources)
      /\ \A i \in alike : list[i].score <= m.score
      /\ \E i \in alike : Shows(m, list[i])
      /\ m.conflicts \subseteq UNION {list[i].conflicts : i \in alike}
      /\ m.evidence \ {"sources"} \subseteq UNION {list[i].evidence : i \in alike}
      /\ ("sources" \in m.evidence) <=> (Cardinality(m.sources) > 1)
  BY <1>5 DEF Stands
<1>8. Top \in Nat /\ m.score \in 0..Top /\ \A i \in alike : list[i].score \in 0..Top
  BY <1>1, ScoreRange DEF Top
<1>9. best \in scores /\ \A s \in scores : s <= best
  <2>1. scores \in SUBSET (0..Top) /\ scores # {}
    BY <1>4, <1>8
  <2> HIDE DEF scores
  <2> QED
    BY <1>8, <2>1, MaxFact
<1>10. PICK b \in alike : best = list[b].score
  BY <1>9
<1> HIDE DEF best
<1>11. PICK w \in alike : m.score <= list[w].score + 60
  <2>1. PICK w \in alike : Shows(m, list[w])
    BY <1>7
  <2>2. Top \in Int /\ list[w].score + 60 \in Int /\ list[w].score \in Int
    BY <1>8, <2>1
  <2>3. Min({Top, list[w].score + 60})
          = IF Top <= list[w].score + 60 THEN Top ELSE list[w].score + 60
    BY <2>2, MinIs, Zenon
  <2>4. m.score <= list[w].score + 60
    BY <2>1, <2>2, <2>3 DEF Shows
  <2> QED
    BY <2>1, <2>4
<1>12. list[w].score <= best /\ best <= m.score /\ best \in 0..Top
       /\ list[w].score <= m.score
  BY <1>7, <1>8, <1>9, <1>10
<1>13. m.score \in best..Min({Top, best + 60})
  <2> DEFINE ceiling == Min({Top, best + 60})
  <2>1. Top \in Int /\ best + 60 \in Int
    BY <1>8, <1>12
  <2>2. ceiling = IF Top <= best + 60 THEN Top ELSE best + 60
    BY <2>1, MinIs, Zenon
  <2>3. list[w].score \in 0..Top /\ m.score \in 0..Top /\ Top \in Nat
    BY <1>8
  <2>4. best <= m.score /\ best \in Int /\ m.score <= best + 60
    BY <1>11, <1>12, <2>1, <2>3
  <2> HIDE DEF ceiling, alike
  <2>5. m.score \in best..ceiling
    BY <2>2, <2>3, <2>4
  <2> QED
    BY <2>5 DEF ceiling
<1>15. StandsFor(m, list, alike, best)
  <2> HIDE DEF alike
  <2> QED
    BY <1>2, <1>6, <1>7, <1>13 DEF StandsFor
<1> QED
  BY <1>15 DEF best

\* Merging in the order of arrival gives what the results call for.
LEMMA MergeIsRight ==
  ASSUME NEW R, NEW L, NEW P, NEW O, NEW Q, NEW list \in Seq(CandidateSet(R, L, P, O, Q)),
         \A i \in 1..Len(list) : AsAccepted(list[i])
  PROVE  MergedFrom(list, MergeCrossSourceCandidates(list))
<1> DEFINE U == CandidateSet(R, L, P, O, Q)
           N == Len(list)
           merged == MergeCrossSourceCandidates(list)
<1>1. merged \in Seq(U) /\ MergedWell(merged, list, N)
  BY MergeIsWell
<1>2. N \in Nat /\ DOMAIN list = 1..N
  OBVIOUS
<1> HIDE DEF merged
<1>3. /\ Len(merged) = Cardinality(Founders(list, N)) /\ DOMAIN merged = 1..Len(merged)
      /\ \A k \in 1..Len(merged) : merged[k] \in U
      /\ \A k \in 1..Len(merged) : \E f \in Founders(list, N) : Stands(merged[k], list, N, f)
      /\ \A f \in Founders(list, N) : \E k \in 1..Len(merged) : Stands(merged[k], list, N, f)
  BY <1>1 DEF MergedWell
<1>4. Len(merged) = Cardinality({MergeKey(list[i].recording) : i \in Keyed(list)})
                      + Cardinality(DOMAIN list \ Keyed(list))
  BY <1>3, FoundersCount
<1>5. ASSUME NEW i \in DOMAIN list \ Keyed(list) PROVE list[i] \in ToSet(merged)
  <2>1. KeyOf(list, i) = None /\ i \in 1..N
    BY <1>2 DEF Keyed, KeyOf
  <2>2. i \in Founders(list, N)
    BY <2>1 DEF Founders
  <2>3. PICK k \in 1..Len(merged) : Stands(merged[k], list, N, i)
    BY <1>3, <2>2
  <2>4. merged[k] = list[i]
    BY <2>1, <2>3 DEF Stands
  <2> QED
    BY <1>3, <2>4 DEF ToSet
<1>6. ASSUME NEW n \in Keyed(merged)
      PROVE  LET alike == {i \in DOMAIN list :
                             MergeKey(list[i].recording) = MergeKey(merged[n].recording)}
             IN  StandsFor(merged[n], list, alike, Max({list[i].score : i \in alike}))
  <2>1. n \in 1..Len(merged) /\ MergeKey(merged[n].recording) # None /\ merged[n] \in U
    BY <1>3 DEF Keyed
  <2>2. PICK f \in Founders(list, N) : Stands(merged[n], list, N, f)
    BY <1>3, <2>1
  <2> QED
    BY <2>1, <2>2, PlaceFacts
<1>7. MergedFrom(list, merged)
  BY <1>4, <1>5, <1>6 DEF MergedFrom
<1> QED
  BY <1>7 DEF merged

-------------------------------------------------------------------------------
(* The answer: merged or not, then ranked.                                 *)

\* s speaks for the accepted candidate c.
SpeaksFor(s, c) ==
    /\ c.sources \subseteq s.sources
    /\ s.score >= c.score
    /\ s.recording.id = c.recording.id \/ MergeKey(s.recording) = MergeKey(c.recording)

\* Every candidate of the list is spoken for by one of out, and every one of out
\* is, but for its score, sources and marks, one of the list.
Tells(out, list) ==
    /\ \A c \in ToSet(list) : \E s \in ToSet(out) : SpeaksFor(s, c)
    /\ \A s \in ToSet(out) : \E c \in ToSet(list) : SameOrigin(s, c)

Sorted(out) ==
    \A i, j \in DOMAIN out : i < j =>
        /\ out[i].score >= out[j].score
        /\ out[i].score = out[j].score => out[i].recording.id <= out[j].recording.id

LEMMA MergeTells ==
  ASSUME NEW R, NEW L, NEW P, NEW O, NEW Q, NEW list \in Seq(CandidateSet(R, L, P, O, Q)),
         \A i \in 1..Len(list) : AsAccepted(list[i])
  PROVE  Tells(MergeCrossSourceCandidates(list), list)
<1> DEFINE N == Len(list)
           merged == MergeCrossSourceCandidates(list)
<1>1. merged \in Seq(CandidateSet(R, L, P, O, Q)) /\ MergedWell(merged, list, N)
  BY MergeIsWell
<1>2. N \in Nat /\ DOMAIN list = 1..N
  OBVIOUS
<1> HIDE DEF merged, N
<1>3. /\ DOMAIN merged = 1..Len(merged)
      /\ \A k \in 1..Len(merged) : \E f \in Founders(list, N) : Stands(merged[k], list, N, f)
      /\ \A f \in Founders(list, N) : \E k \in 1..Len(merged) : Stands(merged[k], list, N, f)
  BY <1>1 DEF MergedWell
<1>4. ASSUME NEW i \in 1..N PROVE \E s \in ToSet(merged) : SpeaksFor(s, list[i])
  <2>1. PICK f \in Founders(list, N) : i \in Party(list, N, f)
    <3>1. CASE KeyOf(list, i) = None
      BY <3>1 DEF Founders, Party
    <3>2. CASE KeyOf(list, i) # None
      <4>1. PICK f \in Founders(list, N) : KeyOf(list, f) = KeyOf(list, i)
        BY <1>2, <3>2, FounderOf
      <4> QED
        BY <3>2, <4>1 DEF Party
    <3> QED
      BY <3>1, <3>2
  <2>2. PICK k \in 1..Len(merged) : Stands(merged[k], list, N, f)
    BY <1>3
  <2>3. merged[k].recording = list[f].recording
    BY <2>2 DEF Stands, SameOrigin
  <2>4. MergeKey(merged[k].recording) = MergeKey(list[i].recording)
           \/ merged[k].recording = list[i].recording
    BY <2>1, <2>3 DEF Party, KeyOf
  <2>5. list[i].sources \subseteq merged[k].sources /\ list[i].score <= merged[k].score
    BY <2>1, <2>2 DEF Stands
  <2>6. merged[k].score >= list[i].score
    BY <2>5
  <2> QED
    BY <1>3, <2>4, <2>5, <2>6 DEF SpeaksFor, ToSet
<1>5. ASSUME NEW k \in 1..Len(merged) PROVE \E c \in ToSet(list) : SameOrigin(merged[k], c)
  <2>1. PICK f \in Founders(list, N) : Stands(merged[k], list, N, f)
    BY <1>3
  <2>2. f \in 1..N /\ SameOrigin(merged[k], list[f])
    BY <2>1 DEF Founders, Stands
  <2> QED
    BY <1>2, <2>2 DEF ToSet
<1> QED
  BY <1>2, <1>3, <1>4, <1>5 DEF Tells, ToSet, merged

LEMMA RankedTells ==
  ASSUME NEW R, NEW L, NEW P, NEW O, NEW Q, NEW list \in Seq(CandidateSet(R, L, P, O, Q)),
         \A r \in R : r.id \in Int
  PROVE  /\ Ranked(list) \in Seq(CandidateSet(R, L, P, O, Q))
         /\ Len(Ranked(list)) = Len(list) /\ ToSet(Ranked(list)) = ToSet(list)
         /\ Sorted(Ranked(list))
<1> DEFINE N   == Len(list)
           U   == CandidateSet(R, L, P, O, Q)
           out == Ranked(list)
<1>1. N \in Nat /\ DOMAIN list = 1..N /\ \A i \in 1..N : list[i] \in U
  OBVIOUS
<1>2. \A i \in 1..N : list[i].score \in Int /\ list[i].recording.id \in Int
  <2> SUFFICES ASSUME NEW i \in 1..N PROVE list[i].score \in Int /\ list[i].recording.id \in Int
    OBVIOUS
  <2>1. list[i] \in U
    BY <1>1
  <2>2. list[i].recording \in R
    BY <2>1 DEF CandidateSet
  <2> QED
    BY <2>1, <2>2, ScoreRange
<1>3. /\ out \in Seq(U) /\ Len(out) = N
      /\ \E p \in [1..N -> 1..N] :
            /\ \A n \in 1..N : out[n] = list[p[n]]
            /\ \A i \in 1..N : \E n \in 1..N : p[n] = i
            /\ \A m, n \in 1..N : m < n => Precedes(list, p[m], p[n])
  <2>1. list \in Seq(U)
    OBVIOUS
  <2> HIDE DEF U
  <2> QED
    BY <1>2, <2>1, RankedIsSorted
<1> HIDE DEF out, U
<1>4. PICK p \in [1..N -> 1..N] :
            /\ \A n \in 1..N : out[n] = list[p[n]]
            /\ \A i \in 1..N : \E n \in 1..N : p[n] = i
            /\ \A m, n \in 1..N : m < n => Precedes(list, p[m], p[n])
  BY <1>3
<1>5. DOMAIN out = 1..N
  BY <1>3
<1> HIDE DEF N
<1>6. ToSet(out) = ToSet(list)
  <2>1. ASSUME NEW n \in 1..N PROVE out[n] \in ToSet(list)
    BY <1>1, <1>4 DEF ToSet
  <2>2. ASSUME NEW i \in 1..N PROVE list[i] \in ToSet(out)
    <3>1. PICK n \in 1..N : p[n] = i
      BY <1>4
    <3>2. out[n] = list[i]
      BY <1>4, <3>1
    <3> QED
      BY <1>5, <3>2 DEF ToSet
  <2> QED
    BY <1>1, <1>5, <2>1, <2>2 DEF ToSet
<1>7. Sorted(out)
  <2> SUFFICES ASSUME NEW i \in 1..N, NEW j \in 1..N, i < j
               PROVE  /\ out[i].score >= out[j].score
                      /\ out[i].score = out[j].score => out[i].recording.id <= out[j].recording.id
    BY <1>5 DEF Sorted
  <2>1. out[i] = list[p[i]] /\ out[j] = list[p[j]] /\ p[i] \in 1..N /\ p[j] \in 1..N
    BY <1>4
  <2>2. Precedes(list, p[i], p[j])
    BY <1>4
  <2>3. /\ out[i].score \in Int /\ out[j].score \in Int
        /\ out[i].recording.id \in Int /\ out[j].recording.id \in Int
    BY <1>2, <2>1
  <2>4. \/ out[i].score > out[j].score
        \/ /\ out[i].score = out[j].score
           /\ \/ out[i].recording.id < out[j].recording.id
              \/ out[i].recording.id = out[j].recording.id
    BY <2>1, <2>2 DEF Precedes
  <2> QED
    BY <2>3, <2>4
<1> QED
  BY <1>3, <1>6, <1>7 DEF U, N, out

LEMMA TellsTransfers ==
  ASSUME NEW out, NEW other, NEW list, Tells(out, list), ToSet(other) = ToSet(out)
  PROVE  Tells(other, list)
BY DEF Tells

\* What was accepted tells itself, when nothing is merged.
LEMMA TellsItself ==
  ASSUME NEW R, NEW L, NEW P, NEW O, NEW Q, NEW list \in Seq(CandidateSet(R, L, P, O, Q))
  PROVE  Tells(list, list)
<1>1. \A c \in ToSet(list) : c \in CandidateSet(R, L, P, O, Q)
  BY DEF ToSet
<1>2. ASSUME NEW c \in ToSet(list) PROVE SpeaksFor(c, c) /\ SameOrigin(c, c)
  <2>1. c.score \in Int
    BY <1>1, ScoreRange
  <2>2. c.score >= c.score
    BY <2>1
  <2> QED
    BY <2>2 DEF SpeaksFor, SameOrigin
<1> QED
  BY <1>2 DEF Tells

-------------------------------------------------------------------------------
(* The tag patch.                                                          *)

\* All the names count, when none of them normalises to nothing.
LEMMA NamesAsTheyAre ==
  ASSUME NEW o, <<>> \notin DOMAIN NormalizedNames(o.artists)
  PROVE  ObservedNames(o) = NormalizedNames(o.artists)
<1> DEFINE names == NormalizedNames(o.artists)
<1>1. names = [x \in DOMAIN names |-> names[x]]
  BY DEF NormalizedNames, ToBag
<1>2. ObservedNames(o) = Restrict(names, DOMAIN names \ {<<>>})
  BY DEF ObservedNames
<1> HIDE DEF names
<1>3. DOMAIN names \ {<<>>} = DOMAIN names
  BY DEF names
<1>4. Restrict(names, DOMAIN names) = names
  BY <1>1 DEF Restrict
<1> QED
  BY <1>2, <1>3, <1>4 DEF names

LEMMA PatchFields ==
  ASSUME NEW o, NEW recording, NEW release
  PROVE  LET patch == GenerateTagPatch(o, recording, release)
         IN  /\ DOMAIN patch \subseteq {"title", "artists", "album", "isrc"}
             /\ "title" \in DOMAIN patch <=>
                   recording.title # <<>> /\ NormalizeText(o.title) # NormalizeText(recording.title)
             /\ "artists" \in DOMAIN patch <=> PatchArtists(o, recording)
             /\ "album" \in DOMAIN patch <=>
                   /\ release # None /\ release.title # <<>>
                   /\ NormalizeText(o.album) # NormalizeText(release.title)
             /\ "title" \in DOMAIN patch => patch["title"] = recording.title
             /\ "artists" \in DOMAIN patch => patch["artists"] = recording.artists
             /\ "album" \in DOMAIN patch => patch["album"] = release.title
BY DEF GenerateTagPatch

\* A patch that was written back leaves nothing to change.
LEMMA PatchIsSettled ==
  ASSUME observation \in TrackObservation, NEW recording, NEW release
  PROVE  DOMAIN GenerateTagPatch(Patched(GenerateTagPatch(observation, recording, release)),
                                 recording, release)
           \subseteq {"isrc"} \cup IF <<>> \in DOMAIN NormalizedNames(recording.artists)
                                   THEN {"artists"} ELSE {}
<1> DEFINE patch == GenerateTagPatch(observation, recording, release)
           next  == Patched(patch)
           again == GenerateTagPatch(next, recording, release)
<1>1. /\ next.title = IF "title" \in DOMAIN patch THEN patch["title"] ELSE observation.title
      /\ next.artists = IF "artists" \in DOMAIN patch THEN patch["artists"]
                        ELSE observation.artists
      /\ next.album = IF "album" \in DOMAIN patch THEN patch["album"] ELSE observation.album
  <2> HIDE DEF patch
  <2> QED
    BY DEF Patched, TrackObservation
<1>2. /\ "title" \in DOMAIN patch <=>
            recording.title # <<>> /\ NormalizeText(observation.title) # NormalizeText(recording.title)
      /\ "artists" \in DOMAIN patch <=> PatchArtists(observation, recording)
      /\ "album" \in DOMAIN patch <=>
            /\ release # None /\ release.title # <<>>
            /\ NormalizeText(observation.album) # NormalizeText(release.title)
      /\ "title" \in DOMAIN patch => patch["title"] = recording.title
      /\ "artists" \in DOMAIN patch => patch["artists"] = recording.artists
      /\ "album" \in DOMAIN patch => patch["album"] = release.title
  BY PatchFields
<1> HIDE DEF patch, next
<1>3. /\ DOMAIN again \subseteq {"title", "artists", "album", "isrc"}
      /\ "title" \in DOMAIN again <=>
            recording.title # <<>> /\ NormalizeText(next.title) # NormalizeText(recording.title)
      /\ "artists" \in DOMAIN again <=> PatchArtists(next, recording)
      /\ "album" \in DOMAIN again <=>
            /\ release # None /\ release.title # <<>>
            /\ NormalizeText(next.album) # NormalizeText(release.title)
  BY PatchFields
<1> HIDE DEF again
<1>4. "title" \notin DOMAIN again
  BY <1>1, <1>2, <1>3
<1>5. "album" \notin DOMAIN again
  BY <1>1, <1>2, <1>3
<1>6. ASSUME <<>> \notin DOMAIN NormalizedNames(recording.artists)
      PROVE  "artists" \notin DOMAIN again
  <2>1. CASE "artists" \in DOMAIN patch
    <3>1. next.artists = recording.artists
      BY <1>1, <1>2, <2>1
    <3>2. ObservedNames(next) = NormalizedNames(next.artists)
      BY <1>6, <3>1, NamesAsTheyAre
    <3> QED
      BY <1>3, <3>1, <3>2 DEF PatchArtists
  <2>2. CASE "artists" \notin DOMAIN patch
    <3>1. next.artists = observation.artists
      BY <1>1, <2>2
    <3>2. ObservedNames(next) = ObservedNames(observation)
      BY <3>1 DEF ObservedNames
    <3> QED
      BY <1>2, <1>3, <2>2, <3>2 DEF PatchArtists
  <2> QED
    BY <2>1, <2>2
<1> QED
  BY <1>3, <1>4, <1>5, <1>6 DEF again, next, patch

-------------------------------------------------------------------------------
(* Types, and what the worker has in hand.                                 *)

Origins == DOMAIN Answers \cup {"catalog"}
Patch   == UNION {[F -> Text \cup Seq(Text)] : F \in SUBSET {"title", "artists", "album", "isrc"}}
CatalogRows   == {row \in Recording : row.id \in RecordingIds}
ReleaseOrNone == Release \cup {None}
NumberOrNone  == Nat \cup {None}
Candidates == CandidateSet(CatalogRows, ReleaseOrNone, Origins, NumberOrNone, Patch)

Persisting == {"persist", "release", "record", "select"}
Codes == {"", "CATALOG_QUERY_FAILED", "PROVIDER_QUERY_FAILED", "PROVIDER_UNAVAILABLE",
          "CANDIDATE_SAVE_FAILED"}
Places == {"lookup", "artists", "query", "save", "fail", "done"} \cup Persisting

TypeOK ==
    /\ observation \in Observations
    /\ recordings \in [RecordingIds -> Recording \cup {None}]
    /\ sources \in [SourceKeys -> SourceRow \cup {None}]
    /\ drawn \in Nat /\ doomed \in SUBSET Nat
    /\ request \in [status : {"matching", "matched", "no_match", "failed", "deleted"},
                    error : Codes, candidates : Seq(Candidates)]
    /\ at \in Places /\ turn \in Nat \ {0} /\ code \in Codes
    /\ found \in Seq(Candidates) /\ ranked \in Seq(Candidates)

RowsInPlace == \A i \in RecordingIds : recordings[i] # None => recordings[i].id = i

\* The rows whose artists are to be read are in the catalog, and stay in it; the
\* results to be saved are those of the provider whose turn it is.
AnswerInHand ==
    /\ at = "artists" =>
          /\ answer \in Seq(Recording) /\ answer # <<>>
          /\ \A row \in ToSet(answer) : row.id \in RecordingIds /\ recordings[row.id] # None
    /\ at \in Persisting =>
          /\ turn \in DOMAIN Providers
          /\ answer \in Seq(Results(Providers[turn])) /\ answer # <<>>

FoundAsAccepted == \A c \in ToSet(found) : AsAccepted(c)

Typed == TypeOK /\ RowsInPlace /\ AnswerInHand /\ FoundAsAccepted

LEMMA ResultFacts ==
  ASSUME NEW p \in DOMAIN Answers, NEW r \in Results(p)
  PROVE  /\ r \in ProviderResult /\ p \in STRING
         /\ CatalogRow(p, r) \in Recording /\ CatalogRow(p, r).id \in RecordingIds
         /\ SourceKey(p, r) \in SourceKeys
         /\ r.release # None => [id |-> ReleaseId(p, r), title |-> r.release.title] \in Release
<1>1. Answers[p] \subseteq Seq(ProviderResult) /\ p \in STRING
  BY SearchAssumption
<1>2. PICK list \in Answers[p] : r \in ToSet(list)
  BY DEF Results
<1>3. list \in Seq(ProviderResult)
  BY <1>1
<1>4. r \in ProviderResult
  BY <1>2, <1>3 DEF ToSet
<1>5. <<p, r.id>> \in DOMAIN EntityId
  BY CatalogAssumption
<1>6. EntityId[<<p, r.id>>] \in Nat /\ EntityId[<<p, r.id>>] \in Range(EntityId)
  BY <1>5, EntityAssumption DEF Range
<1>7. CatalogRow(p, r) \in Recording /\ CatalogRow(p, r).id \in RecordingIds
  BY <1>4, <1>6 DEF CatalogRow, Recording, ProviderResult, RecordingIds
<1>8. SourceKey(p, r) \in SourceKeys
  BY DEF SourceKeys
<1>9. ASSUME r.release # None
      PROVE  [id |-> ReleaseId(p, r), title |-> r.release.title] \in Release
  <2>1. r.release \in [id : STRING, title : Text]
    BY <1>4, <1>9 DEF ProviderResult
  <2> QED
    BY <1>1, <1>9, <2>1 DEF Release, ReleaseId
<1> QED
  BY <1>1, <1>4, <1>7, <1>8, <1>9

LEMMA OldFacts ==
  ASSUME NEW o \in OldResults
  PROVE  /\ CatalogRow(o[1], o[2]) \in Recording
         /\ CatalogRow(o[1], o[2]).id \in RecordingIds
         /\ SourceKey(o[1], o[2]) \in SourceKeys
<1>1. o[2] \in ProviderResult /\ <<o[1], o[2].id>> \in DOMAIN EntityId
  BY CatalogAssumption
<1>2. /\ EntityId[<<o[1], o[2].id>>] \in Nat
      /\ EntityId[<<o[1], o[2].id>>] \in Range(EntityId)
  BY <1>1, EntityAssumption DEF Range
<1>3. CatalogRow(o[1], o[2]) \in Recording /\ CatalogRow(o[1], o[2]).id \in RecordingIds
  BY <1>1, <1>2 DEF CatalogRow, Recording, ProviderResult, RecordingIds
<1> QED
  BY <1>3 DEF SourceKeys

LEMMA RecordingIdsFinite ==
  RecordingIds \subseteq Nat /\ IsFiniteSet(RecordingIds)
<1> DEFINE entity == [e \in DOMAIN EntityId |-> EntityId[e]]
           number == [r \in Imported |-> r.id]
           ids    == {r.id : r \in Imported}
<1>1. entity \in Surjection(DOMAIN EntityId, Range(EntityId))
  BY DEF Surjection, Range
<1>2. IsFiniteSet(Range(EntityId))
  BY <1>1, CatalogAssumption, FS_Surjection
<1>3. number \in Surjection(Imported, ids)
  BY DEF Surjection
<1>4. IsFiniteSet(ids)
  BY <1>3, CatalogAssumption, FS_Surjection
<1>5. IsFiniteSet(Range(EntityId) \cup ids)
  BY <1>2, <1>4, FS_Union
<1>6. Range(EntityId) \subseteq Nat
  BY EntityAssumption DEF Range
<1>7. ids \subseteq Nat
  BY CatalogAssumption DEF Recording
<1> QED
  BY <1>5, <1>6, <1>7 DEF RecordingIds

LEMMA PatchType ==
  ASSUME NEW o, NEW recording \in Recording, NEW release \in ReleaseOrNone
  PROVE  GenerateTagPatch(o, recording, release) \in Patch
<1> DEFINE patch == GenerateTagPatch(o, recording, release)
           V == Text \cup Seq(Text)
<1>1. patch = [field \in DOMAIN patch |->
                 CASE field = "album" -> release.title [] OTHER -> recording[field]]
  BY DEF GenerateTagPatch
<1>2. DOMAIN patch \in SUBSET {"title", "artists", "album", "isrc"}
  BY DEF GenerateTagPatch
<1>3. /\ "album" \in DOMAIN patch => release # None
      /\ "isrc" \in DOMAIN patch => recording.isrc # None
  BY DEF GenerateTagPatch
<1> HIDE DEF patch
<1>4. ASSUME NEW field \in DOMAIN patch PROVE patch[field] \in V
  <2>1. CASE field = "album"
    <3>1. patch[field] = release.title
      BY <1>1, <2>1
    <3>2. release \in Release
      BY <1>3, <2>1 DEF ReleaseOrNone
    <3> QED
      BY <3>1, <3>2 DEF Release
  <2>2. CASE field # "album"
    <3>1. patch[field] = recording[field]
      BY <1>1, <2>2
    <3>2. recording.title \in Text /\ recording.artists \in Seq(Text)
          /\ recording.isrc \in Text \cup {None}
      BY DEF Recording
    <3>3. field \in {"title", "artists", "isrc"}
      BY <1>2, <2>2
    <3> QED
      BY <1>3, <3>1, <3>2, <3>3
  <2> QED
    BY <2>1, <2>2
<1> HIDE DEF V
<1>5. patch \in [DOMAIN patch -> V]
  BY <1>1, <1>4
<1> QED
  BY <1>2, <1>5 DEF Patch, V, patch

\* What Consider makes of the list of what has been accepted: it may add c, which
\* has evidence to show (where nothing was added, some other candidate stands for c).
LEMMA ConsiderFacts ==
  ASSUME TypeOK, NEW source \in Origins, NEW recording \in CatalogRows,
         NEW release \in ReleaseOrNone, NEW id \in NumberOrNone
  PROVE  \E c \in Candidates :
            /\ AsAccepted(c) /\ Consider(source, recording, release, id) \in {found, Append(found, c)}
            /\ c.recording = recording /\ c.source = source /\ c.observation = id
            /\ c.patch = GenerateTagPatch(observation, c.recording, c.release)
<1> DEFINE scored == ScoreCandidate(observation, recording, release)
           accepted == Candidate(scored, source, recording, release, id)
           shown == [scored EXCEPT !.evidence = @ \cup {"title"}]
           other == Candidate(shown, source, recording, release, id)
<1>1. observation.title \in Text /\ recording.title \in Text
  BY SearchAssumption DEF TypeOK, TrackObservation, Recording, CatalogRows
<1>2. /\ scored.score \in 0..Top /\ scored.evidence \in SUBSET AspectNames
      /\ scored.conflicts \in SUBSET AspectNames
  BY <1>1, ScoreType
<1>3. GenerateTagPatch(observation, recording, release) \in Patch
  BY PatchType DEF CatalogRows
<1>4. /\ Consider(source, recording, release, id) \in {found, Append(found, accepted)}
      /\ ~ (scored.score >= Threshold) => Consider(source, recording, release, id) = found
  BY DEF Consider, Accepted, Candidate
<1>5. scored.evidence = {} => ~ (scored.score >= Threshold)
  BY <1>1, NothingIsNotEnough
<1>6. /\ shown.score = scored.score /\ shown.conflicts = scored.conflicts
      /\ shown.evidence = scored.evidence \cup {"title"}
  BY DEF ScoreCandidate, Weighed
<1> HIDE DEF scored, shown
<1>7. AspectNames \subseteq Marks /\ "sources" \notin AspectNames /\ "title" \in AspectNames
  BY DEF Marks, AspectNames
<1>8. ASSUME NEW s, s.score \in 0..Top, s.evidence \in SUBSET AspectNames,
             s.conflicts \in SUBSET AspectNames, s.evidence # {}
      PROVE  LET c == Candidate(s, source, recording, release, id)
             IN  /\ c \in Candidates /\ AsAccepted(c)
                 /\ c.recording = recording /\ c.source = source /\ c.observation = id
                 /\ c.patch = GenerateTagPatch(observation, c.recording, c.release)
  <2> DEFINE c == Candidate(s, source, recording, release, id)
  <2>1. c \in Candidates
    BY <1>3, <1>7, <1>8 DEF Candidate, Candidates, CandidateSet
  <2>2. AsAccepted(c)
    BY <1>7, <1>8 DEF Candidate, AsAccepted
  <2>3. /\ c.recording = recording /\ c.source = source /\ c.observation = id
        /\ c.patch = GenerateTagPatch(observation, c.recording, c.release)
    BY DEF Candidate
  <2> QED
    BY <2>1, <2>2, <2>3
<1>9. CASE scored.evidence # {}
  <2> HIDE DEF accepted
  <2>1. /\ accepted \in Candidates /\ AsAccepted(accepted)
        /\ accepted.recording = recording /\ accepted.source = source
        /\ accepted.observation = id
        /\ accepted.patch = GenerateTagPatch(observation, accepted.recording, accepted.release)
    BY <1>2, <1>8, <1>9 DEF accepted
  <2> QED
    BY <1>4, <2>1
<1>10. CASE scored.evidence = {}
  <2>1. Consider(source, recording, release, id) = found
    BY <1>4, <1>5, <1>10
  <2>2. /\ shown.score \in 0..Top /\ shown.evidence \in SUBSET AspectNames
        /\ shown.conflicts \in SUBSET AspectNames /\ shown.evidence # {}
    BY <1>2, <1>6, <1>7
  <2> HIDE DEF other
  <2>3. /\ other \in Candidates /\ AsAccepted(other)
        /\ other.recording = recording /\ other.source = source /\ other.observation = id
        /\ other.patch = GenerateTagPatch(observation, other.recording, other.release)
    BY <1>8, <2>2 DEF other
  <2> QED
    BY <2>1, <2>3
<1> QED
  BY <1>9, <1>10

-------------------------------------------------------------------------------
(* The tables.                                                             *)

SourcesDistinct ==
    \A k \in SourceKeys : sources[k] # None =>
        /\ sources[k].id <= drawn
        /\ \A q \in SourceKeys : sources[q] # None /\ sources[q].id = sources[k].id => q = k

\* What a running purge has selected has expired long since.
DoomedAreAged ==
    /\ \A d \in doomed : d <= drawn
    /\ \A k \in SourceKeys : sources[k] # None /\ sources[k].id \in doomed => sources[k].aged

\* The source row that a candidate names, if it is there, is about the candidate's
\* recording; and the patch is the candidate's own.
Grounded(c) ==
    /\ c.patch = GenerateTagPatch(observation, c.recording, c.release)
    /\ c.observation # None =>
          /\ c.observation <= drawn
          /\ \A k \in SourceKeys : sources[k] # None /\ sources[k].id = c.observation =>
                k[1] = c.source /\ EntityId[<<k[1], k[2]>>] = c.recording.id

Tables == SourcesDistinct /\ DoomedAreAged /\ \A c \in ToSet(found) : Grounded(c)

\* What is about to be saved, and what was saved, tells what was found.
Told ==
    /\ at = "save" => Sorted(ranked) /\ Tells(ranked, found)
    /\ request.candidates # <<>> => at \in {"fail", "done"} /\ Tells(request.candidates, found)
    /\ request.status = "matched" => at \in {"fail", "done"} /\ Tells(request.candidates, found)
    /\ Sorted(request.candidates)
    /\ \A i, j \in DOMAIN request.candidates :
          request.candidates[i].recording.id = request.candidates[j].recording.id => i = j

\* The catalog's rows are different recordings, each of them considered once.
NamedOnce ==
    /\ at = "lookup" => found = <<>>
    /\ at = "artists" =>
          /\ \A i, j \in DOMAIN answer : answer[i].id = answer[j].id => i = j
          /\ \A i, j \in DOMAIN found : found[i].recording.id = found[j].recording.id => i = j
          /\ \A i \in DOMAIN found, j \in DOMAIN answer : found[i].recording.id # answer[j].id

Inductive == Typed /\ Tables /\ Told /\ EvidenceIsStored /\ NamedOnce

-------------------------------------------------------------------------------
(* The initial states.                                                     *)

LEMMA SequenceOf ==
  ASSUME NEW S, IsFiniteSet(S)
  PROVE  SetToSeq(S) \in Seq(S) /\ Len(SetToSeq(S)) \in Nat
<1> DEFINE N == Cardinality(S)
<1>1. N \in Nat /\ ExistsBijection(1..N, S)
  BY FS_CardinalityType
<1>2. \E f \in [1..N -> S] : IsInjective(f)
  BY <1>1 DEF ExistsBijection, Bijection, Injection
<1>3. SetToSeq(S) \in [1..N -> S]
  BY <1>2 DEF SetToSeq
<1> HIDE DEF N
<1>4. SetToSeq(S) \in Seq(S)
  BY <1>1, <1>3
<1> QED
  BY <1>4

\* The rows left behind have the numbers of their places.
LEMMA InitSources ==
  ASSUME Init
  PROVE  /\ sources \in [SourceKeys -> SourceRow \cup {None}]
         /\ drawn \in Nat /\ SourcesDistinct
<1>1. PICK old \in SUBSET OldResults :
         LET order == SetToSeq({SourceKey(o[1], o[2]) : o \in old})
         IN  (\E aged \in BOOLEAN : sources = OldSources(order, aged)) /\ drawn = Len(order)
  BY DEF Init
<1> DEFINE keys  == {SourceKey(o[1], o[2]) : o \in old}
           order == SetToSeq(keys)
           place == [k \in SourceKeys |-> CHOOSE n \in DOMAIN order : order[n] = k]
<1>2. PICK aged \in BOOLEAN : sources = OldSources(order, aged) /\ drawn = Len(order)
  BY <1>1
<1>3. \A k \in SourceKeys :
         sources[k] = IF k \in ToSet(order) THEN [id |-> place[k], aged |-> aged] ELSE None
  BY <1>2 DEF OldSources
<1>4. DOMAIN sources = SourceKeys /\ sources = [k \in SourceKeys |-> sources[k]]
  BY <1>2 DEF OldSources
<1>5. IsFiniteSet(keys)
  <2> DEFINE key == [o \in old |-> SourceKey(o[1], o[2])]
  <2>1. IsFiniteSet(old)
    BY CatalogAssumption, FS_Subset
  <2>2. key \in Surjection(old, keys)
    BY DEF Surjection
  <2> HIDE DEF key, keys
  <2> QED
    BY <2>1, <2>2, FS_Surjection
<1>6. order \in Seq(keys) /\ Len(order) \in Nat
  <2> HIDE DEF keys
  <2> QED
    BY <1>5, SequenceOf
<1>7. ASSUME NEW k \in SourceKeys, k \in ToSet(order)
      PROVE  place[k] \in 1..Len(order) /\ order[place[k]] = k
  <2> HIDE DEF order, keys
  <2>1. DOMAIN order = 1..Len(order)
    BY <1>6
  <2>2. \E n \in DOMAIN order : order[n] = k
    BY <1>7 DEF ToSet
  <2> QED
    BY <2>1, <2>2
<1> HIDE DEF order, keys, place
<1>8. ASSUME NEW k \in SourceKeys PROVE sources[k] \in SourceRow \cup {None}
  <2>1. CASE k \in ToSet(order)
    <3>1. place[k] \in Nat
      BY <1>6, <1>7, <2>1
    <3>2. sources[k] = [id |-> place[k], aged |-> aged]
      BY <1>3, <2>1
    <3> QED
      BY <3>1, <3>2 DEF SourceRow
  <2>2. CASE k \notin ToSet(order)
    BY <1>3, <2>2
  <2> QED
    BY <2>1, <2>2
<1>9. sources \in [SourceKeys -> SourceRow \cup {None}]
  BY <1>4, <1>8
<1>10. ASSUME NEW k \in SourceKeys, sources[k] # None
       PROVE  /\ k \in ToSet(order) /\ sources[k].id = place[k] /\ sources[k].id \in 1..Len(order)
              /\ order[sources[k].id] = k
  <2>1. k \in ToSet(order) /\ sources[k] = [id |-> place[k], aged |-> aged]
    BY <1>3, <1>10
  <2>2. sources[k].id = place[k]
    BY <2>1
  <2> QED
    BY <1>7, <2>1, <2>2
<1>11. SourcesDistinct
  <2> SUFFICES ASSUME NEW k \in SourceKeys, sources[k] # None
               PROVE  /\ sources[k].id <= drawn
                      /\ \A q \in SourceKeys :
                            sources[q] # None /\ sources[q].id = sources[k].id => q = k
    BY DEF SourcesDistinct
  <2>1. sources[k].id \in 1..Len(order) /\ order[sources[k].id] = k
    BY <1>10
  <2>2. ASSUME NEW q \in SourceKeys, sources[q] # None, sources[q].id = sources[k].id
        PROVE  q = k
    BY <1>10, <2>1, <2>2
  <2>3. sources[k].id <= drawn
    BY <1>2, <1>6, <2>1
  <2> QED
    BY <2>2, <2>3
<1> QED
  BY <1>2, <1>6, <1>9, <1>11

LEMMA InitTyped ==
  ASSUME Init
  PROVE  Typed
<1>1. PICK old \in SUBSET OldResults, imported \in SUBSET Imported :
         LET rows == {CatalogRow(o[1], o[2]) : o \in old} \cup imported
         IN  recordings = [i \in RecordingIds |->
                             IF \E row \in rows : row.id = i
                               THEN CHOOSE row \in rows : row.id = i ELSE None]
  BY DEF Init
<1> DEFINE rows == {CatalogRow(o[1], o[2]) : o \in old} \cup imported
<1>2. rows \subseteq Recording
  BY CatalogAssumption, OldFacts
<1>3. recordings = [i \in RecordingIds |->
                      IF \E row \in rows : row.id = i
                        THEN CHOOSE row \in rows : row.id = i ELSE None]
  BY <1>1
<1> HIDE DEF rows
<1>4. ASSUME NEW i \in RecordingIds
      PROVE  /\ recordings[i] \in Recording \cup {None}
             /\ recordings[i] # None => recordings[i].id = i
  BY <1>2, <1>3
<1>5. recordings \in [RecordingIds -> Recording \cup {None}]
  BY <1>3, <1>4
<1>6. <<>> \in Seq(Candidates) /\ ToSet(<<>>) = {}
  BY DEF ToSet
<1>7. /\ observation \in Observations /\ doomed = {} /\ at = "lookup" /\ turn = 1
      /\ request = [status |-> "matching", error |-> "", candidates |-> <<>>]
      /\ found = <<>> /\ ranked = <<>> /\ code = ""
  BY DEF Init
<1>8. sources \in [SourceKeys -> SourceRow \cup {None}] /\ drawn \in Nat
  BY InitSources
<1>9. TypeOK
  <2>1. request \in [status : {"matching", "matched", "no_match", "failed", "deleted"},
                     error : Codes, candidates : Seq(Candidates)]
    BY <1>6, <1>7 DEF Codes
  <2>2. at \in Places /\ code \in Codes /\ doomed \in SUBSET Nat
    BY <1>7 DEF Places, Codes
  <2>3. turn \in Nat \ {0}
    <3>1. 1 \in Nat \ {0}
      OBVIOUS
    <3>2. turn = 1
      BY <1>7
    <3> QED
      BY <3>1, <3>2, Zenon
  <2> QED
    BY <1>5, <1>6, <1>7, <1>8, <2>1, <2>2, <2>3 DEF TypeOK
<1>10. AnswerInHand /\ FoundAsAccepted
  BY <1>6, <1>7 DEF AnswerInHand, Persisting, FoundAsAccepted
<1> QED
  BY <1>4, <1>9, <1>10 DEF Typed, RowsInPlace

-------------------------------------------------------------------------------
(* The steps keep the types, and what is in hand.                          *)

LEMMA NothingInHand ==
  ASSUME at' \notin {"artists"} \cup Persisting
  PROVE  AnswerInHand'
BY DEF AnswerInHand

LEMMA InHand ==
  ASSUME Typed, at \in Persisting
  PROVE  /\ turn \in DOMAIN Providers /\ Source \in DOMAIN Answers
         /\ Result \in Results(Source) /\ Tail(answer) \in Seq(Results(Source))
         /\ Key \in SourceKeys
<1>1. turn \in DOMAIN Providers /\ answer \in Seq(Results(Source)) /\ answer # <<>>
  BY DEF Typed, AnswerInHand, Source
<1>2. Source \in DOMAIN Answers
  BY <1>1, SearchAssumption DEF Source
<1>3. Head(answer) \in Results(Source) /\ Tail(answer) \in Seq(Results(Source))
  <2> DEFINE S == Results(Source)
  <2>1. answer \in Seq(S)
    BY <1>1
  <2> HIDE DEF S
  <2>2. Head(answer) \in S /\ Tail(answer) \in Seq(S)
    BY <1>1, <2>1
  <2> QED
    BY <2>2 DEF S
<1>4. Key \in SourceKeys
  BY <1>2, <1>3, ResultFacts DEF Key, Result
<1> QED
  BY <1>1, <1>2, <1>3, <1>4 DEF Result

LEMMA RankedType ==
  ASSUME NEW list \in Seq(Candidates)
  PROVE  Ranked(list) \in Seq(Candidates)
<1>1. \A r \in CatalogRows : r.id \in Int
  BY DEF Recording, CatalogRows
<1> QED
  BY <1>1, RankedTells DEF Candidates

LEMMA Added ==
  ASSUME NEW S, NEW list \in Seq(S), NEW c \in S, NEW next, next \in {list, Append(list, c)}
  PROVE  next \in Seq(S) /\ ToSet(next) \subseteq ToSet(list) \cup {c}
                         /\ ToSet(list) \subseteq ToSet(next)
<1>1. ToSet(Append(list, c)) = ToSet(list) \cup {c}
  <2>1. DOMAIN Append(list, c) = 1..(Len(list) + 1) /\ DOMAIN list = 1..Len(list)
    OBVIOUS
  <2>2. \A i \in 1..Len(list) : Append(list, c)[i] = list[i]
    OBVIOUS
  <2>3. Append(list, c)[Len(list) + 1] = c /\ Len(list) \in Nat
    OBVIOUS
  <2>4. 1..(Len(list) + 1) = 1..Len(list) \cup {Len(list) + 1}
    BY <2>3
  <2> DEFINE longer == Append(list, c)
  <2> HIDE DEF longer
  <2>5. ToSet(longer) = ToSet(list) \cup {c}
    BY <2>1, <2>2, <2>3, <2>4 DEF ToSet, longer
  <2> QED
    BY <2>5 DEF longer
<1>2. Append(list, c) \in Seq(S)
  OBVIOUS
<1> QED
  BY <1>1, <1>2

\* A result is scored and, if it is good enough, added; then the next has its turn.
LEMMA AcceptFacts ==
  ASSUME Typed, at \in Persisting, NEW id \in NumberOrNone, Accept(id)
  PROVE  /\ \E c \in Candidates :
               /\ AsAccepted(c) /\ found' \in {found, Append(found, c)}
               /\ c.recording = CatalogRow(Source, Result) /\ c.source = Source
               /\ c.observation = id
               /\ c.patch = GenerateTagPatch(observation, c.recording, c.release)
         /\ at' \in {"query", "persist"} /\ turn' \in Nat \ {0}
         /\ at' = "persist" => /\ turn' = turn
                               /\ answer' \in Seq(Results(Providers[turn])) /\ answer' # <<>>
         /\ ranked' = ranked /\ code' = code
<1> DEFINE release == IF Result.release = None THEN None
                      ELSE [id |-> ReleaseId(Source, Result), title |-> Result.release.title]
<1>1. /\ turn \in DOMAIN Providers /\ Source \in DOMAIN Answers
      /\ Result \in Results(Source) /\ Tail(answer) \in Seq(Results(Source))
  BY InHand
<1>2. CatalogRow(Source, Result) \in CatalogRows /\ release \in ReleaseOrNone
  BY <1>1, ResultFacts DEF ReleaseOrNone, CatalogRows
<1>3. Source \in Origins /\ TypeOK
  BY <1>1 DEF Origins, Typed
<1>4. found' = Consider(Source, CatalogRow(Source, Result), release, id)
  BY DEF Accept
<1> HIDE DEF release
<1>5. \E c \in Candidates :
         /\ AsAccepted(c) /\ found' \in {found, Append(found, c)}
         /\ c.recording = CatalogRow(Source, Result) /\ c.source = Source /\ c.observation = id
         /\ c.patch = GenerateTagPatch(observation, c.recording, c.release)
  <2> DEFINE row == CatalogRow(Source, Result)
  <2>1. row \in CatalogRows
    BY <1>2
  <2> HIDE DEF row
  <2>2. \E c \in Candidates :
          /\ AsAccepted(c) /\ Consider(Source, row, release, id) \in {found, Append(found, c)}
          /\ c.recording = row /\ c.source = Source /\ c.observation = id
          /\ c.patch = GenerateTagPatch(observation, c.recording, c.release)
    BY <1>2, <1>3, <2>1, ConsiderFacts
  <2> QED
    BY <1>4, <2>2 DEF row
<1>6. /\ answer' = Tail(answer) /\ ranked' = ranked /\ code' = code
      /\ at' = (IF Tail(answer) = <<>> THEN "query" ELSE "persist")
      /\ turn' = (IF Tail(answer) = <<>> THEN turn + 1 ELSE turn)
  BY DEF Accept
<1>7. turn \in Nat \ {0}
  BY DEF Typed, TypeOK
<1> QED
  BY <1>1, <1>5, <1>6, <1>7, SMTT(30) DEF Source

\* Rows of the catalog are replaced, and never removed.
LEMMA RowReplaced ==
  ASSUME Typed, NEW row \in Recording, row.id \in RecordingIds,
         recordings' = [recordings EXCEPT ![row.id] = row]
  PROVE  /\ recordings' \in [RecordingIds -> Recording \cup {None}] /\ RowsInPlace'
         /\ \A i \in RecordingIds : recordings[i] # None => recordings'[i] # None
         /\ recordings'[row.id] = row /\ row # None
<1>1. /\ recordings \in [RecordingIds -> Recording \cup {None}]
      /\ \A i \in RecordingIds : recordings[i] # None => recordings[i].id = i
  BY DEF Typed, TypeOK, RowsInPlace
<1>2. recordings' \in [RecordingIds -> Recording \cup {None}]
  BY <1>1
<1>3. \A i \in RecordingIds : recordings'[i] = IF i = row.id THEN row ELSE recordings[i]
  BY <1>1
<1>4. row # None
  BY NoneAssumption
<1> QED
  BY <1>1, <1>2, <1>3, <1>4 DEF RowsInPlace

LEMMA SourceAdded ==
  ASSUME Typed, NEW key \in SourceKeys, NewSource(key)
  PROVE  /\ sources' \in [SourceKeys -> SourceRow \cup {None}] /\ drawn' \in Nat
         /\ sources'[key] = [id |-> drawn + 1, aged |-> FALSE] /\ sources'[key] # None
         /\ \A k \in SourceKeys : k # key => sources'[k] = sources[k]
<1>1. sources \in [SourceKeys -> SourceRow \cup {None}] /\ drawn \in Nat
  BY DEF Typed, TypeOK
<1>2. sources' = [sources EXCEPT ![key] = [id |-> drawn + 1, aged |-> FALSE]]
      /\ drawn' = drawn + 1
  BY DEF NewSource
<1>3. [id |-> drawn + 1, aged |-> FALSE] \in SourceRow
  BY <1>1 DEF SourceRow
<1> DEFINE row == [id |-> drawn + 1, aged |-> FALSE]
<1> HIDE DEF row
<1>4. row \in SourceRow /\ row # None /\ sources' = [sources EXCEPT ![key] = row]
  BY <1>2, <1>3, NoneAssumption DEF row
<1>5. /\ sources' \in [SourceKeys -> SourceRow \cup {None}]
      /\ sources'[key] = row /\ \A k \in SourceKeys : k # key => sources'[k] = sources[k]
  BY <1>1, <1>4
<1>6. drawn' \in Nat
  BY <1>1, <1>2
<1> QED
  BY <1>4, <1>5, <1>6 DEF row

\* Without a match the providers come next, if there are any.
LEMMA LookupDoneFacts ==
  ASSUME NEW list, LookupDone(list)
  PROVE  /\ \/ at' = "save" /\ ranked' = Ranked(list) /\ (list # <<>> \/ Providers = <<>>)
            \/ at' = "query" /\ ranked' = ranked /\ list = <<>> /\ Providers # <<>>
         /\ code' = code
BY DEF LookupDone, ToSave

LEMMA FindRecordingsFacts ==
  ASSUME FindRecordings
  PROVE  /\ \/ at' = "save" /\ ranked' = Ranked(found) /\ (found # <<>> \/ Providers = <<>>)
            \/ at' = "query" /\ ranked' = ranked /\ found = <<>> /\ Providers # <<>>
            \/ at' = "artists" /\ ranked' = ranked
         /\ code' = code
<1>1. CASE LookupDone(found)
  BY <1>1, LookupDoneFacts
<1>2. CASE GoOnReading
  BY <1>2 DEF GoOnReading
<1> QED
  BY <1>1, <1>2 DEF FindRecordings

LEMMA FindRecordingsTyped ==
  ASSUME Typed, FindRecordings
  PROVE  Typed'
<1> DEFINE title == NormalizeText(observation.title)
           ids   == {j \in RecordingIds : /\ recordings[j] # None
                                          /\ NormalizeText(recordings[j].title) = title}
           rows  == {recordings[i] : i \in ids}
<1>1. /\ at = "lookup" /\ answer' \in SetToSeqs(rows)
      /\ IF rows = {} THEN LookupDone(found) ELSE GoOnReading
      /\ UNCHANGED <<observation, tables, doomed, request, turn, answered, found, others,
                     faults>>
  BY DEF FindRecordings
<1>2. \A i \in ids : i \in RecordingIds /\ recordings[i] \in Recording /\ recordings[i].id = i
                     /\ recordings[i] # None
  BY DEF Typed, TypeOK, RowsInPlace
<1>3. IsFiniteSet(rows)
  <2> DEFINE row == [i \in ids |-> recordings[i]]
  <2>1. IsFiniteSet(ids)
    BY RecordingIdsFinite, FS_Subset
  <2>2. row \in Surjection(ids, rows)
    BY DEF Surjection
  <2> HIDE DEF row, rows, ids
  <2> QED
    BY <2>1, <2>2, FS_Surjection
<1>4. rows \subseteq Recording /\ \A row \in rows : row.id \in RecordingIds
                                                   /\ recordings[row.id] # None
  BY <1>2
<1> HIDE DEF rows, ids
<1>5. Cardinality(rows) \in Nat /\ (Cardinality(rows) = 0 <=> rows = {})
  BY <1>3, FS_CardinalityType, FS_EmptySet
<1>6. answer' \in [1..Cardinality(rows) -> rows]
  BY <1>1 DEF SetToSeqs
<1>7. answer' \in Seq(rows) /\ DOMAIN answer' = 1..Cardinality(rows)
  BY <1>5, <1>6
<1>8. answer' \in Seq(Recording)
  BY <1>4, <1>5, <1>6
<1>9. ASSUME rows # {} PROVE answer' # <<>>
  <2>1. 1 \in DOMAIN answer'
    BY <1>5, <1>7, <1>9
  <2> QED
    BY <2>1
<1>10. \A row \in ToSet(answer') : row \in rows
  BY <1>6 DEF ToSet
<1>11. /\ at' \in {"save", "query", "artists"} /\ code' = code
       /\ ranked' \in {ranked, Ranked(found)} /\ (at' = "artists" => rows # {})
  <2>1. rows = {} => at' # "artists"
    BY <1>1, LookupDoneFacts
  <2> QED
    BY <2>1, FindRecordingsFacts
<1>12. AnswerInHand'
  BY <1>1, <1>4, <1>8, <1>9, <1>10, <1>11 DEF AnswerInHand, Persisting, tables
<1>13. TypeOK' /\ RowsInPlace' /\ FoundAsAccepted'
  <2>1. at' \in Places
    BY <1>11 DEF Places
  <2>2. ranked' \in Seq(Candidates)
    BY <1>11, RankedType DEF Typed, TypeOK
  <2> QED
    BY <1>1, <1>11, <2>1, <2>2 DEF Typed, TypeOK, RowsInPlace, FoundAsAccepted, tables
<1> QED
  BY <1>12, <1>13 DEF Typed

LEMMA ReadArtistsFacts ==
  ASSUME Typed, ReadArtists
  PROVE  /\ \E c \in Candidates :
               /\ AsAccepted(c) /\ found' \in {found, Append(found, c)}
               /\ c.recording.id = Head(answer).id /\ c.observation = None
               /\ c.patch = GenerateTagPatch(observation, c.recording, c.release)
         /\ answer' = Tail(answer)
         /\ \/ at' = "save" /\ ranked' = Ranked(found') /\ (found' # <<>> \/ Providers = <<>>)
            \/ at' = "query" /\ ranked' = ranked /\ Providers # <<>>
            \/ at' = "artists" /\ Tail(answer) # <<>> /\ ranked' = ranked
         /\ code' = code
<1> DEFINE row == [Head(answer) EXCEPT !.artists = recordings[Head(answer).id].artists]
<1>1. /\ at = "artists" /\ answer \in Seq(Recording) /\ answer # <<>>
      /\ \A r \in ToSet(answer) : r.id \in RecordingIds /\ recordings[r.id] # None
  BY DEF ReadArtists, Typed, AnswerInHand
<1>2. Head(answer) \in Recording /\ Head(answer) \in ToSet(answer)
  BY <1>1 DEF ToSet
<1>3. recordings[Head(answer).id] \in Recording
  BY <1>1, <1>2 DEF Typed, TypeOK
<1>4. row \in CatalogRows /\ row.id = Head(answer).id
  <2>1. row \in Recording /\ row.id = Head(answer).id
    BY <1>2, <1>3 DEF Recording
  <2> QED
    BY <1>1, <1>2, <2>1 DEF CatalogRows
<1>5. found' = Consider("catalog", row, None, None) /\ answer' = Tail(answer)
  BY DEF ReadArtists
<1> HIDE DEF row
<1>6. \E c \in Candidates :
         /\ AsAccepted(c) /\ Consider("catalog", row, None, None) \in {found, Append(found, c)}
         /\ c.recording.id = Head(answer).id /\ c.observation = None
         /\ c.patch = GenerateTagPatch(observation, c.recording, c.release)
  <2>1. TypeOK /\ "catalog" \in Origins /\ None \in ReleaseOrNone /\ None \in NumberOrNone
    BY DEF Typed, Origins, ReleaseOrNone, NumberOrNone
  <2>2. \E c \in Candidates :
          /\ AsAccepted(c) /\ Consider("catalog", row, None, None) \in {found, Append(found, c)}
          /\ c.recording = row /\ c.source = "catalog" /\ c.observation = None
          /\ c.patch = GenerateTagPatch(observation, c.recording, c.release)
    BY <1>4, <2>1, ConsiderFacts
  <2> QED
    BY <1>4, <2>2
<1>7. IF Tail(answer) = <<>> THEN LookupDone(found') ELSE GoOnReading
  BY DEF ReadArtists
<1>8. /\ \/ at' = "save" /\ ranked' = Ranked(found') /\ (found' # <<>> \/ Providers = <<>>)
         \/ at' = "query" /\ ranked' = ranked /\ Providers # <<>>
         \/ at' = "artists" /\ Tail(answer) # <<>> /\ ranked' = ranked
      /\ code' = code
  BY <1>7, LookupDoneFacts DEF GoOnReading
<1> QED
  BY <1>5, <1>6, <1>8

\* The list of what was accepted grows by an accepted candidate, or stays.
LEMMA FoundGrows ==
  ASSUME Typed, NEW c \in Candidates, AsAccepted(c), found' \in {found, Append(found, c)}
  PROVE  /\ found' \in Seq(Candidates) /\ FoundAsAccepted'
         /\ ToSet(found') \subseteq ToSet(found) \cup {c} /\ ToSet(found) \subseteq ToSet(found')
<1>1. found \in Seq(Candidates) /\ \A d \in ToSet(found) : AsAccepted(d)
  BY DEF Typed, TypeOK, FoundAsAccepted
<1>2. /\ found' \in Seq(Candidates) /\ ToSet(found') \subseteq ToSet(found) \cup {c}
      /\ ToSet(found) \subseteq ToSet(found')
  BY <1>1, Added
<1> QED
  BY <1>1, <1>2 DEF FoundAsAccepted

LEMMA MergedType ==
  ASSUME Typed
  PROVE  /\ MergeCrossSourceCandidates(found) \in Seq(Candidates)
         /\ \A i \in 1..Len(found) : AsAccepted(found[i])
<1>1. found \in Seq(Candidates) /\ \A i \in 1..Len(found) : AsAccepted(found[i])
  BY DEF Typed, TypeOK, FoundAsAccepted, ToSet
<1> QED
  BY <1>1, MergeIsWell DEF Candidates

LEMMA LookupTyped ==
  ASSUME Typed, ReadArtists \/ ProviderFails \/ ProviderAnswers
  PROVE  Typed'
<1> USE DEF tables
<1>1. CASE ReadArtists
  <2>1. /\ \E c \in Candidates :
              /\ AsAccepted(c) /\ found' \in {found, Append(found, c)}
              /\ c.observation = None
              /\ c.patch = GenerateTagPatch(observation, c.recording, c.release)
        /\ answer' = Tail(answer)
        /\ \/ at' = "save" /\ ranked' = Ranked(found')
           \/ at' = "query" /\ ranked' = ranked
           \/ at' = "artists" /\ Tail(answer) # <<>> /\ ranked' = ranked
        /\ code' = code
    BY <1>1, ReadArtistsFacts
  <2>2. found' \in Seq(Candidates) /\ FoundAsAccepted'
    BY <2>1, FoundGrows
  <2>3. /\ at = "artists" /\ at' \in Places
        /\ UNCHANGED <<observation, tables, doomed, request, turn, answered, others, faults>>
    BY <1>1, <2>1 DEF ReadArtists, Places
  <2>4. ranked' \in Seq(Candidates)
    BY <2>1, <2>2, RankedType DEF Typed, TypeOK
  <2>5. TypeOK' /\ RowsInPlace'
    BY <2>1, <2>2, <2>3, <2>4 DEF Typed, TypeOK, RowsInPlace
  <2>6. /\ answer \in Seq(Recording) /\ answer # <<>>
        /\ \A row \in ToSet(answer) : row.id \in RecordingIds /\ recordings[row.id] # None
    BY <2>3 DEF Typed, AnswerInHand
  <2>7. Tail(answer) \in Seq(Recording) /\ ToSet(Tail(answer)) \subseteq ToSet(answer)
    <3>1. Len(answer) \in Nat /\ Len(answer) >= 1 /\ DOMAIN answer = 1..Len(answer)
      BY <2>6
    <3>2. /\ Tail(answer) \in Seq(Recording) /\ DOMAIN Tail(answer) = 1..(Len(answer) - 1)
          /\ \A i \in 1..(Len(answer) - 1) : Tail(answer)[i] = answer[i + 1]
      BY <2>6
    <3>3. \A i \in 1..(Len(answer) - 1) : i + 1 \in 1..Len(answer)
      BY <3>1
    <3> QED
      BY <3>1, <3>2, <3>3 DEF ToSet
  <2>8. AnswerInHand'
    BY <2>1, <2>3, <2>6, <2>7 DEF AnswerInHand, Persisting
  <2> QED
    BY <2>2, <2>5, <2>8 DEF Typed
<1>2. CASE ProviderFails
  <2>1. /\ at = "query" /\ turn' = turn + 1
        /\ UNCHANGED <<observation, tables, doomed, request, at, answer, answered, found,
                       ranked, code, others, faults>>
    BY <1>2 DEF ProviderFails, Asking
  <2>2. AnswerInHand'
    BY <2>1, NothingInHand DEF Persisting
  <2> QED
    BY <2>1, <2>2 DEF Typed, TypeOK, RowsInPlace, FoundAsAccepted
<1>3. CASE ProviderAnswers
  <2>1. PICK list \in Answers[Providers[turn]] :
              /\ answer' = list
              /\ at' = IF list = <<>> THEN "query" ELSE "persist"
              /\ turn' = IF list = <<>> THEN turn + 1 ELSE turn
    BY <1>3 DEF ProviderAnswers
  <2>2. /\ turn <= Len(Providers)
        /\ UNCHANGED <<observation, tables, doomed, request, found, ranked, code, others, faults>>
    BY <1>3 DEF ProviderAnswers, Asking
  <2>3. turn \in Nat \ {0}
    BY DEF Typed, TypeOK
  <2>4. turn \in DOMAIN Providers /\ Providers[turn] \in DOMAIN Answers
    BY <2>2, <2>3, SearchAssumption
  <2>5. list \in Seq(Results(Providers[turn]))
    <3>1. list \in Seq(ProviderResult)
      BY <2>4, SearchAssumption
    <3>2. ToSet(list) \subseteq Results(Providers[turn])
      BY DEF Results
    <3> QED
      BY <3>1, <3>2 DEF ToSet
  <2>6. at' \in {"query", "persist"} /\ turn' \in Nat \ {0}
    BY <2>1, <2>3
  <2>7. AnswerInHand'
    BY <2>1, <2>4, <2>5 DEF AnswerInHand, Persisting
  <2>8. at' \in Places
    BY <2>6 DEF Places, Persisting
  <2>9. TypeOK' /\ RowsInPlace' /\ FoundAsAccepted'
    BY <2>2, <2>6, <2>8 DEF Typed, TypeOK, RowsInPlace, FoundAsAccepted
  <2> QED
    BY <2>7, <2>9 DEF Typed
<1> QED
  BY <1>1, <1>2, <1>3

LEMMA FailTyped ==
  ASSUME Typed, UNCHANGED <<observation, tables, doomed, request>>, NEW error \in Codes,
         ToFail(error)
  PROVE  Typed'
<1>1. at' = "fail" /\ code' \in Codes /\ ranked' = <<>> /\ UNCHANGED <<turn, found>>
  BY DEF ToFail
<1>2. AnswerInHand' /\ at' \in Places
  BY <1>1, NothingInHand DEF Persisting, Places
<1>3. ranked' \in Seq(Candidates)
  BY <1>1
<1> QED
  BY <1>1, <1>2, <1>3 DEF Typed, TypeOK, RowsInPlace, FoundAsAccepted, tables

\* A result that is in hand stays in hand while it is saved.
LEMMA PersistTyped ==
  ASSUME Typed, SaveRecording \/ SaveRelease \/ CreateSourceObservation
                \/ SelectSourceObservation \/ PersistFails
  PROVE  Typed'
<1> USE DEF tables
<1>1. CASE SaveRecording
  <2>1. /\ at = "persist" /\ at' \in {"record", "release"}
        /\ LET row == CatalogRow(Source, Result)
           IN  recordings' = [recordings EXCEPT ![row.id] = row]
        /\ UNCHANGED <<observation, releases, sources, drawn, doomed, request, turn, answer,
                       answered, found, ranked, code, others, faults>>
    BY <1>1 DEF SaveRecording
  <2>2. Source \in DOMAIN Answers /\ Result \in Results(Source)
    BY <2>1, InHand DEF Persisting
  <2> DEFINE row == CatalogRow(Source, Result)
  <2>3. row \in Recording /\ row.id \in RecordingIds
    BY <2>2, ResultFacts
  <2>4. recordings' = [recordings EXCEPT ![row.id] = row]
    BY <2>1
  <2> HIDE DEF row
  <2>5. recordings' \in [RecordingIds -> Recording \cup {None}] /\ RowsInPlace'
    BY <2>3, <2>4, RowReplaced
  <2>6. at' \in Places
    BY <2>1 DEF Places, Persisting
  <2>7. TypeOK' /\ FoundAsAccepted'
    BY <2>1, <2>5, <2>6 DEF Typed, TypeOK, FoundAsAccepted
  <2>8. AnswerInHand'
    BY <2>1 DEF Typed, AnswerInHand, Persisting
  <2> QED
    BY <2>5, <2>7, <2>8 DEF Typed
<1>2. CASE SaveRelease
  <2>1. /\ at = "release" /\ at' = "record"
        /\ UNCHANGED <<observation, recordings, sources, drawn, doomed, request, turn, answer,
                       answered, found, ranked, code, others, faults>>
    BY <1>2 DEF SaveRelease
  <2>2. at' \in Places /\ AnswerInHand'
    BY <2>1 DEF Typed, AnswerInHand, Places, Persisting
  <2> QED
    BY <2>1, <2>2 DEF Typed, TypeOK, RowsInPlace, FoundAsAccepted
<1>a. ASSUME NEW id \in NumberOrNone, at \in Persisting, Accept(id),
             UNCHANGED <<observation, recordings, doomed, request>>,
             sources' \in [SourceKeys -> SourceRow \cup {None}], drawn' \in Nat
      PROVE  Typed'
  <2>1. /\ \E c \in Candidates :
              /\ AsAccepted(c) /\ found' \in {found, Append(found, c)}
              /\ c.recording = CatalogRow(Source, Result) /\ c.source = Source
              /\ c.observation = id
              /\ c.patch = GenerateTagPatch(observation, c.recording, c.release)
        /\ at' \in {"query", "persist"} /\ turn' \in Nat \ {0}
        /\ at' = "persist" => /\ turn' = turn
                              /\ answer' \in Seq(Results(Providers[turn])) /\ answer' # <<>>
        /\ ranked' = ranked /\ code' = code
    BY <1>a, AcceptFacts
  <2>2. found' \in Seq(Candidates) /\ FoundAsAccepted'
    BY <2>1, FoundGrows
  <2>3. at' \in Places /\ turn \in DOMAIN Providers
    BY <1>a, <2>1, InHand DEF Places, Persisting
  <2>4. AnswerInHand'
    BY <2>1, <2>3 DEF AnswerInHand, Persisting
  <2>5. TypeOK' /\ RowsInPlace'
    BY <1>a, <2>1, <2>2, <2>3 DEF Typed, TypeOK, RowsInPlace
  <2> QED
    BY <2>2, <2>4, <2>5 DEF Typed
<1>b. drawn \in Nat /\ sources \in [SourceKeys -> SourceRow \cup {None}]
  BY DEF Typed, TypeOK
<1>3. CASE CreateSourceObservation
  <2>1. at = "record" /\ at \in Persisting
        /\ UNCHANGED <<observation, recordings, releases, doomed, request, others, faults>>
    BY <1>3 DEF CreateSourceObservation, Persisting
  <2>2. CASE sources[Key] = None
    <3>1. NewSource(Key) /\ Accept(drawn + 1)
      BY <1>3, <2>2 DEF CreateSourceObservation
    <3>2. sources' \in [SourceKeys -> SourceRow \cup {None}] /\ drawn' \in Nat
      BY <2>1, <3>1, InHand, SourceAdded
    <3>3. drawn + 1 \in NumberOrNone
      BY <1>b DEF NumberOrNone
    <3> QED
      BY <1>a, <2>1, <3>1, <3>2, <3>3
  <2>3. CASE sources[Key] # None
    <3>1. /\ at' = "select"
          /\ UNCHANGED <<sources, drawn, turn, answer, answered, found, ranked, code>>
      BY <1>3, <2>3 DEF CreateSourceObservation
    <3>2. at' \in Places /\ AnswerInHand'
      BY <2>1, <3>1 DEF Typed, AnswerInHand, Places, Persisting
    <3> QED
      BY <2>1, <3>1, <3>2 DEF Typed, TypeOK, RowsInPlace, FoundAsAccepted
  <2> QED
    BY <2>2, <2>3
<1>c. "PROVIDER_QUERY_FAILED" \in Codes
  BY DEF Codes
<1>4. CASE SelectSourceObservation
  <2>1. at = "select" /\ at \in Persisting
        /\ UNCHANGED <<observation, tables, doomed, request, others, faults>>
    BY <1>4 DEF SelectSourceObservation, Persisting
  <2>2. CASE sources[Key] = None
    <3>1. ToFail("PROVIDER_QUERY_FAILED")
      BY <1>4, <2>2 DEF SelectSourceObservation
    <3> QED
      BY <1>c, <2>1, <3>1, FailTyped
  <2>3. CASE sources[Key] # None
    <3>1. Accept(sources[Key].id)
      BY <1>4, <2>3 DEF SelectSourceObservation
    <3>2. Key \in SourceKeys
      BY <2>1, InHand
    <3>3. sources[Key].id \in NumberOrNone
      BY <1>b, <2>3, <3>2 DEF SourceRow, NumberOrNone
    <3>4. sources' \in [SourceKeys -> SourceRow \cup {None}] /\ drawn' \in Nat
      BY <1>b, <2>1
    <3> QED
      BY <1>a, <2>1, <3>1, <3>3, <3>4
  <2> QED
    BY <2>2, <2>3
<1>5. CASE PersistFails
  <2>1. ToFail("PROVIDER_QUERY_FAILED") /\ UNCHANGED <<observation, tables, doomed, request>>
    BY <1>5 DEF PersistFails
  <2> QED
    BY <1>c, <2>1, FailTyped
<1> QED
  BY <1>1, <1>2, <1>3, <1>4, <1>5

LEMMA OutcomeTyped ==
  ASSUME Typed, \/ ProvidersDone \/ Save \/ SaveRefused \/ SaveReplyLost \/ Fail
                \/ StatementFails \/ Crash
  PROVE  Typed'
<1> USE DEF tables
<1>a. /\ "CATALOG_QUERY_FAILED" \in Codes /\ "PROVIDER_UNAVAILABLE" \in Codes
      /\ "CANDIDATE_SAVE_FAILED" \in Codes /\ "" \in Codes
  BY DEF Codes
<1>b. ASSUME WriteOutcome
      PROVE  request' \in [status : {"matching", "matched", "no_match", "failed", "deleted"},
                           error : Codes, candidates : Seq(Candidates)]
  BY <1>a, <1>b DEF WriteOutcome, Typed, TypeOK
<1>c. ASSUME Done, UNCHANGED <<observation, tables, doomed>>,
             request' \in [status : {"matching", "matched", "no_match", "failed", "deleted"},
                           error : Codes, candidates : Seq(Candidates)]
      PROVE  Typed'
  <2>1. at' = "done" /\ ranked' = <<>> /\ UNCHANGED <<turn, found>>
    BY <1>c DEF Done
  <2>2. AnswerInHand' /\ at' \in Places
    BY <2>1, NothingInHand DEF Persisting, Places
  <2>3. ranked' \in Seq(Candidates)
    BY <2>1
  <2>4. code' \in Codes
    <3>1. "" \in Codes
      BY <1>a
    <3>2. code' = ""
      BY <1>c DEF Done
    <3> QED
      BY <3>1, <3>2, Zenon
  <2> QED
    BY <1>c, <2>1, <2>2, <2>3, <2>4 DEF Typed, TypeOK, RowsInPlace, FoundAsAccepted
<1>d. request \in [status : {"matching", "matched", "no_match", "failed", "deleted"},
                   error : Codes, candidates : Seq(Candidates)]
  BY DEF Typed, TypeOK
<1>1. CASE ProvidersDone
  <2>1. at = "query" /\ UNCHANGED <<observation, tables, doomed, request, others, faults>>
    BY <1>1 DEF ProvidersDone
  <2>2. CASE answered
    <3>1. /\ at' = "save" /\ ranked' = Ranked(MergeCrossSourceCandidates(found)) /\ code' = code
          /\ UNCHANGED <<turn, answer, answered, found>>
      BY <1>1, <2>2 DEF ProvidersDone, ToSave
    <3>2. ranked' \in Seq(Candidates)
      BY <3>1, MergedType, RankedType
    <3>3. AnswerInHand' /\ at' \in Places
      BY <3>1, NothingInHand DEF Persisting, Places
    <3> QED
      BY <2>1, <3>1, <3>2, <3>3 DEF Typed, TypeOK, RowsInPlace, FoundAsAccepted
  <2>3. CASE ~answered
    <3>1. ToFail("PROVIDER_UNAVAILABLE")
      BY <1>1, <2>3 DEF ProvidersDone
    <3> QED
      BY <1>a, <2>1, <3>1, FailTyped
  <2> QED
    BY <2>2, <2>3
<1>2. CASE Save
  <2>1. WriteOutcome /\ Done /\ UNCHANGED <<observation, tables, doomed>>
    BY <1>2 DEF Save
  <2> QED
    BY <1>b, <1>c, <2>1
<1>3. CASE SaveRefused
  <2>1. ToFail("CANDIDATE_SAVE_FAILED") /\ UNCHANGED <<observation, tables, doomed, request>>
    BY <1>3 DEF SaveRefused
  <2> QED
    BY <1>a, <2>1, FailTyped
<1>4. CASE SaveReplyLost
  <2>1. /\ WriteOutcome /\ ToFail("CANDIDATE_SAVE_FAILED")
        /\ UNCHANGED <<observation, tables, doomed>>
    BY <1>4 DEF SaveReplyLost
  <2>2. at' = "fail" /\ code' \in Codes /\ ranked' = <<>> /\ UNCHANGED <<turn, found>>
    BY <1>a, <2>1 DEF ToFail
  <2>3. AnswerInHand' /\ at' \in Places
    BY <2>2, NothingInHand DEF Persisting, Places
  <2>4. ranked' \in Seq(Candidates)
    BY <2>2
  <2> QED
    BY <1>b, <2>1, <2>2, <2>3, <2>4 DEF Typed, TypeOK, RowsInPlace, FoundAsAccepted
<1>5. CASE Fail
  <2>1. Done /\ UNCHANGED <<observation, tables, doomed>>
    BY <1>5 DEF Fail
  <2>2. request' = IF request.status = "matching"
                     THEN [request EXCEPT !.status = "failed", !.error = code]
                     ELSE request
    BY <1>5 DEF Fail
  <2>3. code \in Codes
    BY DEF Typed, TypeOK
  <2>4. request' \in [status : {"matching", "matched", "no_match", "failed", "deleted"},
                      error : Codes, candidates : Seq(Candidates)]
    BY <1>d, <2>2, <2>3
  <2> QED
    BY <1>c, <2>1, <2>4
<1>6. CASE StatementFails
  <2>1. UNCHANGED <<observation, tables, doomed, request>>
    BY <1>6 DEF StatementFails
  <2>2. \E error \in Codes : ToFail(error)
    BY <1>6, <1>a DEF StatementFails
  <2> QED
    BY <2>1, <2>2, FailTyped
<1>7. CASE Crash
  <2>1. Done /\ UNCHANGED <<observation, tables, doomed, request>>
    BY <1>7 DEF Crash
  <2> QED
    BY <1>c, <1>d, <2>1
<1> QED
  BY <1>1, <1>2, <1>3, <1>4, <1>5, <1>6, <1>7

LEMMA OtherRow ==
  ASSUME OtherSavesRecording
  PROVE  \E row \in Recording : row.id \in RecordingIds
                                /\ recordings' = [recordings EXCEPT ![row.id] = row]
<1>1. PICK row \in Imported \cup
                   UNION {{CatalogRow(p, r) : r \in Results(p)} : p \in DOMAIN Answers} :
         recordings' = [recordings EXCEPT ![row.id] = row]
  BY DEF OtherSavesRecording
<1>2. CASE row \in Imported
  BY <1>1, <1>2, CatalogAssumption DEF RecordingIds
<1>3. CASE row \notin Imported
  <2>1. PICK p \in DOMAIN Answers : \E r \in Results(p) : row = CatalogRow(p, r)
    BY <1>1, <1>3
  <2>2. PICK r \in Results(p) : row = CatalogRow(p, r)
    BY <2>1
  <2> QED
    BY <1>1, <2>2, ResultFacts
<1> QED
  BY <1>2, <1>3

LEMMA OtherSource ==
  ASSUME OtherRecordsSource
  PROVE  \E key \in SourceKeys : sources[key] = None /\ NewSource(key)
<1>1. PICK p \in DOMAIN Answers : \E r \in Results(p) :
         sources[SourceKey(p, r)] = None /\ NewSource(SourceKey(p, r))
  BY DEF OtherRecordsSource
<1>2. PICK r \in Results(p) : sources[SourceKey(p, r)] = None /\ NewSource(SourceKey(p, r))
  BY <1>1
<1>3. SourceKey(p, r) \in SourceKeys
  BY ResultFacts
<1> QED
  BY <1>2, <1>3

LEMMA AroundTyped ==
  ASSUME Typed, Around
  PROVE  Typed'
<1> USE DEF tables, worker
<1>1. CASE OtherSavesRecording
  <2>1. PICK row \in Recording : row.id \in RecordingIds
                                 /\ recordings' = [recordings EXCEPT ![row.id] = row]
    BY <1>1, OtherRow
  <2>2. UNCHANGED <<observation, releases, sources, drawn, doomed, request, worker, faults>>
    BY <1>1 DEF OtherSavesRecording
  <2>3. /\ recordings' \in [RecordingIds -> Recording \cup {None}] /\ RowsInPlace'
        /\ \A i \in RecordingIds : recordings[i] # None => recordings'[i] # None
    BY <2>1, RowReplaced
  <2>4. TypeOK' /\ FoundAsAccepted' /\ AnswerInHand'
    BY <2>2, <2>3 DEF Typed, TypeOK, FoundAsAccepted, AnswerInHand
  <2> QED
    BY <2>3, <2>4 DEF Typed
<1>2. CASE OtherRecordsSource
  <2>1. PICK key \in SourceKeys : NewSource(key)
    BY <1>2, OtherSource
  <2>2. UNCHANGED <<observation, recordings, releases, doomed, request, worker, faults>>
    BY <1>2 DEF OtherRecordsSource
  <2>3. sources' \in [SourceKeys -> SourceRow \cup {None}] /\ drawn' \in Nat
    BY <2>1, SourceAdded
  <2> QED
    BY <2>2, <2>3 DEF Typed, TypeOK, FoundAsAccepted, AnswerInHand, RowsInPlace
<1>3. CASE TimePasses
  <2>1. /\ sources' = [k \in SourceKeys |->
                         IF sources[k] = None THEN None ELSE [sources[k] EXCEPT !.aged = TRUE]]
        /\ UNCHANGED <<observation, recordings, releases, drawn, doomed, request, worker,
                       others, faults>>
    BY <1>3 DEF TimePasses
  <2>2. sources \in [SourceKeys -> SourceRow \cup {None}]
    BY DEF Typed, TypeOK
  <2>3. sources' \in [SourceKeys -> SourceRow \cup {None}]
    BY <2>1, <2>2 DEF SourceRow
  <2> QED
    BY <2>1, <2>3 DEF Typed, TypeOK, FoundAsAccepted, AnswerInHand, RowsInPlace
<1>4. CASE PurgeSelect
  <2>1. /\ doomed' = {sources[k].id : k \in Purgeable}
        /\ UNCHANGED <<observation, tables, request, worker, others, faults>>
    BY <1>4 DEF PurgeSelect
  <2>2. doomed' \in SUBSET Nat
    BY <2>1 DEF Typed, TypeOK, Purgeable, SourceRow
  <2> QED
    BY <2>1, <2>2 DEF Typed, TypeOK, FoundAsAccepted, AnswerInHand, RowsInPlace
<1>5. CASE PurgeCommit
  <2>1. /\ sources' = IF doomed \cap Referenced # {} THEN sources
                      ELSE [k \in SourceKeys |->
                              IF sources[k] # None /\ sources[k].id \in doomed
                                THEN None ELSE sources[k]]
        /\ doomed' = {}
        /\ UNCHANGED <<observation, recordings, releases, drawn, request, worker, others, faults>>
    BY <1>5 DEF PurgeCommit
  <2>2. sources' \in [SourceKeys -> SourceRow \cup {None}]
    BY <2>1 DEF Typed, TypeOK
  <2> QED
    BY <2>1, <2>2 DEF Typed, TypeOK, FoundAsAccepted, AnswerInHand, RowsInPlace
<1>6. CASE DeleteClient
  <2>1. /\ request' = [status |-> "deleted", error |-> "", candidates |-> <<>>]
        /\ UNCHANGED <<observation, tables, doomed, worker, others, faults>>
    BY <1>6 DEF DeleteClient
  <2>2. "" \in Codes /\ <<>> \in Seq(Candidates)
    BY DEF Codes
  <2>3. request' \in [status : {"matching", "matched", "no_match", "failed", "deleted"},
                      error : Codes, candidates : Seq(Candidates)]
    BY <2>1, <2>2
  <2> QED
    BY <2>1, <2>3 DEF Typed, TypeOK, FoundAsAccepted, AnswerInHand, RowsInPlace
<1> QED
  BY <1>1, <1>2, <1>3, <1>4, <1>5, <1>6 DEF Around

LEMMA TypedStep ==
  ASSUME Typed, [Next]_vars
  PROVE  Typed'
<1>1. CASE RunOnce
  BY <1>1, FindRecordingsTyped, LookupTyped, PersistTyped, OutcomeTyped DEF RunOnce
<1>2. CASE Around
  BY <1>2, AroundTyped
<1>3. CASE UNCHANGED vars
  BY <1>3 DEF vars, tables, worker, Typed, TypeOK, FoundAsAccepted, AnswerInHand, RowsInPlace
<1> QED
  BY <1>1, <1>2, <1>3 DEF Next

-------------------------------------------------------------------------------
(* The steps of the tables: whoever takes them.                            *)

\* What no step undoes: rows of the catalog stay, and a source row is as it was,
\* or it is new and has a new number.
Moves ==
    /\ observation' = observation
    /\ drawn <= drawn'
    /\ \A i \in RecordingIds : recordings[i] # None => recordings'[i] # None
    /\ releases \subseteq releases'
    /\ \A k \in SourceKeys : sources'[k] # None =>
          \/ sources[k] # None /\ sources'[k].id = sources[k].id
          \/ sources'[k].id > drawn

\* The only steps that change a table.
LEMMA WhoMoves ==
  ASSUME Typed, Next
  PROVE  /\ UNCHANGED observation
         /\ \/ UNCHANGED <<recordings, releases, sources, drawn>>
            \/ /\ \E row \in Recording : row.id \in RecordingIds
                                         /\ recordings' = [recordings EXCEPT ![row.id] = row]
               /\ UNCHANGED <<releases, sources, drawn, doomed, request>>
            \/ releases \subseteq releases' /\ UNCHANGED <<recordings, sources, drawn, doomed, request>>
            \/ /\ \E key \in SourceKeys : sources[key] = None /\ NewSource(key)
               /\ UNCHANGED <<recordings, releases, doomed, request>>
            \/ TimePasses
            \/ PurgeCommit
<1> USE DEF tables
<1>1. CASE SaveRecording
  <2>1. /\ at = "persist"
        /\ recordings' = [recordings EXCEPT ![CatalogRow(Source, Result).id] =
                            CatalogRow(Source, Result)]
        /\ UNCHANGED <<observation, releases, sources, drawn, doomed, request>>
    BY <1>1 DEF SaveRecording
  <2>2. Source \in DOMAIN Answers /\ Result \in Results(Source)
    BY <2>1, InHand DEF Persisting
  <2> QED
    BY <2>1, <2>2, ResultFacts
<1>2. CASE SaveRelease
  BY <1>2 DEF SaveRelease
<1>3. CASE CreateSourceObservation
  <2>1. Key \in SourceKeys
    BY <1>3, InHand DEF CreateSourceObservation, Persisting
  <2> QED
    BY <1>3, <2>1 DEF CreateSourceObservation
<1>4. CASE OtherSavesRecording
  BY <1>4, OtherRow DEF OtherSavesRecording
<1>5. CASE OtherRecordsSource
  BY <1>5, OtherSource DEF OtherRecordsSource
<1>6. CASE TimePasses
  BY <1>6 DEF TimePasses
<1>7. CASE PurgeCommit
  BY <1>7 DEF PurgeCommit
<1>8. CASE \/ FindRecordings \/ ReadArtists \/ ProviderFails \/ ProviderAnswers
           \/ SelectSourceObservation \/ PersistFails \/ ProvidersDone
           \/ Save \/ SaveRefused \/ SaveReplyLost \/ Fail \/ StatementFails \/ Crash
           \/ PurgeSelect \/ DeleteClient
  BY <1>8 DEF FindRecordings, ReadArtists, ProviderFails, ProviderAnswers,
              SelectSourceObservation, PersistFails, ProvidersDone, Save, SaveRefused,
              SaveReplyLost, Fail, StatementFails, Crash, PurgeSelect, DeleteClient
<1> QED
  BY <1>1, <1>2, <1>3, <1>4, <1>5, <1>6, <1>7, <1>8 DEF Next, RunOnce, Around

LEMMA TimeMoves ==
  ASSUME Typed, TimePasses
  PROVE  /\ \A k \in SourceKeys :
               /\ sources[k] = None => sources'[k] = None
               /\ sources[k] # None => /\ sources'[k] = [sources[k] EXCEPT !.aged = TRUE]
                                       /\ sources'[k] # None /\ sources'[k].id = sources[k].id
                                       /\ sources'[k].aged
         /\ UNCHANGED <<observation, recordings, releases, drawn, doomed, request>>
<1>1. \A k \in SourceKeys : sources[k] \in SourceRow \cup {None}
  BY DEF Typed, TypeOK
<1>2. /\ \A k \in SourceKeys :
            sources'[k] = IF sources[k] = None THEN None ELSE [sources[k] EXCEPT !.aged = TRUE]
      /\ UNCHANGED <<observation, recordings, releases, drawn, doomed, request>>
  BY DEF TimePasses
<1>3. ASSUME NEW k \in SourceKeys, sources[k] # None
      PROVE  /\ sources'[k] = [sources[k] EXCEPT !.aged = TRUE]
             /\ sources'[k] # None /\ sources'[k].id = sources[k].id /\ sources'[k].aged
  <2>1. sources[k] \in SourceRow /\ sources'[k] = [sources[k] EXCEPT !.aged = TRUE]
    BY <1>1, <1>2, <1>3
  <2>2. sources'[k].id = sources[k].id
    BY <2>1 DEF SourceRow
  <2>3. sources'[k].aged
    BY <2>1 DEF SourceRow
  <2>4. sources'[k] \in SourceRow
    BY <2>1 DEF SourceRow
  <2>5. sources'[k] # None
    BY <2>4, NoneAssumption
  <2> QED
    BY <2>1, <2>2, <2>3, <2>5, Zenon
<1>4. \A k \in SourceKeys : sources[k] = None => sources'[k] = None
  BY <1>2
<1> QED
  BY <1>2, <1>3, <1>4, Zenon

LEMMA PurgeMoves ==
  ASSUME Typed, PurgeCommit
  PROVE  /\ \A k \in SourceKeys :
               \/ sources'[k] = sources[k]
               \/ /\ sources'[k] = None /\ sources[k] # None /\ sources[k].id \in doomed
                  /\ sources[k].id \notin Referenced
         /\ doomed' = {}
         /\ UNCHANGED <<observation, recordings, releases, drawn, request>>
BY DEF PurgeCommit, Typed, TypeOK

LEMMA StepMoves ==
  ASSUME Typed, [Next]_vars
  PROVE  Moves
<1>0. drawn \in Nat /\ \A k \in SourceKeys : sources[k] \in SourceRow \cup {None}
  BY DEF Typed, TypeOK
<1>1. CASE UNCHANGED <<observation, recordings, releases, sources, drawn>>
  BY <1>0, <1>1 DEF Moves
<1>2. CASE /\ \E row \in Recording : row.id \in RecordingIds
                                     /\ recordings' = [recordings EXCEPT ![row.id] = row]
           /\ UNCHANGED <<observation, releases, sources, drawn>>
  <2>1. \A i \in RecordingIds : recordings[i] # None => recordings'[i] # None
    BY <1>2, RowReplaced
  <2> QED
    BY <1>0, <1>2, <2>1 DEF Moves
<1>3. CASE releases \subseteq releases' /\ UNCHANGED <<observation, recordings, sources, drawn>>
  BY <1>0, <1>3 DEF Moves
<1>4. CASE /\ \E key \in SourceKeys : sources[key] = None /\ NewSource(key)
           /\ UNCHANGED <<observation, recordings, releases>>
  <2>1. PICK key \in SourceKeys : sources[key] = None /\ NewSource(key)
    BY <1>4
  <2>2. /\ sources'[key] = [id |-> drawn + 1, aged |-> FALSE]
        /\ \A k \in SourceKeys : k # key => sources'[k] = sources[k]
    BY <2>1, SourceAdded
  <2>3. drawn' = drawn + 1
    BY <2>1 DEF NewSource
  <2>4. sources'[key].id = drawn + 1
    BY <2>2
  <2>5. \A k \in SourceKeys : sources'[k] # None =>
           \/ sources[k] # None /\ sources'[k].id = sources[k].id
           \/ sources'[k].id > drawn
    BY <1>0, <2>2, <2>4
  <2> QED
    BY <1>0, <1>4, <2>3, <2>5 DEF Moves
<1>5. CASE TimePasses
  <2>1. /\ \A k \in SourceKeys : /\ sources[k] = None => sources'[k] = None
                                 /\ sources[k] # None => sources'[k].id = sources[k].id
        /\ UNCHANGED <<observation, recordings, releases, drawn>>
    BY <1>5, TimeMoves, Zenon
  <2> QED
    BY <1>0, <2>1 DEF Moves
<1>6. CASE PurgeCommit
  BY <1>0, <1>6, PurgeMoves DEF Moves
<1>7. CASE UNCHANGED vars
  BY <1>1, <1>7 DEF vars, tables
<1> QED
  BY <1>1, <1>2, <1>3, <1>4, <1>5, <1>6, <1>7, WhoMoves

LEMMA TablesStep ==
  ASSUME Typed, SourcesDistinct, DoomedAreAged, [Next]_vars
  PROVE  SourcesDistinct' /\ DoomedAreAged'
<1>0. /\ drawn \in Nat /\ doomed \in SUBSET Nat
      /\ \A k \in SourceKeys : sources[k] \in SourceRow \cup {None}
      /\ \A k \in SourceKeys : sources[k] # None => sources[k].id \in Nat
  BY DEF Typed, TypeOK, SourceRow
<1>1. CASE UNCHANGED <<sources, drawn, doomed>>
  BY <1>1 DEF SourcesDistinct, DoomedAreAged
<1>2. CASE (\E key \in SourceKeys : sources[key] = None /\ NewSource(key)) /\ UNCHANGED doomed
  <2>1. PICK key \in SourceKeys : sources[key] = None /\ NewSource(key)
    BY <1>2
  <2>2. /\ sources'[key] = [id |-> drawn + 1, aged |-> FALSE]
        /\ \A k \in SourceKeys : k # key => sources'[k] = sources[k]
    BY <2>1, SourceAdded
  <2>3. drawn' = drawn + 1 /\ sources'[key].id = drawn + 1 /\ doomed' = doomed
    BY <1>2, <2>1, <2>2 DEF NewSource
  <2>4. \A k \in SourceKeys : k # key /\ sources'[k] # None =>
           sources[k] # None /\ sources'[k].id = sources[k].id /\ sources'[k].id <= drawn
    BY <2>2 DEF SourcesDistinct
  <2>5. SourcesDistinct'
    <3> SUFFICES ASSUME NEW k \in SourceKeys, sources'[k] # None
                 PROVE  /\ sources'[k].id <= drawn'
                        /\ \A q \in SourceKeys :
                              sources'[q] # None /\ sources'[q].id = sources'[k].id => q = k
      BY DEF SourcesDistinct
    <3>1. CASE k = key
      BY <1>0, <2>3, <2>4, <3>1
    <3>2. CASE k # key
      <4>1. /\ sources[k] # None /\ sources'[k].id = sources[k].id /\ sources'[k].id \in Nat
            /\ sources'[k].id <= drawn
        BY <1>0, <2>4, <3>2
      <4>2. ASSUME NEW q \in SourceKeys, sources'[q] # None, sources'[q].id = sources'[k].id
            PROVE  q = k
        <5>1. q # key
          BY <1>0, <2>3, <4>1, <4>2
        <5> QED
          BY <2>4, <4>1, <4>2, <5>1 DEF SourcesDistinct
      <4> QED
        BY <1>0, <2>3, <4>1, <4>2
    <3> QED
      BY <3>1, <3>2
  <2>6. DoomedAreAged'
    <3>1. \A d \in doomed : d <= drawn /\ d \in Nat
      BY <1>0 DEF DoomedAreAged
    <3>2. \A d \in doomed' : d <= drawn'
      BY <1>0, <2>3, <3>1
    <3>3. ASSUME NEW k \in SourceKeys, sources'[k] # None, sources'[k].id \in doomed'
          PROVE  sources'[k].aged
      <4>1. k # key
        BY <1>0, <2>3, <3>1, <3>3
      <4> QED
        BY <2>2, <2>3, <3>3, <4>1 DEF DoomedAreAged
    <3> QED
      BY <3>2, <3>3 DEF DoomedAreAged
  <2> QED
    BY <2>5, <2>6
<1>3. CASE TimePasses
  <2>1. /\ \A k \in SourceKeys :
              /\ sources[k] = None => sources'[k] = None
              /\ sources[k] # None => /\ sources'[k] # None /\ sources'[k].id = sources[k].id
                                      /\ sources'[k].aged
        /\ drawn' = drawn /\ doomed' = doomed
    BY <1>3, TimeMoves
  <2> QED
    BY <2>1 DEF SourcesDistinct, DoomedAreAged
<1>4. CASE PurgeCommit
  <2>1. /\ \A k \in SourceKeys : sources'[k] = sources[k] \/ sources'[k] = None
        /\ doomed' = {} /\ drawn' = drawn
    BY <1>4, PurgeMoves
  <2> QED
    BY <2>1 DEF SourcesDistinct, DoomedAreAged
<1>5. CASE PurgeSelect
  <2>1. doomed' = {sources[k].id : k \in Purgeable} /\ UNCHANGED <<sources, drawn>>
    BY <1>5 DEF PurgeSelect, tables
  <2>2. \A k \in Purgeable : k \in SourceKeys /\ sources[k] # None /\ sources[k].aged
    BY DEF Purgeable
  <2>3. SourcesDistinct'
    BY <2>1 DEF SourcesDistinct
  <2>4. \A d \in doomed' : d <= drawn'
    BY <2>1, <2>2 DEF SourcesDistinct
  <2>5. ASSUME NEW k \in SourceKeys, sources'[k] # None, sources'[k].id \in doomed'
        PROVE  sources'[k].aged
    <3>1. PICK q \in Purgeable : sources[k].id = sources[q].id
      BY <2>1, <2>5
    <3>2. k = q
      BY <2>1, <2>2, <2>5, <3>1 DEF SourcesDistinct
    <3> QED
      BY <2>1, <2>2, <3>2
  <2> QED
    BY <2>3, <2>4, <2>5 DEF DoomedAreAged
<1>6. CASE Next /\ ~PurgeSelect
  <2>1. \/ UNCHANGED <<sources, drawn, doomed>>
        \/ (\E key \in SourceKeys : sources[key] = None /\ NewSource(key)) /\ UNCHANGED doomed
        \/ TimePasses
        \/ PurgeCommit
    <3>1. CASE UNCHANGED doomed
      BY <1>6, <3>1, WhoMoves
    <3>2. CASE ~UNCHANGED doomed
      BY <1>6, <3>2 DEF Next, RunOnce, Around, FindRecordings, ReadArtists, ProviderFails,
         ProviderAnswers, SaveRecording, SaveRelease, CreateSourceObservation,
         SelectSourceObservation, PersistFails, ProvidersDone, Save, SaveRefused,
         SaveReplyLost, Fail, StatementFails, Crash, OtherSavesRecording, OtherRecordsSource,
         TimePasses, DeleteClient
    <3> QED
      BY <3>1, <3>2
  <2> QED
    BY <1>1, <1>2, <1>3, <1>4, <2>1
<1>7. CASE UNCHANGED vars
  BY <1>1, <1>7 DEF vars, tables
<1> QED
  BY <1>5, <1>6, <1>7

LEMMA HistoryStep ==
  ASSUME Typed, DoomedAreAged, [Next]_vars
  PROVE  \A k \in SourceKeys :
            (sources[k] # None /\ sources'[k] # sources[k]) =>
                \/ sources'[k] = [sources[k] EXCEPT !.aged = TRUE]
                \/ /\ sources'[k] = None
                   /\ sources[k].aged
                   /\ sources[k].id \notin Referenced
<1> SUFFICES ASSUME NEW k \in SourceKeys, sources[k] # None, sources'[k] # sources[k]
             PROVE  \/ sources'[k] = [sources[k] EXCEPT !.aged = TRUE]
                    \/ /\ sources'[k] = None
                       /\ sources[k].aged
                       /\ sources[k].id \notin Referenced
  OBVIOUS
<1>1. CASE TimePasses
  <2>1. sources'[k] = [sources[k] EXCEPT !.aged = TRUE]
    BY <1>1, TimeMoves, Zenon
  <2> QED
    BY <2>1
<1>2. CASE PurgeCommit
  <2>1. /\ sources'[k] = None /\ sources[k] # None /\ sources[k].id \in doomed
        /\ sources[k].id \notin Referenced
    BY <1>2, PurgeMoves
  <2> QED
    BY <2>1 DEF DoomedAreAged
<1>3. CASE \E key \in SourceKeys : sources[key] = None /\ NewSource(key)
  <2>1. PICK key \in SourceKeys : sources[key] = None /\ NewSource(key)
    BY <1>3
  <2>2. k # key
    BY <2>1
  <2>3. sources'[k] = sources[k]
    BY <2>1, <2>2, SourceAdded
  <2> QED
    BY <2>3
<1>4. CASE UNCHANGED sources
  BY <1>4
<1> QED
  BY <1>1, <1>2, <1>3, <1>4, WhoMoves DEF vars, tables

-------------------------------------------------------------------------------
(* What was found names source rows that are about it.                     *)

LEMMA GroundedStays ==
  ASSUME Typed, Typed', Moves, NEW c \in Candidates, Grounded(c)
  PROVE  Grounded(c)'
<1>1. /\ drawn \in Nat /\ drawn' \in Nat /\ drawn <= drawn' /\ observation' = observation
      /\ \A k \in SourceKeys : sources'[k] # None => sources'[k].id \in Nat
  BY DEF Typed, TypeOK, SourceRow, Moves
<1>2. c.patch = GenerateTagPatch(observation', c.recording, c.release)
  BY <1>1 DEF Grounded
<1>3. ASSUME c.observation # None
      PROVE  /\ c.observation <= drawn'
             /\ \A k \in SourceKeys : sources'[k] # None /\ sources'[k].id = c.observation =>
                   k[1] = c.source /\ EntityId[<<k[1], k[2]>>] = c.recording.id
  <2>1. c.observation \in Nat
    BY <1>3 DEF Candidates, CandidateSet, NumberOrNone
  <2>2. c.observation <= drawn
    BY <1>3 DEF Grounded
  <2>3. ASSUME NEW k \in SourceKeys, sources'[k] # None, sources'[k].id = c.observation
        PROVE  k[1] = c.source /\ EntityId[<<k[1], k[2]>>] = c.recording.id
    <3>1. sources[k] # None /\ sources'[k].id = sources[k].id
      BY <1>1, <2>1, <2>2, <2>3 DEF Moves
    <3> QED
      BY <1>3, <2>3, <3>1 DEF Grounded
  <2> QED
    BY <1>1, <2>1, <2>2, <2>3
<1> QED
  BY <1>2, <1>3 DEF Grounded

\* The steps that add to what was found.
LEMMA WhoFinds ==
  ASSUME [Next]_vars
  PROVE  \/ UNCHANGED found
         \/ ReadArtists
         \/ /\ at \in Persisting /\ sources[Key] = None
            /\ NewSource(Key) /\ Accept(drawn + 1) /\ UNCHANGED observation
         \/ /\ at \in Persisting /\ sources[Key] # None
            /\ Accept(sources[Key].id) /\ UNCHANGED <<observation, sources, drawn>>
<1> USE DEF tables, worker
<1>1. CASE CreateSourceObservation
  BY <1>1 DEF CreateSourceObservation, Persisting
<1>2. CASE SelectSourceObservation
  BY <1>2 DEF SelectSourceObservation, Persisting, ToFail
<1>3. CASE \/ FindRecordings \/ ProviderFails \/ ProviderAnswers
           \/ SaveRecording \/ SaveRelease \/ PersistFails \/ ProvidersDone
           \/ Save \/ SaveRefused \/ SaveReplyLost \/ Fail \/ StatementFails \/ Crash
  BY <1>3 DEF FindRecordings, ProviderFails, ProviderAnswers, SaveRecording, SaveRelease,
              PersistFails, ProvidersDone, Save, SaveRefused, SaveReplyLost, Fail,
              StatementFails, Crash, ToFail, Done
<1>4. CASE Around
  BY <1>4 DEF Around, OtherSavesRecording, OtherRecordsSource, TimePasses, PurgeSelect,
              PurgeCommit, DeleteClient
<1>5. CASE UNCHANGED vars
  BY <1>5 DEF vars
<1> QED
  BY <1>1, <1>2, <1>3, <1>4, <1>5 DEF Next, RunOnce

LEMMA KeyFacts ==
  Key[1] = Source /\ EntityId[<<Key[1], Key[2]>>] = CatalogRow(Source, Result).id
BY DEF Key, SourceKey, CatalogRow

LEMMA FoundGrounded ==
  ASSUME Typed, Typed', Tables, [Next]_vars
  PROVE  \A c \in ToSet(found') : Grounded(c)'
<1>1. Moves
  BY StepMoves
<1>2. /\ \A d \in ToSet(found) : d \in Candidates
      /\ drawn \in Nat /\ drawn' \in Nat
      /\ \A k \in SourceKeys : sources[k] # None => sources[k].id \in Nat
  BY DEF Typed, TypeOK, ToSet, SourceRow
<1>3. \A d \in ToSet(found) : Grounded(d)'
  <2> SUFFICES ASSUME NEW d \in ToSet(found) PROVE Grounded(d)'
    OBVIOUS
  <2>1. d \in Candidates /\ Grounded(d)
    BY <1>2 DEF Tables
  <2> QED
    BY <1>1, <2>1, GroundedStays
<1>4. CASE UNCHANGED found
  BY <1>3, <1>4
<1>5. CASE ReadArtists
  <2>1. PICK c \in Candidates :
           /\ AsAccepted(c) /\ found' \in {found, Append(found, c)}
           /\ c.observation = None /\ c.patch = GenerateTagPatch(observation, c.recording, c.release)
    BY <1>5, ReadArtistsFacts
  <2>2. ToSet(found') \subseteq ToSet(found) \cup {c}
    BY <2>1, FoundGrows
  <2>3. observation' = observation
    BY <1>1 DEF Moves
  <2>4. Grounded(c)'
    BY <2>1, <2>3 DEF Grounded
  <2> QED
    BY <1>3, <2>2, <2>4
<1>6. ASSUME NEW id \in NumberOrNone, at \in Persisting, Accept(id), UNCHANGED observation,
             id # None => /\ id <= drawn'
                          /\ \A k \in SourceKeys : sources'[k] # None /\ sources'[k].id = id => k = Key
      PROVE  \A c \in ToSet(found') : Grounded(c)'
  <2>1. PICK c \in Candidates :
           /\ AsAccepted(c) /\ found' \in {found, Append(found, c)}
           /\ c.recording = CatalogRow(Source, Result) /\ c.source = Source
           /\ c.observation = id
           /\ c.patch = GenerateTagPatch(observation, c.recording, c.release)
    BY <1>6, AcceptFacts
  <2>2. ToSet(found') \subseteq ToSet(found) \cup {c}
    BY <2>1, FoundGrows
  <2>3. Grounded(c)'
    <3>1. Key[1] = c.source /\ EntityId[<<Key[1], Key[2]>>] = c.recording.id
      BY <2>1, KeyFacts
    <3> QED
      BY <1>6, <2>1, <3>1 DEF Grounded
  <2> QED
    BY <1>3, <2>2, <2>3
<1>7. CASE /\ at \in Persisting /\ sources[Key] = None
           /\ NewSource(Key) /\ Accept(drawn + 1) /\ UNCHANGED observation
  <2>1. Key \in SourceKeys
    BY <1>7, InHand
  <2>2. \A k \in SourceKeys : k # Key => sources'[k] = sources[k]
    BY <1>7, <2>1, SourceAdded
  <2>3. drawn' = drawn + 1
    BY <1>7 DEF NewSource
  <2>4. ASSUME NEW k \in SourceKeys, sources'[k] # None, sources'[k].id = drawn + 1
        PROVE  k = Key
    <3> SUFFICES ASSUME k # Key PROVE FALSE
      OBVIOUS
    <3>1. sources[k] # None /\ sources[k].id = drawn + 1
      BY <2>2, <2>4
    <3>2. sources[k].id <= drawn
      BY <3>1 DEF Tables, SourcesDistinct
    <3> QED
      BY <1>2, <3>1, <3>2
  <2>5. drawn + 1 \in NumberOrNone /\ drawn + 1 <= drawn'
    BY <1>2, <2>3 DEF NumberOrNone
  <2> QED
    BY <1>6, <1>7, <2>4, <2>5
<1>8. CASE /\ at \in Persisting /\ sources[Key] # None
           /\ Accept(sources[Key].id) /\ UNCHANGED <<observation, sources, drawn>>
  <2>1. Key \in SourceKeys
    BY <1>8, InHand
  <2>2. sources[Key].id \in NumberOrNone /\ sources[Key].id <= drawn'
    BY <1>2, <1>8, <2>1 DEF NumberOrNone, Tables, SourcesDistinct
  <2>3. \A k \in SourceKeys : sources'[k] # None /\ sources'[k].id = sources[Key].id => k = Key
    BY <1>8, <2>1 DEF Tables, SourcesDistinct
  <2> QED
    BY <1>6, <1>8, <2>2, <2>3
<1> QED
  BY <1>4, <1>5, <1>7, <1>8, WhoFinds

-------------------------------------------------------------------------------
(* What is saved tells what was found.                                     *)

Answering == {"fail", "done"}

\* The steps of the outcome, as far as the answer is concerned.
LEMMA WhoDecides ==
  ASSUME [Next]_vars
  PROVE  \/ UNCHANGED <<at, ranked, found, request>>
         \/ FindRecordings
         \/ ReadArtists
         \/ ProvidersDone
         \/ /\ at = "save" /\ Savable /\ WriteOutcome
            /\ at' \in Answering /\ UNCHANGED <<found, recordings, releases, sources, drawn>>
         \/ /\ at = "fail" /\ at' \in Answering /\ UNCHANGED found
            /\ request'.candidates = request.candidates
            /\ request'.status = "matched" => request.status = "matched"
         \/ DeleteClient
         \/ at \notin Answering /\ at' # "save" /\ request' = request
         \/ at' \in Answering /\ UNCHANGED <<found, request>>
<1> USE DEF tables, worker, Answering
<1>1. CASE ProviderFails \/ ProviderAnswers
  BY <1>1 DEF ProviderFails, ProviderAnswers, Asking
<1>2. CASE SaveRecording \/ SaveRelease
  BY <1>2 DEF SaveRecording, SaveRelease
<1>3. CASE CreateSourceObservation \/ SelectSourceObservation
  BY <1>3 DEF CreateSourceObservation, SelectSourceObservation, Accept, ToFail
<1>4. CASE PersistFails \/ SaveRefused \/ StatementFails \/ Crash
  BY <1>4 DEF PersistFails, SaveRefused, StatementFails, Crash, ToFail, Done
<1>5. CASE Save \/ SaveReplyLost
  BY <1>5 DEF Save, SaveReplyLost, ToFail, Done
<1>6. CASE Fail
  <2>1. /\ at = "fail" /\ at' \in Answering /\ UNCHANGED found
        /\ request' = IF request.status = "matching"
                        THEN [request EXCEPT !.status = "failed", !.error = code]
                        ELSE request
    BY <1>6 DEF Fail, Done
  <2>2. request'.candidates = request.candidates
    BY <2>1
  <2>3. request'.status = "matched" => request.status = "matched"
    BY <2>1
  <2> QED
    BY <2>1, <2>2, <2>3
<1>7. CASE OtherSavesRecording \/ OtherRecordsSource \/ TimePasses \/ PurgeSelect \/ PurgeCommit
  BY <1>7 DEF OtherSavesRecording, OtherRecordsSource, TimePasses, PurgeSelect, PurgeCommit
<1>8. CASE UNCHANGED vars
  BY <1>8 DEF vars
<1> QED
  BY <1>1, <1>2, <1>3, <1>4, <1>5, <1>6, <1>7, <1>8 DEF Next, RunOnce, Around

\* UNIQUE (request_id, recording_id): candidates that can be saved have different
\* recordings.
LEMMA SavableDistinct ==
  ASSUME Savable, NEW S, ranked \in Seq(S)
  PROVE  \A i, j \in DOMAIN ranked : ranked[i].recording.id = ranked[j].recording.id => i = j
<1> DEFINE N   == Len(ranked)
           ids == [i \in 1..N |-> ranked[i].recording.id]
<1>1. N \in Nat /\ DOMAIN ranked = 1..N
  OBVIOUS
<1>2. Ids(ranked) = ids
  BY <1>1 DEF Ids
<1>3. Cardinality(ToSet(ids)) = N
  BY <1>2 DEF Savable
<1> HIDE DEF N
<1>4. ids \in Surjection(1..N, ToSet(ids))
  BY DEF Surjection, ToSet
<1>5. IsFiniteSet(1..N) /\ Cardinality(1..N) = N
  BY <1>1, FS_Interval
<1> DEFINE T == ToSet(ids)
<1> HIDE DEF T
<1>6. ids \in Injection(1..N, T)
  <2>1. ids \in Surjection(1..N, T) /\ Cardinality(T) = Cardinality(1..N)
    BY <1>3, <1>4, <1>5 DEF T
  <2> HIDE DEF ids
  <2> QED
    BY <1>5, <2>1, FS_Surjection
<1>7. \A i, j \in 1..N : ids[i] = ids[j] => i = j
  <2> HIDE DEF ids
  <2> QED
    BY <1>6 DEF Injection, IsInjective
<1>8. \A i \in 1..N : ids[i] = ranked[i].recording.id
  OBVIOUS
<1> QED
  BY <1>1, <1>7, <1>8

LEMMA Nothing == Sorted(<<>>) /\ ToSet(<<>>) = {} /\ DOMAIN <<>> = {}
BY DEF Sorted, ToSet

LEMMA ToldStep ==
  ASSUME Typed, Typed', Told, [Next]_vars
  PROVE  Told'
<1>1. CASE UNCHANGED <<at, ranked, found, request>>
  BY <1>1 DEF Told
<1>2. CASE ReadArtists
  <2>1. found' \in Seq(Candidates)
    BY DEF Typed, TypeOK
  <2>2. at = "artists" /\ request' = request
    BY <1>2 DEF ReadArtists
  <2>3. request.candidates = <<>> /\ request.status # "matched"
    BY <2>2 DEF Told
  <2>4. ASSUME at' = "save" PROVE Sorted(ranked') /\ Tells(ranked', found')
    <3>1. ranked' = Ranked(found')
      BY <1>2, <2>4, ReadArtistsFacts
    <3>2. \A r \in CatalogRows : r.id \in Int
      BY DEF CatalogRows, Recording
    <3>3. Sorted(Ranked(found')) /\ ToSet(Ranked(found')) = ToSet(found')
      BY <2>1, <3>2, RankedTells DEF Candidates
    <3>4. Tells(found', found')
      BY <2>1, TellsItself DEF Candidates
    <3> QED
      BY <3>1, <3>3, <3>4, TellsTransfers
  <2> QED
    BY <2>2, <2>3, <2>4, Nothing DEF Told
<1>3. CASE ProvidersDone
  <2>1. found \in Seq(Candidates) /\ \A i \in 1..Len(found) : AsAccepted(found[i])
    BY MergedType DEF Typed, TypeOK
  <2>2. at = "query" /\ request' = request /\ found' = found
        /\ (at' = "save" => ranked' = Ranked(MergeCrossSourceCandidates(found)))
    BY <1>3 DEF ProvidersDone, ToSave, ToFail
  <2>3. request.candidates = <<>> /\ request.status # "matched"
    BY <2>2 DEF Told
  <2>4. ASSUME at' = "save" PROVE Sorted(ranked') /\ Tells(ranked', found')
    <3> DEFINE merged == MergeCrossSourceCandidates(found)
    <3>1. ranked' = Ranked(merged) /\ merged \in Seq(Candidates)
      BY <2>2, <2>4, MergedType
    <3>2. \A r \in CatalogRows : r.id \in Int
      BY DEF CatalogRows, Recording
    <3>3. Tells(merged, found)
      BY <2>1, MergeTells DEF Candidates
    <3> HIDE DEF merged
    <3>4. Sorted(Ranked(merged)) /\ ToSet(Ranked(merged)) = ToSet(merged)
      BY <3>1, <3>2, RankedTells DEF Candidates
    <3> QED
      BY <2>2, <3>1, <3>3, <3>4, TellsTransfers
  <2> QED
    BY <2>2, <2>3, <2>4, Nothing DEF Told
<1>4. CASE /\ at = "save" /\ Savable /\ WriteOutcome
           /\ at' \in Answering /\ UNCHANGED <<found, recordings, releases, sources, drawn>>
  <2>1. request'.candidates = ranked /\ found' = found /\ at' \in {"fail", "done"}
    BY <1>4 DEF WriteOutcome, Answering
  <2>2. Sorted(ranked) /\ Tells(ranked, found)
    BY <1>4 DEF Told
  <2>3. \A i, j \in DOMAIN ranked : ranked[i].recording.id = ranked[j].recording.id => i = j
    BY <1>4, SavableDistinct DEF Typed, TypeOK
  <2> QED
    BY <2>1, <2>2, <2>3 DEF Told
<1>5. CASE /\ at = "fail" /\ at' \in Answering /\ UNCHANGED found
           /\ request'.candidates = request.candidates
           /\ request'.status = "matched" => request.status = "matched"
  BY <1>5 DEF Told, Answering
<1>6. CASE DeleteClient
  <2>1. request'.candidates = <<>> /\ request'.status = "deleted"
    BY <1>6 DEF DeleteClient
  <2>2. UNCHANGED <<at, ranked, found>>
    BY <1>6 DEF DeleteClient, worker
  <2> QED
    BY <2>1, <2>2, Nothing DEF Told
<1>7. CASE at \notin Answering /\ at' # "save" /\ request' = request
  BY <1>7 DEF Told, Answering
<1>8. CASE at' \in Answering /\ UNCHANGED <<found, request>>
  BY <1>8 DEF Told, Answering
<1>9. CASE FindRecordings
  <2>1. found \in Seq(Candidates)
    BY DEF Typed, TypeOK
  <2>2. at = "lookup" /\ request' = request /\ found' = found
    BY <1>9 DEF FindRecordings
  <2>3. request.candidates = <<>> /\ request.status # "matched"
    BY <2>2 DEF Told
  <2>4. ASSUME at' = "save" PROVE Sorted(ranked') /\ Tells(ranked', found')
    <3>1. ranked' = Ranked(found)
      BY <1>9, <2>4, FindRecordingsFacts
    <3>2. \A r \in CatalogRows : r.id \in Int
      BY DEF CatalogRows, Recording
    <3>3. Sorted(Ranked(found)) /\ ToSet(Ranked(found)) = ToSet(found)
      BY <2>1, <3>2, RankedTells DEF Candidates
    <3>4. Tells(found, found)
      BY <2>1, TellsItself DEF Candidates
    <3> QED
      BY <2>2, <3>1, <3>3, <3>4, TellsTransfers
  <2> QED
    BY <2>2, <2>3, <2>4, Nothing DEF Told
<1> QED
  BY <1>1, <1>2, <1>3, <1>4, <1>5, <1>6, <1>7, <1>8, <1>9, WhoDecides

\* What is stored points to what is there.
LEMMA EvidenceStep ==
  ASSUME Typed, Typed', Tables, Told, EvidenceIsStored, [Next]_vars
  PROVE  EvidenceIsStored'
<1>1. Moves
  BY StepMoves
<1>2. /\ \A c \in ToSet(request.candidates) : c \in Candidates
      /\ \A c \in ToSet(ranked) : c \in Candidates
      /\ \A c \in Candidates : c.recording.id \in RecordingIds
  <2>1. request.candidates \in Seq(Candidates) /\ ranked \in Seq(Candidates)
    BY DEF Typed, TypeOK
  <2>2. ASSUME NEW list \in Seq(Candidates) PROVE \A c \in ToSet(list) : c \in Candidates
    BY DEF ToSet
  <2>3. \A c \in Candidates : c.recording \in CatalogRows
    BY DEF Candidates, CandidateSet
  <2>4. \A c \in Candidates : c.recording.id \in RecordingIds
    BY <2>3 DEF CatalogRows
  <2> QED
    BY <2>1, <2>2, <2>4
<1>3. CASE request'.candidates = request.candidates
  <2> SUFFICES ASSUME NEW c \in ToSet(request.candidates)
               PROVE  /\ recordings'[c.recording.id] # None
                      /\ c.release # None => c.release.id \in releases'
                      /\ c.observation # None =>
                            \E k \in SourceKeys :
                                /\ sources'[k] # None
                                /\ sources'[k].id = c.observation
                                /\ k[1] = c.source
                                /\ EntityId[<<k[1], k[2]>>] = c.recording.id
    BY <1>3 DEF EvidenceIsStored
  <2>1. recordings'[c.recording.id] # None
    BY <1>1, <1>2 DEF EvidenceIsStored, Moves
  <2>2. c.release # None => c.release.id \in releases'
    BY <1>1 DEF EvidenceIsStored, Moves
  <2>3. ASSUME c.observation # None
        PROVE  \E k \in SourceKeys :
                  /\ sources'[k] # None
                  /\ sources'[k].id = c.observation
                  /\ k[1] = c.source
                  /\ EntityId[<<k[1], k[2]>>] = c.recording.id
    <3>1. PICK k \in SourceKeys :
             /\ sources[k] # None
             /\ sources[k].id = c.observation
             /\ k[1] = c.source
             /\ EntityId[<<k[1], k[2]>>] = c.recording.id
      BY <2>3 DEF EvidenceIsStored
    <3>2. sources[k].id \in Referenced
      BY <2>3, <3>1 DEF Referenced
    <3>3. DoomedAreAged
      BY DEF Tables
    <3>4. \/ sources'[k] = sources[k]
          \/ sources'[k] = [sources[k] EXCEPT !.aged = TRUE]
      BY <3>1, <3>2, <3>3, HistoryStep
    <3>5. sources[k] \in SourceRow
      BY <3>1 DEF Typed, TypeOK
    <3>6. /\ [sources[k] EXCEPT !.aged = TRUE] \in SourceRow
          /\ [sources[k] EXCEPT !.aged = TRUE].id = sources[k].id
      BY <3>5 DEF SourceRow
    <3>7. sources'[k] # None /\ sources'[k].id = sources[k].id
      BY <3>4, <3>5, <3>6, NoneAssumption
    <3> QED
      BY <3>1, <3>7
  <2> QED
    BY <2>1, <2>2, <2>3
<1>4. CASE request'.candidates = <<>>
  BY <1>4, Nothing DEF EvidenceIsStored
<1>5. CASE /\ at = "save" /\ Savable /\ WriteOutcome
           /\ UNCHANGED <<recordings, releases, sources, drawn>>
  <2>1. request'.candidates = ranked
    BY <1>5 DEF WriteOutcome
  <2>2. Tells(ranked, found)
    BY <1>5 DEF Told
  <2> SUFFICES ASSUME NEW c \in ToSet(ranked)
               PROVE  /\ recordings[c.recording.id] # None
                      /\ c.release # None => c.release.id \in releases
                      /\ c.observation # None =>
                            \E k \in SourceKeys :
                                /\ sources[k] # None
                                /\ sources[k].id = c.observation
                                /\ k[1] = c.source
                                /\ EntityId[<<k[1], k[2]>>] = c.recording.id
    BY <1>5, <2>1 DEF EvidenceIsStored
  <2>3. /\ recordings[c.recording.id] # None
        /\ c.release # None => c.release.id \in releases
        /\ c.observation # None => c.observation \in SourceIds
    BY <1>5 DEF Savable
  <2>4. PICK d \in ToSet(found) : SameOrigin(c, d)
    BY <2>2 DEF Tells
  <2>5. ASSUME c.observation # None
        PROVE  \E k \in SourceKeys :
                  /\ sources[k] # None
                  /\ sources[k].id = c.observation
                  /\ k[1] = c.source
                  /\ EntityId[<<k[1], k[2]>>] = c.recording.id
    <3>1. PICK k \in SourceKeys : sources[k] # None /\ sources[k].id = c.observation
      BY <2>3, <2>5 DEF SourceIds
    <3>2. Grounded(d)
      BY DEF Tables
    <3> QED
      BY <2>4, <2>5, <3>1, <3>2 DEF Grounded, SameOrigin
  <2> QED
    BY <2>3, <2>5
<1>6. \/ request'.candidates = request.candidates \/ request'.candidates = <<>>
      \/ /\ at = "save" /\ Savable /\ WriteOutcome
         /\ UNCHANGED <<recordings, releases, sources, drawn>>
  <2>1. ASSUME FindRecordings \/ ReadArtists \/ ProvidersDone
        PROVE  request'.candidates = request.candidates
    <3>1. request' = request
      BY <2>1 DEF FindRecordings, ReadArtists, ProvidersDone
    <3> QED
      BY <3>1
  <2>2. ASSUME DeleteClient PROVE request'.candidates = <<>>
    <3>1. request' = [status |-> "deleted", error |-> "", candidates |-> <<>>]
      BY <2>2 DEF DeleteClient
    <3> QED
      BY <3>1, Zenon
  <2>3. CASE ~ (FindRecordings \/ ReadArtists \/ ProvidersDone \/ DeleteClient)
    BY <2>3, WhoDecides
  <2> QED
    BY <2>1, <2>2, <2>3
<1> QED
  BY <1>3, <1>4, <1>5, <1>6

-------------------------------------------------------------------------------
(* The catalog names a recording once.                                     *)

LEMMA FindRecordingsDistinct ==
  ASSUME Typed, FindRecordings
  PROVE  \A i, j \in DOMAIN answer' : answer'[i].id = answer'[j].id => i = j
<1> DEFINE title == NormalizeText(observation.title)
           ids   == {j \in RecordingIds : /\ recordings[j] # None
                                          /\ NormalizeText(recordings[j].title) = title}
           rows  == {recordings[i] : i \in ids}
<1>1. answer' \in SetToSeqs(rows)
  BY DEF FindRecordings
<1>2. \A row \in rows : row = recordings[row.id]
  BY DEF Typed, RowsInPlace
<1> HIDE DEF rows, ids, title
<1>3. /\ answer' \in [1..Cardinality(rows) -> rows]
      /\ \A i, j \in 1..Cardinality(rows) : answer'[i] = answer'[j] => i = j
  BY <1>1 DEF SetToSeqs, IsInjective
<1> QED
  BY <1>2, <1>3

LEMMA ReadArtistsDistinct ==
  ASSUME Typed, NamedOnce, ReadArtists
  PROVE  /\ \A i, j \in DOMAIN answer' : answer'[i].id = answer'[j].id => i = j
         /\ \A i, j \in DOMAIN found' : found'[i].recording.id = found'[j].recording.id => i = j
         /\ \A i \in DOMAIN found', j \in DOMAIN answer' : found'[i].recording.id # answer'[j].id
<1>1. PICK c \in Candidates :
         found' \in {found, Append(found, c)} /\ c.recording.id = Head(answer).id
  BY ReadArtistsFacts
<1>2. answer' = Tail(answer) /\ at = "artists"
  BY ReadArtistsFacts DEF ReadArtists
<1>3. answer \in Seq(Recording) /\ answer # <<>> /\ found \in Seq(Candidates)
  BY <1>2 DEF Typed, TypeOK, AnswerInHand
<1>4. /\ \A i, j \in DOMAIN answer : answer[i].id = answer[j].id => i = j
      /\ \A i, j \in DOMAIN found : found[i].recording.id = found[j].recording.id => i = j
      /\ \A i \in DOMAIN found, j \in DOMAIN answer : found[i].recording.id # answer[j].id
  BY <1>2 DEF NamedOnce
<1>5. /\ DOMAIN answer = 1..Len(answer) /\ Len(answer) \in Nat /\ Len(answer) >= 1
      /\ DOMAIN answer' = 1..(Len(answer) - 1)
      /\ \A j \in 1..(Len(answer) - 1) : answer'[j] = answer[j + 1] /\ j + 1 \in DOMAIN answer
      /\ Head(answer) = answer[1] /\ 1 \in DOMAIN answer
  BY <1>2, <1>3
<1>6. ASSUME NEW i \in DOMAIN answer', NEW j \in DOMAIN answer', answer'[i].id = answer'[j].id
      PROVE  i = j
  <2>1. answer[i + 1].id = answer[j + 1].id
    BY <1>5, <1>6
  <2>2. i + 1 = j + 1
    BY <1>4, <1>5, <2>1
  <2>3. i \in Int /\ j \in Int
    BY <1>5
  <2> QED
    BY <2>2, <2>3
<1>7. \A j \in DOMAIN answer' : answer'[j].id # c.recording.id
  BY <1>1, <1>4, <1>5
<1>8. CASE found' = found
  <2>1. \A i \in DOMAIN found', j \in DOMAIN answer' : found'[i].recording.id # answer'[j].id
    BY <1>4, <1>5, <1>8
  <2> QED
    BY <1>4, <1>6, <1>8, <2>1
<1>9. CASE found' = Append(found, c)
  <2>1. /\ Len(found) \in Nat /\ DOMAIN found = 1..Len(found)
        /\ DOMAIN found' = 1..(Len(found) + 1)
        /\ \A i \in DOMAIN found : found'[i] = found[i]
        /\ found'[Len(found) + 1] = c
    BY <1>3, <1>9
  <2>2. \A i \in DOMAIN found : found[i].recording.id # c.recording.id
    BY <1>1, <1>4, <1>5
  <2>3. \A i \in DOMAIN found' : i \in DOMAIN found \/ i = Len(found) + 1
    BY <2>1
  <2>4. \A i, j \in DOMAIN found' : found'[i].recording.id = found'[j].recording.id => i = j
    BY <1>4, <2>1, <2>2, <2>3
  <2>5. \A i \in DOMAIN found', j \in DOMAIN answer' : found'[i].recording.id # answer'[j].id
    <3>1. \A i \in DOMAIN found, j \in DOMAIN answer' : found[i].recording.id # answer'[j].id
      BY <1>4, <1>5
    <3>2. \A j \in DOMAIN answer' : found'[Len(found) + 1].recording.id # answer'[j].id
      BY <1>7, <2>1
    <3> QED
      BY <2>1, <2>3, <3>1, <3>2, Zenon
  <2> QED
    BY <1>6, <2>4, <2>5
<1> QED
  BY <1>1, <1>8, <1>9

LEMMA WhoReads ==
  ASSUME [Next]_vars
  PROVE  \/ FindRecordings \/ ReadArtists
         \/ UNCHANGED <<at, answer, found>>
         \/ at' \notin {"lookup", "artists"}
<1> USE DEF tables, worker
<1>1. CASE ProviderFails \/ ProviderAnswers
  BY <1>1 DEF ProviderFails, ProviderAnswers, Asking
<1>2. CASE SaveRecording \/ SaveRelease
  BY <1>2 DEF SaveRecording, SaveRelease
<1>3. CASE CreateSourceObservation \/ SelectSourceObservation
  BY <1>3 DEF CreateSourceObservation, SelectSourceObservation, Accept, ToFail
<1>4. CASE PersistFails \/ SaveRefused \/ StatementFails \/ Crash
  BY <1>4 DEF PersistFails, SaveRefused, StatementFails, Crash, ToFail, Done
<1>5. CASE ProvidersDone \/ Save \/ SaveReplyLost \/ Fail
  BY <1>5 DEF ProvidersDone, Save, SaveReplyLost, Fail, ToSave, ToFail, Done
<1>6. CASE Around
  BY <1>6 DEF Around, OtherSavesRecording, OtherRecordsSource, TimePasses, PurgeSelect,
              PurgeCommit, DeleteClient
<1>7. CASE UNCHANGED vars
  BY <1>7 DEF vars
<1> QED
  BY <1>1, <1>2, <1>3, <1>4, <1>5, <1>6, <1>7 DEF Next, RunOnce

LEMMA NamedOnceStep ==
  ASSUME Typed, NamedOnce, [Next]_vars
  PROVE  NamedOnce'
<1>1. CASE FindRecordings
  <2>1. at = "lookup" /\ found' = found /\ at' # "lookup"
    BY <1>1, FindRecordingsFacts DEF FindRecordings
  <2>2. found' = <<>>
    BY <2>1 DEF NamedOnce
  <2>3. DOMAIN found' = {}
    BY <2>2
  <2> QED
    BY <1>1, <2>1, <2>3, FindRecordingsDistinct DEF NamedOnce
<1>2. CASE ReadArtists
  <2>1. at' # "lookup"
    BY <1>2, ReadArtistsFacts
  <2> QED
    BY <1>2, <2>1, ReadArtistsDistinct DEF NamedOnce
<1>3. CASE UNCHANGED <<at, answer, found>>
  BY <1>3 DEF NamedOnce
<1>4. CASE at' \notin {"lookup", "artists"}
  BY <1>4 DEF NamedOnce
<1> QED
  BY <1>1, <1>2, <1>3, <1>4, WhoReads

-------------------------------------------------------------------------------
(* What the catalog is asked for is enough.                                *)

\* The rows whose artists are to be read have the observed title.
TitlesAgree ==
    at = "artists" => \A row \in ToSet(answer) :
        NormalizeText(row.title) = NormalizeText(observation.title)

LEMMA TitlesAgreeStep ==
  ASSUME Typed, TitlesAgree, [Next]_vars
  PROVE  TitlesAgree'
<1>1. observation' = observation
  BY StepMoves DEF Moves
<1>2. CASE FindRecordings
  <2> DEFINE title == NormalizeText(observation.title)
             rows  == {recordings[i] : i \in
                         {j \in RecordingIds : /\ recordings[j] # None
                                              /\ NormalizeText(recordings[j].title) = title}}
  <2>1. answer' \in SetToSeqs(rows) /\ \A row \in rows : NormalizeText(row.title) = title
    BY <1>2 DEF FindRecordings
  <2> HIDE DEF rows
  <2>2. \A row \in ToSet(answer') : row \in rows
    BY <2>1 DEF SetToSeqs, ToSet
  <2> QED
    BY <1>1, <2>1, <2>2 DEF TitlesAgree
<1>3. CASE ReadArtists
  <2>1. at = "artists" /\ answer' = Tail(answer)
    BY <1>3 DEF ReadArtists
  <2>2. answer \in Seq(Recording) /\ answer # <<>>
    BY <2>1 DEF Typed, AnswerInHand
  <2>3. ToSet(answer') \subseteq ToSet(answer)
    <3>1. /\ Len(answer) \in Nat /\ DOMAIN answer = 1..Len(answer)
          /\ DOMAIN Tail(answer) = 1..(Len(answer) - 1)
          /\ \A i \in 1..(Len(answer) - 1) : Tail(answer)[i] = answer[i + 1]
      BY <2>2
    <3>2. \A i \in 1..(Len(answer) - 1) : i + 1 \in 1..Len(answer)
      BY <3>1
    <3> QED
      BY <2>1, <3>1, <3>2 DEF ToSet
  <2> QED
    BY <1>1, <2>1, <2>3 DEF TitlesAgree
<1>4. CASE UNCHANGED <<at, answer, found>>
  BY <1>1, <1>4 DEF TitlesAgree
<1>5. CASE at' \notin {"lookup", "artists"}
  BY <1>5 DEF TitlesAgree
<1> QED
  BY <1>2, <1>3, <1>4, <1>5, WhoReads

\* From the catalog's rows only the last of them leads to the providers.
LEMMA WhoLeaves ==
  ASSUME [Next]_vars, at = "artists"
  PROVE  ReadArtists \/ at' # "query"
<1> USE DEF tables, worker
<1>1. CASE \/ FindRecordings \/ ProviderFails \/ ProviderAnswers
           \/ SaveRecording \/ SaveRelease \/ CreateSourceObservation
           \/ SelectSourceObservation \/ PersistFails \/ ProvidersDone
           \/ Save \/ SaveRefused \/ SaveReplyLost \/ Fail
  BY <1>1 DEF FindRecordings, ProviderFails, ProviderAnswers, Asking, SaveRecording,
              SaveRelease, CreateSourceObservation, SelectSourceObservation, PersistFails,
              ProvidersDone, Save, SaveRefused, SaveReplyLost, Fail
<1>2. CASE StatementFails \/ Crash
  BY <1>2 DEF StatementFails, Crash, ToFail, Done
<1>3. CASE Around
  BY <1>3 DEF Around, OtherSavesRecording, OtherRecordsSource, TimePasses, PurgeSelect,
              PurgeCommit, DeleteClient
<1>4. CASE UNCHANGED vars
  BY <1>4 DEF vars
<1> QED
  BY <1>1, <1>2, <1>3, <1>4 DEF Next, RunOnce

LEMMA CatalogSuffices ==
  ASSUME Typed, TitlesAgree, [Next]_vars, at = "artists",
         NormalizeText(observation.title) # <<>>
  PROVE  at' # "query"
<1>1. CASE ReadArtists
  <2> DEFINE row == [Head(answer) EXCEPT !.artists = recordings[Head(answer).id].artists]
             scored == ScoreCandidate(observation, row, None)
             c == Candidate(scored, "catalog", row, None, None)
  <2>1. answer \in Seq(Recording) /\ answer # <<>> /\ found \in Seq(Candidates)
    BY DEF Typed, TypeOK, AnswerInHand
  <2>2. Head(answer) \in Recording /\ Head(answer) \in ToSet(answer)
    BY <2>1 DEF ToSet
  <2>3. row.title = Head(answer).title /\ row.title \in Text
    BY <2>2 DEF Recording
  <2>4. NormalizeText(row.title) = NormalizeText(observation.title)
    BY <2>2, <2>3 DEF TitlesAgree
  <2>5. found' = Consider("catalog", row, None, None)
        /\ (IF Tail(answer) = <<>> THEN LookupDone(found') ELSE GoOnReading)
    BY <1>1 DEF ReadArtists
  <2> HIDE DEF row
  <2>6. scored.score >= Threshold
    BY <2>3, <2>4, TitleIsEnough, SearchAssumption DEF Typed, TypeOK, TrackObservation
  <2> HIDE DEF scored
  <2>7. found' = Append(found, c)
    <3>1. c.score = scored.score
      BY DEF Candidate
    <3>2. found' = Accepted(c)
      BY <2>5 DEF Consider, scored
    <3> HIDE DEF c
    <3> QED
      BY <2>6, <3>1, <3>2 DEF Accepted
  <2> HIDE DEF c
  <2>8. found' # <<>>
    BY <2>1, <2>7
  <2> QED
    BY <2>5, <2>8 DEF LookupDone, ToSave, GoOnReading
<1>2. CASE at' # "query"
  BY <1>2
<1> QED
  BY <1>1, <1>2, WhoLeaves

-------------------------------------------------------------------------------
(* The queue of Resolution.                                                *)

\* An array or a record of one element.
LEMMA OneElement ==
  ASSUME NEW a, NEW b
  PROVE  /\ <<a>>[1] = a /\ [<<a>> EXCEPT ![1] = b] = <<b>>
         /\ [worker |-> a]["worker"] = a
         /\ [[worker |-> a] EXCEPT !["worker"] = b] = [worker |-> b]
<1>1. <<a>>[1] = a /\ [<<a>> EXCEPT ![1] = b] = <<b>>
  OBVIOUS
<1>2. [worker |-> a]["worker"] = a
  OBVIOUS
<1>3. [[worker |-> a] EXCEPT !["worker"] = b] = [worker |-> b]
  OBVIOUS
<1> QED
  BY <1>1, <1>2, <1>3

LEMMA PhaseFacts ==
  /\ at \in {"lookup", "artists"} => Phase = "lookup"
  /\ at \in {"query"} \cup Persisting => Phase = "providers"
  /\ at = "save" => Phase = "saving"
  /\ at = "fail" => Phase = "failing"
  /\ at = "done" => Phase = "idle"
BY DEF Phase, Persisting

LEMMA NextPhaseFacts ==
  /\ at' \in {"lookup", "artists"} => Phase' = "lookup"
  /\ at' \in {"query"} \cup Persisting => Phase' = "providers"
  /\ at' = "save" => Phase' = "saving"
  /\ at' = "fail" => Phase' = "failing"
  /\ at' = "done" => Phase' = "idle"
BY DEF Phase, Persisting

LEMMA NoIds == Ids(<<>>) = <<>>
BY DEF Ids

LEMMA QueueToSave ==
  ASSUME Phase' = "saving", at # "done", at' # "done", code' = code,
         NEW list, Ids(ranked)' = list
  PROVE  Queue!ToSave("worker", list)
<1>1. UNCHANGED <<[worker |-> IF at = "done" THEN None ELSE 1], [worker |-> code]>>
  OBVIOUS
<1> QED
  BY <1>1, OneElement DEF Queue!ToSave

LEMMA QueueCatalogMatches ==
  ASSUME Phase = "lookup", Phase' = "saving", at # "done", at' # "done",
         Ids(ranked)' \in Queue!CandidateList, Ids(ranked)' # <<>>,
         Queue!NoDuplicate(Ids(ranked)'),
         request' = request, code' = code, faults' = faults
  PROVE  Queue!CatalogMatches("worker")
<1>1. Queue!ToSave("worker", Ids(ranked)')
  BY QueueToSave
<1>2. UNCHANGED <<<<request.status>>, <<request.error>>, <<Ids(request.candidates)>>>>
  BY DEF Ids
<1> QED
  BY <1>1, <1>2, OneElement DEF Queue!CatalogMatches, Queue!rowVars

\* A step that leaves the request alone and takes the worker from one phase to
\* the next: what it answers, or the error code it goes on with.
LEMMA QueueAnswers ==
  ASSUME Phase = "providers", Phase' = "saving", at # "done", at' # "done",
         Ids(ranked)' \in Queue!CandidateList,
         request' = request, code' = code, faults' = faults
  PROVE  Queue!ProvidersAnswer("worker")
<1>1. Queue!ToSave("worker", Ids(ranked)')
  BY QueueToSave
<1>2. UNCHANGED <<<<request.status>>, <<request.error>>, <<Ids(request.candidates)>>>>
  BY DEF Ids
<1> QED
  BY <1>1, <1>2, OneElement DEF Queue!ProvidersAnswer, Queue!rowVars

LEMMA QueueCatalogMisses ==
  ASSUME Phase = "lookup", at # "done", at' # "done",
         \/ Phase' = "providers" /\ Providers # <<>> /\ ranked' = ranked
         \/ Phase' = "saving" /\ Providers = <<>> /\ Ids(ranked)' = <<>>,
         request' = request, code' = code, faults' = faults
  PROVE  Queue!CatalogMisses("worker")
<1>1. UNCHANGED <<<<request.status>>, <<request.error>>, <<Ids(request.candidates)>>>>
  BY DEF Ids
<1>2. CASE Phase' = "saving" /\ Providers = <<>> /\ Ids(ranked)' = <<>>
  <2>1. Queue!ToSave("worker", <<>>)
    BY <1>2, QueueToSave
  <2> QED
    BY <1>1, <1>2, <2>1, OneElement DEF Queue!CatalogMisses, Queue!rowVars
<1>3. CASE Phase' = "providers" /\ Providers # <<>> /\ ranked' = ranked
  <2>1. [worker |-> Phase]' = [[worker |-> Phase] EXCEPT !["worker"] = "providers"]
    BY <1>3, OneElement
  <2>2. UNCHANGED <<[worker |-> IF at = "done" THEN None ELSE 1], [worker |-> Ids(ranked)],
                    [worker |-> code]>>
    BY <1>3 DEF Ids
  <2> QED
    BY <1>1, <1>3, <2>1, <2>2, OneElement DEF Queue!CatalogMisses, Queue!rowVars
<1> QED
  BY <1>2, <1>3

LEMMA QueueToFail ==
  ASSUME Phase' = "failing", at # "done", at' # "done", Ids(ranked)' = <<>>,
         NEW error, code' = error
  PROVE  Queue!ToFail("worker", error)
<1>1. UNCHANGED [worker |-> IF at = "done" THEN None ELSE 1]
  OBVIOUS
<1> QED
  BY <1>1, OneElement DEF Queue!ToFail

LEMMA QueueFails ==
  ASSUME Phase' = "failing", at # "done", at' # "done", Ids(ranked)' = <<>>,
         request' = request
  PROVE  /\ (/\ Phase = "lookup" /\ Fault /\ code' = "CATALOG_QUERY_FAILED")
              => Queue!CatalogFails("worker")
         /\ (/\ Phase = "providers" /\ faults' = faults /\ code' = "PROVIDER_UNAVAILABLE")
              => Queue!ProvidersUnavailable("worker")
         /\ (/\ Phase = "providers" /\ faults' = faults /\ code' = "PROVIDER_QUERY_FAILED")
              => Queue!ProviderPersistFails("worker")
         /\ (/\ Phase = "saving" /\ Fault /\ code' = "CANDIDATE_SAVE_FAILED")
              => Queue!SaveAborts("worker")
         /\ (/\ Phase = "saving" /\ faults' = faults /\ code' = "CANDIDATE_SAVE_FAILED"
             /\ ~Queue!Savable("worker") \/ Ids(ranked) # <<>>)
              => Queue!SaveRefused("worker")
<1>1. UNCHANGED <<<<request.status>>, <<request.error>>, <<Ids(request.candidates)>>>>
  BY DEF Ids
<1>2. Queue!ToFail("worker", code')
  BY QueueToFail
<1>3. Fault => Queue!Fault
  BY DEF Fault, Queue!Fault
<1>4. ASSUME Phase = "lookup", Fault, code' = "CATALOG_QUERY_FAILED"
      PROVE  Queue!CatalogFails("worker")
  BY <1>1, <1>2, <1>3, <1>4, OneElement DEF Queue!CatalogFails, Queue!rowVars
<1>5. ASSUME Phase = "providers", faults' = faults, code' = "PROVIDER_UNAVAILABLE"
      PROVE  Queue!ProvidersUnavailable("worker")
  BY <1>1, <1>2, <1>5, OneElement DEF Queue!ProvidersUnavailable, Queue!rowVars
<1>6. ASSUME Phase = "providers", faults' = faults, code' = "PROVIDER_QUERY_FAILED"
      PROVE  Queue!ProviderPersistFails("worker")
  BY <1>1, <1>2, <1>6, OneElement DEF Queue!ProviderPersistFails, Queue!rowVars
<1>7. ASSUME Phase = "saving", Fault, code' = "CANDIDATE_SAVE_FAILED"
      PROVE  Queue!SaveAborts("worker")
  BY <1>1, <1>2, <1>3, <1>7, OneElement DEF Queue!SaveAborts, Queue!rowVars
<1>8. ASSUME Phase = "saving", faults' = faults, code' = "CANDIDATE_SAVE_FAILED",
             ~Queue!Savable("worker") \/ Ids(ranked) # <<>>
      PROVE  Queue!SaveRefused("worker")
  BY <1>1, <1>2, <1>8, OneElement DEF Queue!SaveRefused, Queue!rowVars
<1> QED
  BY <1>4, <1>5, <1>6, <1>7, <1>8

LEMMA QueueIdle ==
  ASSUME Done
  PROVE  Queue!Idle("worker")
<1>1. at' = "done" /\ ranked' = <<>> /\ code' = ""
  BY DEF Done
<1>2. Phase' = "idle" /\ Ids(ranked)' = <<>>
  <2>1. Ids(ranked)' = Ids(ranked')
    BY DEF Ids
  <2>2. ranked' = <<>>
    BY <1>1
  <2> QED
    BY <1>1, <2>1, <2>2, NoIds, NextPhaseFacts, Zenon
<1>3. [worker |-> IF at = "done" THEN None ELSE 1]' = [worker |-> None]
  BY <1>1
<1> QED
  BY <1>1, <1>2, <1>3, OneElement DEF Queue!Idle

LEMMA QueueCrashes ==
  ASSUME Done, Fault, request' = request,
         Phase \in {"lookup", "providers", "saving", "failing"}
  PROVE  Queue!Crash("worker")
<1>1. UNCHANGED <<<<request.status>>, <<request.error>>, <<Ids(request.candidates)>>>>
  BY DEF Ids
<1> QED
  BY <1>1, QueueIdle, OneElement DEF Queue!Crash, Queue!rowVars, Fault, Queue!Fault

\* What Queue's rows are after the outcome has been written.
LEMMA QueueWriteOutcome ==
  ASSUME request.status \in {"matching", "matched", "no_match", "failed"}, WriteOutcome
  PROVE  Queue!WriteOutcome(1, Ids(ranked))
<1>1. /\ request'.status = IF Ids(ranked) = <<>> THEN "no_match" ELSE "matched"
      /\ request'.candidates = ranked
  <2>1. ranked = <<>> <=> Ids(ranked) = <<>>
    BY DEF Ids
  <2>2. /\ request'.status = IF ranked = <<>> THEN "no_match" ELSE "matched"
        /\ request'.candidates = ranked
    BY DEF WriteOutcome
  <2> QED
    BY <2>1, <2>2
<1>2. request'.error = ""
  BY DEF WriteOutcome
<1>3. <<request.status>>' = [<<request.status>> EXCEPT ![1] =
                                IF Ids(ranked) = <<>> THEN "no_match" ELSE "matched"]
  BY <1>1, OneElement
<1>4. <<request.error>>' = [<<request.error>> EXCEPT ![1] = ""]
  BY <1>2, OneElement
<1>5. <<Ids(request.candidates)>>' = [<<Ids(request.candidates)>> EXCEPT ![1] = Ids(ranked)]
  <2>1. Ids(request.candidates)' = Ids(ranked)
    BY <1>1 DEF Ids
  <2> QED
    BY <2>1, OneElement
<1>6. /\ UNCHANGED <<IF request.status = "deleted" THEN None ELSE <<"client", "key">>>>
  BY <1>1
<1> QED
  BY <1>3, <1>4, <1>5, <1>6 DEF Queue!WriteOutcome

LEMMA QueueSavable ==
  ASSUME request.status \in {"matching", "matched", "no_match", "failed"}, at = "save",
         \A i, j \in DOMAIN ranked : ranked[i].recording.id = ranked[j].recording.id => i = j
  PROVE  Queue!Savable("worker")
<1>1. Queue!Exists(1)
  BY OneElement DEF Queue!Exists, Queue!Live, Queue!Terminal
<1>2. Queue!NoDuplicate(Ids(ranked))
  BY DEF Queue!NoDuplicate, Ids
<1> QED
  BY <1>1, <1>2, OneElement DEF Queue!Savable

LEMMA QueueSaves ==
  ASSUME at = "save", WriteOutcome, Queue!Savable("worker"),
         request.status \in {"matching", "matched", "no_match", "failed"}
  PROVE  /\ Done /\ faults' = faults => Queue!Save("worker")
         /\ (/\ Fault /\ at' = "fail" /\ code' = "CANDIDATE_SAVE_FAILED" /\ ranked' = <<>>)
              => Queue!SaveReplyLost("worker")
<1>1. Queue!WriteOutcome(1, Ids(ranked)) /\ Phase = "saving"
  BY QueueWriteOutcome, PhaseFacts
<1>2. UNCHANGED [client |-> IF request.status = "deleted" THEN "deleted" ELSE "revoked"]
  <2>1. request'.status \in {"no_match", "matched"}
    BY DEF WriteOutcome
  <2> QED
    BY <2>1
<1>3. [worker |-> IF at = "done" THEN None ELSE 1]["worker"] = 1
      /\ [worker |-> Ids(ranked)]["worker"] = Ids(ranked)
  BY OneElement
<1>4. ASSUME Done, faults' = faults PROVE Queue!Save("worker")
  BY <1>1, <1>2, <1>3, <1>4, QueueIdle, OneElement DEF Queue!Save
<1>5. ASSUME Fault, at' = "fail", code' = "CANDIDATE_SAVE_FAILED", ranked' = <<>>
      PROVE  Queue!SaveReplyLost("worker")
  <2>1. Ids(ranked)' = <<>>
    BY <1>5, NoIds DEF Ids
  <2>2. Queue!ToFail("worker", "CANDIDATE_SAVE_FAILED")
    BY <1>5, <2>1, NextPhaseFacts, QueueToFail
  <2> QED
    BY <1>1, <1>2, <1>3, <1>5, <2>2, OneElement
       DEF Queue!SaveReplyLost, Fault, Queue!Fault
<1> QED
  BY <1>4, <1>5

LEMMA QueueFail ==
  ASSUME Typed, Fail
  PROVE  Queue!Fail("worker")
<1>1. /\ at = "fail" /\ Done /\ faults' = faults
      /\ request' = IF request.status = "matching"
                      THEN [request EXCEPT !.status = "failed", !.error = code]
                      ELSE request
  BY DEF Fail
<1>2. Phase = "failing" /\ Queue!Idle("worker")
  BY <1>1, PhaseFacts, QueueIdle
<1>3. [worker |-> IF at = "done" THEN None ELSE 1]["worker"] = 1
      /\ [worker |-> code]["worker"] = code
  BY <1>1, OneElement
<1>4. CASE request.status = "matching"
  <2>1. request \in [status : {"matching", "matched", "no_match", "failed", "deleted"},
                     error : Codes, candidates : Seq(Candidates)]
    BY DEF Typed, TypeOK
  <2>2. /\ request'.status = "failed" /\ request'.error = code
        /\ request'.candidates = request.candidates
    BY <1>1, <1>4, <2>1
  <2>3. /\ <<request.status>>' = [<<request.status>> EXCEPT ![1] = "failed"]
        /\ <<request.error>>' = [<<request.error>> EXCEPT ![1] = code]
    BY <2>2, OneElement
  <2>4. /\ UNCHANGED <<IF request.status = "deleted" THEN None ELSE <<"client", "key">>>>
        /\ UNCHANGED [client |-> IF request.status = "deleted" THEN "deleted" ELSE "revoked"]
    BY <1>4, <2>2
  <2>5. UNCHANGED <<Ids(request.candidates)>>
    BY <2>2 DEF Ids
  <2>6. <<request.status>>[1] = "matching"
    BY <1>4
  <2> QED
    BY <1>1, <1>2, <1>3, <2>3, <2>4, <2>5, <2>6, OneElement DEF Queue!Fail
<1>5. CASE request.status # "matching"
  <2>1. request' = request
    BY <1>1, <1>5
  <2>2. <<request.status>>[1] # "matching"
    BY <1>5
  <2>3. UNCHANGED <<Ids(request.candidates)>>
    BY <2>1 DEF Ids
  <2> QED
    BY <1>1, <1>2, <1>3, <2>1, <2>2, <2>3, OneElement DEF Queue!Fail
<1> QED
  BY <1>4, <1>5

LEMMA QueueDeletes ==
  ASSUME request.status \in {"matching", "matched", "no_match", "failed"}, DeleteClient
  PROVE  Queue!DeleteClient("client")
<1>1. /\ request'.status = "deleted" /\ request'.candidates = <<>>
      /\ UNCHANGED <<at, ranked, code, faults>>
  BY DEF DeleteClient, worker
<1>2. request'.error = ""
  BY DEF DeleteClient
<1>3. Phase # "claiming" /\ Phase' = Phase
  BY <1>1 DEF Phase
<1>4. Queue!RequestsOf("client") = {1}
  <2>1. Queue!Exists(1)
    BY OneElement DEF Queue!Exists, Queue!Live, Queue!Terminal
  <2>2. <<IF request.status = "deleted" THEN None ELSE <<"client", "key">>>>[1]
          \in {"client"} \X {"key"}
    BY OneElement
  <2> QED
    BY <2>1, <2>2 DEF Queue!RequestsOf
<1>5. ~Queue!Locked(1)
  BY <1>3, OneElement DEF Queue!Locked
<1>6. Queue!RemoveRows({1})
  <2>1. \A x, y : <<y>> = [r \in {1} |-> IF r \in {1} THEN y ELSE <<x>>[r]]
    OBVIOUS
  <2>2. <<request.status>>' = [r \in {1} |-> IF r \in {1} THEN "deleted"
                                            ELSE <<request.status>>[r]]
    BY <1>1, <2>1
  <2>3. <<IF request.status = "deleted" THEN None ELSE <<"client", "key">>>>'
          = [r \in {1} |-> IF r \in {1} THEN None
                          ELSE <<IF request.status = "deleted" THEN None
                                 ELSE <<"client", "key">>>>[r]]
    BY <1>1, <2>1
  <2>4. <<request.error>>' = [r \in {1} |-> IF r \in {1} THEN "" ELSE <<request.error>>[r]]
    BY <1>2, <2>1
  <2>5. <<Ids(request.candidates)>>'
          = [r \in {1} |-> IF r \in {1} THEN <<>> ELSE <<Ids(request.candidates)>>[r]]
    <3>1. Ids(request.candidates)' = <<>>
      BY <1>1, NoIds DEF Ids
    <3> QED
      BY <2>1, <3>1
  <2>6. /\ <<0>>' = [r \in {1} |-> IF r \in {1} THEN 0 ELSE <<0>>[r]]
        /\ <<None>>' = [r \in {1} |-> IF r \in {1} THEN None ELSE <<None>>[r]]
        /\ {}' = {} \ {1}
    BY <2>1
  <2>7. UNCHANGED <<[worker |-> Phase], [worker |-> IF at = "done" THEN None ELSE 1],
                    [worker |-> Ids(ranked)], [worker |-> code], faults>>
    BY <1>1, <1>3 DEF Ids
  <2> QED
    BY <2>2, <2>3, <2>4, <2>5, <2>6, <2>7, Zenon DEF Queue!RemoveRows, Queue!workerVars
<1>7. [client |-> IF request.status = "deleted" THEN "deleted" ELSE "revoked"]'
        = [[client |-> IF request.status = "deleted" THEN "deleted" ELSE "revoked"]
             EXCEPT !["client"] = "deleted"]
  BY <1>1
<1>8. [client |-> IF request.status = "deleted" THEN "deleted" ELSE "revoked"]["client"]
        = "revoked"
  OBVIOUS
<1> QED
  BY <1>4, <1>5, <1>6, <1>7, <1>8 DEF Queue!DeleteClient

LEMMA QueueStutters ==
  ASSUME UNCHANGED <<request, ranked, code, faults>>, Phase' = Phase,
         at' = at \/ (at # "done" /\ at' # "done")
  PROVE  UNCHANGED Queue!vars
<1>1. UNCHANGED <<<<request.status>>, <<request.error>>, <<Ids(request.candidates)>>>>
  BY DEF Ids
<1>2. UNCHANGED <<[worker |-> Phase], [worker |-> Ids(ranked)], [worker |-> code],
                  [worker |-> IF at = "done" THEN None ELSE 1]>>
  BY DEF Ids
<1> QED
  BY <1>1, <1>2 DEF Queue!vars, Queue!rowVars, Queue!workerVars

\* Ranking, which keeps the candidates, keeps their recordings different.
LEMMA DistinctStays ==
  ASSUME NEW S, NEW list \in Seq(S), NEW out \in Seq(S),
         Len(out) = Len(list), ToSet(out) = ToSet(list),
         \A i, j \in DOMAIN list : list[i].recording.id = list[j].recording.id => i = j
  PROVE  \A i, j \in DOMAIN out : out[i].recording.id = out[j].recording.id => i = j
<1> DEFINE N      == Len(list)
           T      == {c.recording.id : c \in ToSet(list)}
           before == [i \in 1..N |-> list[i].recording.id]
           after  == [i \in 1..N |-> out[i].recording.id]
<1>1. N \in Nat /\ DOMAIN list = 1..N /\ DOMAIN out = 1..N
  OBVIOUS
<1>2. before \in Surjection(1..N, T) /\ before \in Injection(1..N, T)
  <2>1. \A i \in 1..N : list[i] \in ToSet(list)
    BY <1>1 DEF ToSet
  <2>2. \A c \in ToSet(list) : \E i \in 1..N : c = list[i]
    BY <1>1 DEF ToSet
  <2> HIDE DEF N
  <2>3. before \in Surjection(1..N, T)
    BY <2>1, <2>2 DEF Surjection
  <2>4. \A i, j \in 1..N : before[i] = before[j] => i = j
    BY <1>1
  <2> QED
    BY <2>3, <2>4 DEF Surjection, Injection, IsInjective
<1>3. after \in Surjection(1..N, T)
  <2>1. \A i \in 1..N : out[i] \in ToSet(list)
    BY <1>1 DEF ToSet
  <2>2. \A c \in ToSet(list) : \E i \in 1..N : c = out[i]
    BY <1>1 DEF ToSet
  <2> HIDE DEF N
  <2> QED
    BY <1>1, <2>1, <2>2 DEF Surjection
<1>4. IsFiniteSet(1..N)
  BY <1>1, FS_Interval
<1> HIDE DEF T, before, after, N
<1>5. Cardinality(T) = Cardinality(1..N)
  BY <1>2, <1>4, FS_Surjection
<1>6. after \in Injection(1..N, T)
  BY <1>3, <1>4, <1>5, FS_Surjection
<1>7. \A i, j \in 1..N : after[i] = after[j] => i = j
  BY <1>6 DEF Injection, IsInjective
<1>8. \A i \in 1..N : after[i] = out[i].recording.id
  BY DEF after
<1> QED
  BY <1>1, <1>7, <1>8

LEMMA IdsListed ==
  ASSUME NEW list \in Seq(Candidates)
  PROVE  /\ Len(list) <= MaxCandidates => Ids(list) \in Queue!CandidateList
         /\ list # <<>> => Ids(list) # <<>>
<1>1. Len(list) \in Nat /\ DOMAIN list = 1..Len(list) /\ DOMAIN Ids(list) = 1..Len(list)
  BY DEF Ids
<1>2. \A i \in DOMAIN list : list[i].recording.id \in RecordingIds
  <2>1. \A i \in DOMAIN list : list[i] \in Candidates
    OBVIOUS
  <2>2. \A c \in Candidates : c.recording \in CatalogRows
    BY DEF Candidates, CandidateSet
  <2>3. \A r \in CatalogRows : r.id \in RecordingIds
    BY DEF CatalogRows
  <2> QED
    BY <2>1, <2>2, <2>3
<1>3. Ids(list) \in [1..Len(list) -> RecordingIds]
  BY <1>1, <1>2 DEF Ids
<1>4. ASSUME Len(list) <= MaxCandidates PROVE Ids(list) \in Queue!CandidateList
  <2>1. Len(list) \in 0..MaxCandidates
    BY <1>1, <1>4, BoundAssumption
  <2> QED
    BY <1>3, <2>1 DEF Queue!CandidateList
<1>5. ASSUME list # <<>> PROVE Ids(list) # <<>>
  <2>1. 1 \in DOMAIN Ids(list)
    BY <1>1, <1>5
  <2> QED
    BY <2>1
<1> QED
  BY <1>4, <1>5

\* The lookup's steps: read on, ask the providers, or answer.
LEMMA FollowLookup ==
  ASSUME Typed, Typed', NamedOnce, FindRecordings \/ ReadArtists, Len(ranked') <= MaxCandidates
  PROVE  \/ UNCHANGED Queue!vars
         \/ Queue!CatalogMatches("worker") \/ Queue!CatalogMisses("worker")
<1>1. /\ at \in {"lookup", "artists"} /\ Phase = "lookup" /\ at # "done"
      /\ request' = request /\ faults' = faults
  BY PhaseFacts DEF FindRecordings, ReadArtists
<1>2. /\ \/ at' = "save" /\ ranked' = Ranked(found') /\ (found' # <<>> \/ Providers = <<>>)
         \/ at' = "query" /\ ranked' = ranked /\ Providers # <<>>
         \/ at' = "artists" /\ ranked' = ranked
      /\ code' = code
  <2>1. CASE FindRecordings
    <3>1. found' = found
      BY <2>1 DEF FindRecordings
    <3> QED
      BY <2>1, <3>1, FindRecordingsFacts
  <2>2. CASE ReadArtists
    BY <2>2, ReadArtistsFacts
  <2> QED
    BY <2>1, <2>2
<1>3. CASE at' = "artists"
  <2>1. Phase' = Phase /\ ranked' = ranked
    BY <1>1, <1>2, <1>3, NextPhaseFacts
  <2> QED
    BY <1>1, <1>2, <1>3, <2>1, QueueStutters
<1>4. CASE at' = "query"
  <2>1. Phase' = "providers" /\ ranked' = ranked /\ Providers # <<>>
    BY <1>2, <1>4, NextPhaseFacts
  <2> QED
    BY <1>1, <1>2, <1>4, <2>1, QueueCatalogMisses
<1>5. CASE at' = "save"
  <2>1. Phase' = "saving" /\ ranked' = Ranked(found') /\ (found' # <<>> \/ Providers = <<>>)
    BY <1>2, <1>5, NextPhaseFacts
  <2>2. found' \in Seq(Candidates) /\ ranked' \in Seq(Candidates)
    BY DEF Typed, TypeOK
  <2>3. Len(ranked') = Len(found') /\ ToSet(ranked') = ToSet(found')
    <3>1. \A r \in CatalogRows : r.id \in Int
      BY DEF CatalogRows, Recording
    <3>2. Len(Ranked(found')) = Len(found') /\ ToSet(Ranked(found')) = ToSet(found')
      BY <2>2, <3>1, RankedTells DEF Candidates
    <3> QED
      BY <2>1, <3>2
  <2>4. Ids(ranked)' = Ids(ranked')
    BY DEF Ids
  <2>5. CASE found' = <<>>
    <3>1. ranked' = <<>>
      BY <2>2, <2>3, <2>5
    <3>2. Ids(ranked)' = <<>>
      BY <2>4, <3>1, NoIds
    <3> QED
      BY <1>1, <1>2, <1>5, <2>1, <2>5, <3>2, QueueCatalogMisses
  <2>6. CASE found' # <<>>
    <3>1. ReadArtists
      <4>1. FindRecordings => found' = found /\ at = "lookup"
        BY DEF FindRecordings
      <4> QED
        BY <2>6, <4>1 DEF NamedOnce
    <3>2. \A i, j \in DOMAIN found' : found'[i].recording.id = found'[j].recording.id => i = j
      BY <3>1, ReadArtistsDistinct
    <3>3. \A i, j \in DOMAIN ranked' : ranked'[i].recording.id = ranked'[j].recording.id => i = j
      BY <2>2, <2>3, <3>2, DistinctStays
    <3>4. Queue!NoDuplicate(Ids(ranked)')
      BY <2>4, <3>3 DEF Queue!NoDuplicate, Ids
    <3>5. ranked' # <<>>
      BY <2>2, <2>3, <2>6
    <3>6. Ids(ranked)' \in Queue!CandidateList /\ Ids(ranked)' # <<>>
      BY <2>2, <2>4, <3>5, IdsListed
    <3> QED
      BY <1>1, <1>2, <1>5, <2>1, <3>4, <3>6, QueueCatalogMatches
  <2> QED
    BY <2>5, <2>6
<1> QED
  BY <1>2, <1>3, <1>4, <1>5

\* While the providers are asked and their results are stored, nothing happens to
\* the queue, unless a statement fails.
LEMMA FollowProviders ==
  ASSUME \/ ProviderFails \/ ProviderAnswers \/ SaveRecording \/ SaveRelease
         \/ CreateSourceObservation \/ SelectSourceObservation \/ PersistFails
  PROVE  UNCHANGED Queue!vars \/ Queue!ProviderPersistFails("worker")
<1> USE DEF tables
<1>1. /\ at \in {"query"} \cup Persisting /\ request' = request /\ faults' = faults
      /\ \/ at' \in {"query"} \cup Persisting /\ UNCHANGED <<ranked, code>>
         \/ at' = "fail" /\ code' = "PROVIDER_QUERY_FAILED" /\ ranked' = <<>>
  <2>1. CASE ProviderFails \/ ProviderAnswers
    BY <2>1 DEF ProviderFails, ProviderAnswers, Asking, Persisting
  <2>2. CASE SaveRecording \/ SaveRelease
    BY <2>2 DEF SaveRecording, SaveRelease, Persisting
  <2>3. CASE CreateSourceObservation
    BY <2>3 DEF CreateSourceObservation, Accept, Persisting
  <2>4. CASE SelectSourceObservation
    BY <2>4 DEF SelectSourceObservation, Accept, ToFail, Persisting
  <2>5. CASE PersistFails
    BY <2>5 DEF PersistFails, ToFail, Persisting
  <2> QED
    BY <2>1, <2>2, <2>3, <2>4, <2>5
<1>2. Phase = "providers" /\ at # "done"
  BY <1>1, PhaseFacts DEF Persisting
<1>3. CASE at' \in {"query"} \cup Persisting /\ UNCHANGED <<ranked, code>>
  <2>1. Phase' = Phase /\ at' # "done"
    BY <1>2, <1>3, NextPhaseFacts DEF Persisting
  <2> QED
    BY <1>1, <1>2, <1>3, <2>1, QueueStutters
<1>4. CASE at' = "fail" /\ code' = "PROVIDER_QUERY_FAILED" /\ ranked' = <<>>
  <2>1. Phase' = "failing" /\ at' # "done" /\ Ids(ranked)' = <<>>
    BY <1>4, NextPhaseFacts, NoIds DEF Ids
  <2> QED
    BY <1>1, <1>2, <1>4, <2>1, QueueFails
<1> QED
  BY <1>1, <1>3, <1>4

LEMMA FollowProvidersDone ==
  ASSUME Typed', ProvidersDone, Len(ranked') <= MaxCandidates
  PROVE  Queue!ProvidersAnswer("worker") \/ Queue!ProvidersUnavailable("worker")
<1>1. /\ at = "query" /\ request' = request /\ faults' = faults
      /\ \/ at' = "save" /\ code' = code
         \/ at' = "fail" /\ code' = "PROVIDER_UNAVAILABLE" /\ ranked' = <<>>
  BY DEF ProvidersDone, ToSave, ToFail
<1>2. Phase = "providers" /\ at # "done"
  BY <1>1, PhaseFacts
<1>3. CASE at' = "save" /\ code' = code
  <2>1. Ids(ranked)' = Ids(ranked') /\ Phase' = "saving"
    BY <1>3, NextPhaseFacts DEF Ids
  <2>2. Ids(ranked)' \in Queue!CandidateList
    BY <2>1, IdsListed DEF Typed, TypeOK
  <2> QED
    BY <1>1, <1>2, <1>3, <2>1, <2>2, QueueAnswers
<1>4. CASE at' = "fail" /\ code' = "PROVIDER_UNAVAILABLE" /\ ranked' = <<>>
  <2>1. Phase' = "failing" /\ at' # "done" /\ Ids(ranked)' = <<>>
    BY <1>4, NextPhaseFacts, NoIds DEF Ids
  <2> QED
    BY <1>1, <1>2, <1>4, <2>1, QueueFails
<1> QED
  BY <1>1, <1>3, <1>4

RequestStatus == {"matching", "matched", "no_match", "failed"}

\* The outcome's steps.
LEMMA FollowOutcome ==
  ASSUME Typed, Save \/ SaveReplyLost \/ SaveRefused \/ Fail \/ StatementFails \/ Crash
  PROVE  \/ Queue!Save("worker") \/ Queue!SaveReplyLost("worker")
         \/ Queue!SaveRefused("worker") \/ Queue!SaveAborts("worker")
         \/ Queue!Fail("worker") \/ Queue!CatalogFails("worker") \/ Queue!Crash("worker")
<1>1. /\ request.status \in RequestStatus \cup {"deleted"}
      /\ ranked \in Seq(Candidates) /\ at \in Places
  BY DEF Typed, TypeOK, RequestStatus
<1>2. CASE Save \/ SaveReplyLost
  <2>1. /\ at = "save" /\ WriteOutcome /\ Savable
        /\ \/ Done /\ faults' = faults
           \/ /\ Fault /\ at' = "fail" /\ code' = "CANDIDATE_SAVE_FAILED" /\ ranked' = <<>>
    BY <1>2 DEF Save, SaveReplyLost, ToFail
  <2>2. request.status \in RequestStatus
    BY <1>1, <2>1 DEF Savable
  <2>3. Queue!Savable("worker")
    BY <1>1, <2>1, <2>2, SavableDistinct, QueueSavable DEF RequestStatus
  <2> QED
    BY <2>1, <2>2, <2>3, QueueSaves DEF RequestStatus
<1>3. CASE SaveRefused
  <2>1. /\ at = "save" /\ ~Savable /\ request' = request /\ faults' = faults
        /\ at' = "fail" /\ code' = "CANDIDATE_SAVE_FAILED" /\ ranked' = <<>>
    BY <1>3 DEF SaveRefused, ToFail
  <2>2. /\ Phase = "saving" /\ Phase' = "failing" /\ at # "done" /\ at' # "done"
        /\ Ids(ranked)' = <<>>
    BY <2>1, PhaseFacts, NextPhaseFacts, NoIds DEF Ids
  <2>3. ~Queue!Savable("worker") \/ Ids(ranked) # <<>>
    <3>1. CASE request.status = "deleted"
      <4>1. ~Queue!Exists(1)
        BY <3>1, OneElement DEF Queue!Exists, Queue!Live, Queue!Terminal
      <4>2. [worker |-> IF at = "done" THEN None ELSE 1]["worker"] = 1
        BY <2>2, OneElement
      <4> QED
        BY <4>1, <4>2 DEF Queue!Savable
    <3>2. CASE request.status # "deleted" /\ ranked = <<>>
      <4>1. ToSet(Ids(ranked)) = {} /\ ToSet(ranked) = {} /\ Len(ranked) = 0
        BY <3>2, NoIds, Nothing
      <4>2. Cardinality(ToSet(Ids(ranked))) = Len(ranked)
        BY <4>1, FS_EmptySet
      <4> QED
        BY <2>1, <3>2, <4>1, <4>2 DEF Savable
    <3>3. CASE ranked # <<>>
      BY <1>1, <3>3, IdsListed
    <3> QED
      BY <3>1, <3>2, <3>3
  <2> QED
    BY <2>1, <2>2, <2>3, QueueFails
<1>4. CASE Fail
  BY <1>4, QueueFail
<1>5. CASE StatementFails
  <2>1. /\ at \in {"lookup", "artists", "save"} /\ Fault /\ request' = request
        /\ at' = "fail" /\ ranked' = <<>>
        /\ code' = IF at = "save" THEN "CANDIDATE_SAVE_FAILED" ELSE "CATALOG_QUERY_FAILED"
    BY <1>5 DEF StatementFails, ToFail
  <2>2. /\ Phase' = "failing" /\ at # "done" /\ at' # "done" /\ Ids(ranked)' = <<>>
        /\ Phase = IF at = "save" THEN "saving" ELSE "lookup"
    BY <2>1, PhaseFacts, NextPhaseFacts, NoIds DEF Ids
  <2>3. CASE at = "save"
    BY <2>1, <2>2, <2>3, QueueFails
  <2>4. CASE at # "save"
    BY <2>1, <2>2, <2>4, QueueFails
  <2> QED
    BY <2>3, <2>4
<1>6. CASE Crash
  <2>1. at # "done" /\ Fault /\ Done /\ request' = request
    BY <1>6 DEF Crash
  <2>2. Phase \in {"lookup", "providers", "saving", "failing"}
    BY <1>1, <2>1, PhaseFacts DEF Places
  <2> QED
    BY <2>1, <2>2, QueueCrashes
<1> QED
  BY <1>2, <1>3, <1>4, <1>5, <1>6

\* Of what goes on around the worker, the queue sees the deletion.
LEMMA FollowAround ==
  ASSUME Typed, Around \/ UNCHANGED vars
  PROVE  UNCHANGED Queue!vars \/ Queue!DeleteClient("client")
<1>1. CASE DeleteClient
  <2>1. request.status \in RequestStatus
    BY <1>1 DEF Typed, TypeOK, RequestStatus, DeleteClient
  <2> QED
    BY <1>1, <2>1, QueueDeletes DEF RequestStatus
<1>2. CASE ~DeleteClient
  <2>1. UNCHANGED <<request, worker, faults>>
    BY <1>2 DEF Around, vars, OtherSavesRecording, OtherRecordsSource, TimePasses,
                PurgeSelect, PurgeCommit
  <2>2. UNCHANGED <<request, ranked, code, faults>> /\ at' = at
    BY <2>1 DEF worker
  <2>3. Phase' = Phase
    BY <2>2 DEF Phase
  <2> QED
    BY <2>2, <2>3, QueueStutters
<1> QED
  BY <1>1, <1>2

LEMMA QueueStep ==
  ASSUME Typed, Typed', NamedOnce, [Next]_vars, Len(ranked') <= MaxCandidates
  PROVE  [Queue!Next]_(Queue!vars)
<1>1. \/ UNCHANGED Queue!vars
      \/ Queue!RunOnce("worker") \/ Queue!WorkerFault("worker") \/ Queue!DeleteClient("client")
  <2>1. CASE FindRecordings \/ ReadArtists
    BY <2>1, FollowLookup DEF Queue!RunOnce
  <2>2. CASE \/ ProviderFails \/ ProviderAnswers \/ SaveRecording \/ SaveRelease
             \/ CreateSourceObservation \/ SelectSourceObservation \/ PersistFails
    BY <2>2, FollowProviders DEF Queue!RunOnce
  <2>3. CASE ProvidersDone
    BY <2>3, FollowProvidersDone DEF Queue!RunOnce
  <2>4. CASE Save \/ SaveReplyLost \/ SaveRefused \/ Fail \/ StatementFails \/ Crash
    BY <2>4, FollowOutcome DEF Queue!RunOnce, Queue!WorkerFault
  <2>5. CASE Around \/ UNCHANGED vars
    BY <2>5, FollowAround
  <2> QED
    BY <2>1, <2>2, <2>3, <2>4, <2>5 DEF Next, RunOnce
<1>2. Queue!DeleteClient("client") => Queue!Web
  BY DEF Queue!Web
<1> QED
  BY <1>1, <1>2 DEF Queue!Next

-------------------------------------------------------------------------------
(* The theorems.                                                           *)

LEMMA InitInductive ==
  ASSUME Init
  PROVE  Inductive
<1>1. Typed
  BY InitTyped
<1>2. SourcesDistinct
  BY InitSources
<1>3. doomed = {} /\ found = <<>> /\ at = "lookup"
  BY DEF Init
<1>4. request.candidates = <<>>
  <2>1. request = [status |-> "matching", error |-> "", candidates |-> <<>>]
    BY DEF Init
  <2> QED
    BY <2>1, Zenon
<1>5. request.status # "matched"
  <2>1. request = [status |-> "matching", error |-> "", candidates |-> <<>>]
    BY DEF Init
  <2>2. request.status = "matching"
    BY <2>1, Zenon
  <2> QED
    BY <2>2
<1>6. DoomedAreAged
  BY <1>3 DEF DoomedAreAged
<1>7. \A c \in ToSet(found) : Grounded(c)
  BY <1>3, Nothing
<1>8. Told
  BY <1>3, <1>4, <1>5, Nothing DEF Told
<1>9. EvidenceIsStored
  BY <1>4, Nothing DEF EvidenceIsStored
<1> QED
  BY <1>1, <1>2, <1>3, <1>6, <1>7, <1>8, <1>9 DEF Inductive, Tables, NamedOnce

LEMMA InductiveStep ==
  ASSUME Inductive, [Next]_vars
  PROVE  Inductive'
<1>1. Typed /\ Tables /\ Told /\ EvidenceIsStored /\ NamedOnce /\ SourcesDistinct /\ DoomedAreAged
  BY DEF Inductive, Tables
<1>2. Typed'
  BY <1>1, TypedStep
<1>3. SourcesDistinct' /\ DoomedAreAged'
  BY <1>1, TablesStep
<1>4. \A c \in ToSet(found') : Grounded(c)'
  BY <1>1, <1>2, FoundGrounded
<1>5. Tables'
  BY <1>3, <1>4 DEF Tables
<1>6. Told'
  BY <1>1, <1>2, ToldStep
<1>7. EvidenceIsStored'
  BY <1>1, <1>2, EvidenceStep
<1>8. NamedOnce'
  BY <1>1, NamedOnceStep
<1> QED
  BY <1>2, <1>5, <1>6, <1>7, <1>8 DEF Inductive

\* The inductive invariant: the worker's rows, results and candidates are what
\* the step it is in expects (RunOnce, worker/service.go), a source row's number
\* is its own, what is accepted is about its source row, and what is saved tells
\* what was accepted.
THEOREM Invariance == Spec => []Inductive
<1>1. Init => Inductive
  BY InitInductive
<1>2. Inductive /\ [Next]_vars => Inductive'
  BY InductiveStep
<1> QED
  BY <1>1, <1>2, PTL DEF Spec

\* Every row, result, candidate and error code has its type, at every step of
\* the search and for every catalog and every answer (RunOnce).
THEOREM TypeCorrect == Spec => []TypeOK
<1>1. Inductive => TypeOK
  BY DEF Inductive, Typed
<1> QED
  BY <1>1, Invariance, PTL

\* What a stored candidate points to is there as long as it is: its recording,
\* its release, and a source row about this recording (SaveResolutionCandidates,
\* PurgeExpired).
THEOREM EvidenceStored == Spec => []EvidenceIsStored
<1>1. Inductive => EvidenceIsStored
  BY DEF Inductive
<1> QED
  BY <1>1, Invariance, PTL

\* No search rewrites a source row, and a purge takes only what is old and what
\* no candidate names (CreateSourceObservation, PurgeExpired).
THEOREM HistoryKept == Spec => HistoryIsKept
<1> DEFINE Kept ==
       \A k \in SourceKeys :
          (sources[k] # None /\ sources'[k] # sources[k]) =>
              \/ sources'[k] = [sources[k] EXCEPT !.aged = TRUE]
              \/ /\ sources'[k] = None
                 /\ sources[k].aged
                 /\ sources[k].id \notin Referenced
<1>1. Inductive /\ [Next]_vars => [Kept]_vars
  <2> SUFFICES ASSUME Inductive, [Next]_vars
               PROVE  Kept
    OBVIOUS
  <2>1. Typed /\ DoomedAreAged
    BY DEF Inductive, Tables
  <2> QED
    BY <2>1, HistoryStep
<1> HIDE DEF Kept
<1>2. Spec => [][Kept]_vars
  BY <1>1, Invariance, PTL DEF Spec
<1> QED
  BY <1>2 DEF HistoryIsKept, Kept

LEMMA RankedAnswer ==
  ASSUME Inductive
  PROVE  AnswerIsRanked
<1> DEFINE stored == request.candidates
<1>1. stored \in Seq(Candidates) /\ found \in Seq(Candidates)
  BY DEF Inductive, Typed, TypeOK
<1>2. /\ Sorted(stored)
      /\ \A i, j \in DOMAIN stored : stored[i].recording.id = stored[j].recording.id => i = j
      /\ request.status = "matched" => Tells(stored, found)
  BY DEF Inductive, Told
<1>3. \A i \in DOMAIN stored : stored[i].recording.id \in Int
  <2>1. \A i \in DOMAIN stored : stored[i] \in Candidates
    BY <1>1
  <2>2. \A c \in Candidates : c.recording \in CatalogRows
    BY DEF Candidates, CandidateSet
  <2>3. \A r \in CatalogRows : r.id \in Int
    BY DEF CatalogRows, Recording
  <2> HIDE DEF stored
  <2> QED
    BY <2>1, <2>2, <2>3
<1> DEFINE S(i) == stored[i].score
           I(i) == stored[i].recording.id
<1>4. \A i, j \in DOMAIN stored : i < j =>
         /\ stored[i].score >= stored[j].score
         /\ stored[i].score = stored[j].score =>
               stored[i].recording.id < stored[j].recording.id
  <2> SUFFICES ASSUME NEW i \in DOMAIN stored, NEW j \in DOMAIN stored, i < j
               PROVE  /\ S(i) >= S(j)
                      /\ S(i) = S(j) => I(i) < I(j)
    OBVIOUS
  <2>1. S(i) >= S(j) /\ (S(i) = S(j) => I(i) <= I(j))
    BY <1>2 DEF Sorted
  <2>2. i \in Nat /\ j \in Nat /\ i # j
    BY <1>1
  <2>3. I(i) # I(j)
    BY <1>2, <2>2
  <2>4. I(i) \in Int /\ I(j) \in Int
    BY <1>3
  <2> HIDE DEF S, I, stored
  <2> QED
    BY <2>1, <2>3, <2>4
<1>5. request.status = "matched" =>
         \A c \in ToSet(found) : \E s \in ToSet(stored) :
            /\ c.sources \subseteq s.sources
            /\ s.score >= c.score
            /\ \/ s.recording.id = c.recording.id
               \/ MergeKey(s.recording) = MergeKey(c.recording)
  BY <1>2 DEF Tells, SpeaksFor
<1> QED
  BY <1>4, <1>5 DEF AnswerIsRanked

\* The stored answer is in order, names a recording once, and has for every
\* accepted result one that speaks for it (CompleteRequest,
\* SaveResolutionCandidates).
THEOREM AnswerRanked == Spec => []AnswerIsRanked
<1>1. Inductive => AnswerIsRanked
  BY RankedAnswer
<1> QED
  BY <1>1, Invariance, PTL

\* A patch that was written back leaves nothing to change when the recording is
\* found again, but for the exceptions PatchSettles names (tag_patch.go).
THEOREM PatchSettled == Spec => []PatchSettles
<1>1. ASSUME Inductive PROVE PatchSettles
  <2>1. observation \in TrackObservation
    BY <1>1, SearchAssumption DEF Inductive, Typed, TypeOK
  <2>2. \A c \in ToSet(found) : c.patch = GenerateTagPatch(observation, c.recording, c.release)
    BY <1>1 DEF Inductive, Tables, Grounded
  <2> SUFFICES ASSUME NEW c \in ToSet(found)
               PROVE  DOMAIN GenerateTagPatch(Patched(c.patch), c.recording, c.release)
                        \subseteq {"isrc"} \cup
                                  IF <<>> \in DOMAIN NormalizedNames(c.recording.artists)
                                    THEN {"artists"} ELSE {}
    BY DEF PatchSettles
  <2>3. c.patch = GenerateTagPatch(observation, c.recording, c.release)
    BY <2>2
  <2> QED
    BY <2>1, <2>3, PatchIsSettled
<1> QED
  BY <1>1, Invariance, PTL

\* Merging the accepted candidates one after the other gives what their keys,
\* scores and sources call for, whatever their number and order
\* (MergeCrossSourceCandidates).
THEOREM MergeRight == Spec => []MergeAgrees
<1>1. ASSUME Inductive PROVE MergeAgrees
  <2>1. /\ found \in Seq(Candidates)
        /\ \A i \in 1..Len(found) : AsAccepted(found[i])
    BY <1>1, MergedType DEF Inductive, Typed, TypeOK
  <2>2. MergedFrom(found, MergeCrossSourceCandidates(found))
    BY <2>1, MergeIsRight DEF Candidates
  <2> QED
    BY <2>2 DEF MergeAgrees
<1> QED
  BY <1>1, Invariance, PTL

\* A recording of the observed title is accepted, whatever else is known of it, so
\* that the providers are not asked; and whatever is accepted has evidence to show
\* (ScoreCandidate, RunOnce).
THEOREM CauseShown == Spec => AcceptedForCause
<1> DEFINE Caused ==
       /\ at = "artists" /\ NormalizeText(observation.title) # <<>> => at' # "query"
       /\ \A c \in ToSet(found') : c.evidence # {}
<1>1. Init => TitlesAgree
  BY DEF Init, TitlesAgree
<1>2. Inductive /\ TitlesAgree /\ [Next]_vars => TitlesAgree'
  BY TitlesAgreeStep DEF Inductive
<1>3. Inductive /\ TitlesAgree /\ [Next]_vars => [Caused]_vars
  <2> SUFFICES ASSUME Inductive, TitlesAgree, [Next]_vars
               PROVE  Caused
    OBVIOUS
  <2>1. Typed /\ Typed'
    BY InductiveStep DEF Inductive
  <2>2. at = "artists" /\ NormalizeText(observation.title) # <<>> => at' # "query"
    BY <2>1, CatalogSuffices
  <2>3. \A c \in ToSet(found') : c.evidence # {}
    BY <2>1 DEF Typed, FoundAsAccepted, AsAccepted
  <2> QED
    BY <2>2, <2>3
<1> HIDE DEF Caused
<1>4. Spec => [][Caused]_vars
  BY <1>1, <1>2, <1>3, Invariance, PTL DEF Spec
<1> QED
  BY <1>4 DEF AcceptedForCause, Caused

LEMMA TextsAlways ==
  ASSUME observation.title \in Text
  PROVE  TextsAgree
<1> DEFINE pieces == UNION {Pieces(NormalizeText(u)) : u \in Titles}
<1>1. \A t \in Titles : t \in Text
  <2>1. ASSUME NEW p \in DOMAIN Answers, NEW r \in Results(p) PROVE r.title \in Text
    BY ResultFacts DEF ProviderResult
  <2> QED
    BY <2>1 DEF Titles
<1>2. \A t \in pieces : t \in Seq(Characters)
  <2>1. ASSUME NEW u \in Seq(Characters), NEW x \in Pieces(u) PROVE x \in Seq(Characters)
    <3>1. PICK w \in (1..Len(u)) \X (1..Len(u)) : x = SubSeq(u, w[1], w[2])
      BY DEF Pieces
    <3>2. w[1] \in 1..Len(u) /\ w[2] \in 1..Len(u)
      OBVIOUS
    <3> QED
      BY <3>1, <3>2
  <2>2. \A u \in Titles : NormalizeText(u) \in Seq(Characters)
    BY <1>1, NormalTextType
  <2> QED
    BY <2>1, <2>2
<1> HIDE DEF pieces
<1>3. ASSUME NEW left \in pieces, NEW right \in pieces, Len(left) <= 3, Len(right) <= 3
      PROVE  EditDistance(left, right) =
               Min({Cost(left, right, p) : p \in Alignments[<<Len(left), Len(right)>>]})
  <2> DEFINE costs == {Cost(left, right, p) : p \in Aligned(Len(left), Len(right))}
  <2>1. Len(left) \in 0..3 /\ Len(right) \in 0..3
    <3>1. Len(left) \in Nat /\ Len(right) \in Nat
      BY <1>2, <1>3
    <3>2. Len(left) <= 3 /\ Len(right) <= 3
      BY <1>3
    <3>3. \A n \in Nat : n <= 3 => n \in 0..3
      OBVIOUS
    <3> QED
      BY <3>1, <3>2, <3>3
  <2>2. Alignments[<<Len(left), Len(right)>>] = Aligned(Len(left), Len(right))
    BY <2>1 DEF Alignments
  <2>3. \A p : Cost(left, right, p) = CostOf(left, right, Len(left), Len(right), p)
    BY DEF Cost, CostOf, Differing
  <2>4. EditDistance(left, right) \in Int /\ Least(EditDistance(left, right), left, right, Len(left), Len(right))
    BY <2>1, EditDistanceType, DistanceIsLeast
  <2>5. costs \subseteq Int
    BY <2>1, <2>3, AlignedIsFinite
  <2>6. /\ EditDistance(left, right) \in costs
        /\ \A c \in costs : EditDistance(left, right) <= c
    BY <2>3, <2>4 DEF Least
  <2> HIDE DEF costs
  <2>7. EditDistance(left, right) = Min(costs)
    BY <2>5, <2>6, LeastMember
  <2> QED
    BY <2>2, <2>7, Zenon DEF costs
<1>4. ASSUME NEW text \in Titles
      PROVE  /\ NormalizeText(NormalizeText(text)) = NormalizeText(text)
             /\ ExtractVersionKeywords(text) =
                  {k \in DOMAIN VersionAliases :
                      {NormalizeText(a) : a \in VersionAliases[k]}
                        \cap Words(NormalizeText(text)) # {}}
  BY <1>1, NormalizedAlready, KeywordsAreWords
<1> QED
  BY <1>3, <1>4, Zenon DEF TextsAgree, pieces

\* For every observation and all answers: the distances are least costs, the
\* titles once normalised stay as they are, and their keywords are words of
\* theirs (scoring.go, normalization.go).
THEOREM TextsRight == Spec => []TextsAgree
<1>1. Inductive => TextsAgree
  BY TextsAlways, SearchAssumption DEF Inductive, Typed, TypeOK, TrackObservation
<1> QED
  BY <1>1, Invariance, PTL

\* Every step of the search, for every catalog and all answers, is one that the
\* queue allows, as long as no list is longer than those the queue is modelled
\* with (RunOnce, worker/service.go).
THEOREM QueueFollowed == Spec /\ [](Len(ranked) <= MaxCandidates) => FollowsQueue
<1> DEFINE Short == Len(ranked) <= MaxCandidates
<1>1. Inductive /\ Inductive' /\ [Next]_vars /\ Short' => [Queue!Next]_(Queue!vars)
  BY QueueStep DEF Inductive
<1> HIDE DEF Short
<1>2. Spec /\ []Short => [][Queue!Next]_(Queue!vars)
  BY <1>1, Invariance, PTL DEF Spec
<1> QED
  BY <1>2 DEF FollowsQueue, Short
===============================================================================
