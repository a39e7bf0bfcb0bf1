--------------------------- MODULE GlobMatchProofs ---------------------------
(***************************************************************************)
(* The loop with one remembered star decides the glob language, for        *)
(* patterns and values of any length.                                      *)
(***************************************************************************)
EXTENDS GlobMatch, Induction

-----------------------------------------------------------------------------
(* The language satisfies its recursive definition.                        *)

\* One step of the definition of Language.
Cell(m, pat, val, fold, i, j) ==
    IF i > Len(pat) THEN j > Len(val)
    ELSE IF pat[i] = "*"
         THEN m[<<i + 1, j>>] \/ (j <= Len(val) /\ m[<<i, j + 1>>])
         ELSE /\ j <= Len(val)
              /\ pat[i] = "?" \/ Same(fold, pat[i], val[j])
              /\ m[<<i + 1, j + 1>>]

\* The places in a string, its end included.
Positions(s) == 1..Len(s) + 1

\* Element k of the pattern is matched from f[k] up to f[k + 1].
Piece(f, pat, val, fold, k) ==
    IF pat[k] = "*" THEN f[k] <= f[k + 1]
    ELSE /\ f[k] <= Len(val)
         /\ pat[k] = "?" \/ Same(fold, pat[k], val[f[k]])
         /\ f[k + 1] = f[k] + 1

\* f divides the value from j on among the elements of the pattern from i on.
Divides(f, pat, val, fold, i, j) ==
    /\ f[i] = j /\ f[Len(pat) + 1] = Len(val) + 1
    /\ \A k \in i..Len(pat) : Piece(f, pat, val, fold, k)

\* Some division exists.
Divisible(pat, val, fold, i, j) ==
    \E f \in [Positions(pat) -> Positions(val)] : Divides(f, pat, val, fold, i, j)

\* Divisibility obeys the equation of the language, so the equation has a
\* solution.
LEMMA DivisibleStar ==
    ASSUME NEW pat, NEW val, NEW fold, Len(pat) \in Nat, Len(val) \in Nat,
           NEW i \in 1..Len(pat), NEW j \in Positions(val), pat[i] = "*"
    PROVE  Divisible(pat, val, fold, i, j) <=>
             \/ Divisible(pat, val, fold, i + 1, j)
             \/ j <= Len(val) /\ Divisible(pat, val, fold, i, j + 1)
<1>. DEFINE F == [Positions(pat) -> Positions(val)]
<1>0. i \in Positions(pat) /\ i + 1 \in Positions(pat) /\ i # i + 1
  BY DEF Positions
<1>1. ASSUME NEW f \in F, Divides(f, pat, val, fold, i, j), f[i + 1] = j
      PROVE  Divisible(pat, val, fold, i + 1, j)
  <2>1. Divides(f, pat, val, fold, i + 1, j)
    BY <1>1 DEF Divides
  <2>. QED
    BY <2>1 DEF Divisible
<1>2. ASSUME NEW f \in F, Divides(f, pat, val, fold, i, j), f[i + 1] # j
      PROVE  j <= Len(val) /\ Divisible(pat, val, fold, i, j + 1)
  <2>1. f[i] = j /\ j < f[i + 1] /\ f[i + 1] \in Positions(val)
    BY <1>0, <1>2 DEF Divides, Piece, Positions
  <2>2. j <= Len(val) /\ j + 1 \in Positions(val)
    BY <2>1 DEF Positions
  <2>. DEFINE g == [f EXCEPT ![i] = j + 1]
  <2>3. g \in F
    BY <2>2
  <2>4. Divides(g, pat, val, fold, i, j + 1)
    <3>1. g[i] = j + 1 /\ \A k \in Positions(pat) : k # i => g[k] = f[k]
      BY <1>0
    <3>2. g[Len(pat) + 1] = Len(val) + 1
      BY <1>2, <3>1 DEF Divides, Positions
    <3>3. ASSUME NEW k \in i..Len(pat) PROVE Piece(g, pat, val, fold, k)
      <4>1. Piece(f, pat, val, fold, k) /\ k + 1 \in Positions(pat) /\ k + 1 # i /\ k \in Positions(pat)
        BY <1>2 DEF Divides, Positions
      <4>2. CASE k = i
        BY <2>1, <2>2, <3>1, <4>1, <4>2 DEF Piece, Positions
      <4>3. CASE k # i
        BY <3>1, <4>1, <4>3 DEF Piece
      <4>. QED
        BY <4>2, <4>3
    <3>. HIDE DEF g
    <3>. QED
      BY <3>1, <3>2, <3>3 DEF Divides
  <2>. QED
    BY <2>2, <2>3, <2>4 DEF Divisible
<1>3. ASSUME NEW f \in F, Divides(f, pat, val, fold, i + 1, j) \/ Divides(f, pat, val, fold, i, j + 1)
      PROVE  Divisible(pat, val, fold, i, j)
  <2>. DEFINE g == [f EXCEPT ![i] = j]
  <2>1. g \in F
    OBVIOUS
  <2>2. g[i] = j /\ \A k \in Positions(pat) : k # i => g[k] = f[k]
    BY <1>0
  <2>3. f[Len(pat) + 1] = Len(val) + 1 /\ \A k \in (i + 1)..Len(pat) : Piece(f, pat, val, fold, k)
    BY <1>3 DEF Divides
  <2>4. j <= f[i + 1]
    <3>1. CASE Divides(f, pat, val, fold, i + 1, j)
      BY <3>1 DEF Divides, Positions
    <3>2. CASE Divides(f, pat, val, fold, i, j + 1)
      <4>1. f[i] = j + 1 /\ f[i] <= f[i + 1]
        BY <3>2 DEF Divides, Piece
      <4>2. f[i + 1] \in Nat
        BY <1>0 DEF Positions
      <4>. QED
        BY <4>1, <4>2 DEF Positions
    <3>. QED
      BY <1>3, <3>1, <3>2
  <2>5. g[Len(pat) + 1] = Len(val) + 1
    BY <2>2, <2>3 DEF Positions
  <2>6. ASSUME NEW k \in i..Len(pat) PROVE Piece(g, pat, val, fold, k)
    <3>1. k + 1 \in Positions(pat) /\ k + 1 # i /\ k \in Positions(pat)
      BY DEF Positions
    <3>2. CASE k = i
      BY <2>2, <2>4, <3>1, <3>2 DEF Piece
    <3>3. CASE k # i
      <4>1. Piece(f, pat, val, fold, k)
        BY <2>3, <3>3
      <4>. QED
        BY <2>2, <3>1, <3>3, <4>1 DEF Piece
    <3>. QED
      BY <3>2, <3>3
  <2>. HIDE DEF g
  <2>7. Divides(g, pat, val, fold, i, j)
    BY <2>2, <2>5, <2>6 DEF Divides
  <2>. QED
    BY <2>1, <2>7 DEF Divisible
<1>. QED
  BY <1>1, <1>2, <1>3, Zenon DEF Divisible

\* The same for a '?' or a literal.
LEMMA DivisibleOne ==
    ASSUME NEW pat, NEW val, NEW fold, Len(pat) \in Nat, Len(val) \in Nat,
           NEW i \in 1..Len(pat), NEW j \in Positions(val), pat[i] # "*"
    PROVE  Divisible(pat, val, fold, i, j) <=>
             /\ j <= Len(val)
             /\ pat[i] = "?" \/ Same(fold, pat[i], val[j])
             /\ Divisible(pat, val, fold, i + 1, j + 1)
<1>. DEFINE F == [Positions(pat) -> Positions(val)]
            Here == pat[i] = "?" \/ Same(fold, pat[i], val[j])
<1>0. i \in Positions(pat) /\ i + 1 \in Positions(pat) /\ i # i + 1
  BY DEF Positions
<1>1. ASSUME NEW f \in F, Divides(f, pat, val, fold, i, j)
      PROVE  j <= Len(val) /\ Here /\ Divisible(pat, val, fold, i + 1, j + 1)
  <2>1. f[i] = j /\ Piece(f, pat, val, fold, i)
    BY <1>1 DEF Divides
  <2>2. j <= Len(val) /\ Here /\ f[i + 1] = j + 1
    BY <2>1 DEF Piece
  <2>3. Divides(f, pat, val, fold, i + 1, j + 1)
    BY <1>1, <2>2 DEF Divides
  <2>. QED
    BY <2>2, <2>3 DEF Divisible
<1>2. ASSUME j <= Len(val), Here, NEW f \in F, Divides(f, pat, val, fold, i + 1, j + 1)
      PROVE  Divisible(pat, val, fold, i, j)
  <2>. DEFINE g == [f EXCEPT ![i] = j]
  <2>1. g \in F
    OBVIOUS
  <2>2. g[i] = j /\ \A k \in Positions(pat) : k # i => g[k] = f[k]
    BY <1>0
  <2>3. /\ f[Len(pat) + 1] = Len(val) + 1 /\ f[i + 1] = j + 1
        /\ \A k \in (i + 1)..Len(pat) : Piece(f, pat, val, fold, k)
    BY <1>2 DEF Divides
  <2>5. g[Len(pat) + 1] = Len(val) + 1
    BY <2>2, <2>3 DEF Positions
  <2>6. ASSUME NEW k \in i..Len(pat) PROVE Piece(g, pat, val, fold, k)
    <3>1. k + 1 \in Positions(pat) /\ k + 1 # i /\ k \in Positions(pat)
      BY DEF Positions
    <3>2. CASE k = i
      <4>1. g[k] = j /\ g[k + 1] = j + 1
        BY <2>2, <2>3, <3>1, <3>2
      <4>. HIDE DEF g
      <4>. QED
        BY <1>2, <3>2, <4>1, Zenon DEF Piece
    <3>3. CASE k # i
      <4>1. Piece(f, pat, val, fold, k)
        BY <2>3, <3>3
      <4>. QED
        BY <2>2, <3>1, <3>3, <4>1 DEF Piece
    <3>. QED
      BY <3>2, <3>3
  <2>. HIDE DEF g
  <2>7. Divides(g, pat, val, fold, i, j)
    BY <2>2, <2>5, <2>6 DEF Divides
  <2>. QED
    BY <2>1, <2>7 DEF Divisible
<1>. QED
  BY <1>1, <1>2, Zenon DEF Divisible

\* The same at the end of the pattern.
LEMMA DivisibleEnd ==
    ASSUME NEW pat, NEW val, NEW fold, Len(pat) \in Nat, Len(val) \in Nat, NEW j \in Positions(val)
    PROVE  Divisible(pat, val, fold, Len(pat) + 1, j) <=> j > Len(val)
<1>1. Divisible(pat, val, fold, Len(pat) + 1, j) => j > Len(val)
  BY DEF Divisible, Divides
<1>2. ASSUME j > Len(val) PROVE Divisible(pat, val, fold, Len(pat) + 1, j)
  <2>1. j = Len(val) + 1
    BY <1>2 DEF Positions
  <2>. DEFINE g == [k \in Positions(pat) |-> j]
  <2>2. g \in [Positions(pat) -> Positions(val)]
    OBVIOUS
  <2>3. Divides(g, pat, val, fold, Len(pat) + 1, j)
    BY <2>1 DEF Divides, Positions
  <2>. QED
    BY <2>2, <2>3 DEF Divisible
<1>. QED
  BY <1>1, <1>2

\* A step of the definition is a truth value.
LEMMA CellIsBoolean ==
    \A m, pat, val, fold, i, j : Cell(m, pat, val, fold, i, j) \in BOOLEAN
<1>. SUFFICES ASSUME NEW m, NEW pat, NEW val, NEW fold, NEW i, NEW j
              PROVE  Cell(m, pat, val, fold, i, j) \in BOOLEAN
  OBVIOUS
<1>1. (j > Len(val)) \in BOOLEAN
  BY SMT
<1>. QED
  BY <1>1, Zenon DEF Cell

\* The language is a solution of its definition at every pair of places.
LEMMA LanguageEquation ==
    ASSUME NEW pat, NEW val, NEW fold, Len(pat) \in Nat, Len(val) \in Nat,
           NEW i \in Positions(pat), NEW j \in Positions(val)
    PROVE  Language(pat, val, fold)[<<i, j>>] = Cell(Language(pat, val, fold), pat, val, fold, i, j)
<1>. DEFINE S == (1..Len(pat) + 1) \X (1..Len(val) + 1)
            Body(m) == [x \in S |-> Cell(m, pat, val, fold, x[1], x[2])]
            d == [x \in S |-> Divisible(pat, val, fold, x[1], x[2])]
<1>1. Language(pat, val, fold) = CHOOSE m : m = Body(m)
  BY DEF Language, Cell
<1>2. d = Body(d)
  <2>. SUFFICES ASSUME NEW k \in Positions(pat), NEW l \in Positions(val)
                PROVE  Divisible(pat, val, fold, k, l) <=> Cell(d, pat, val, fold, k, l)
    <3>1. \A x \in S : Divisible(pat, val, fold, x[1], x[2]) \in BOOLEAN
      BY DEF Divisible
    <3>2. \A x \in S : Cell(d, pat, val, fold, x[1], x[2]) \in BOOLEAN
      BY CellIsBoolean, Zenon
    <3>3. \A x \in S : x[1] \in Positions(pat) /\ x[2] \in Positions(val)
      BY DEF Positions
    <3>4. \A x \in S : Divisible(pat, val, fold, x[1], x[2]) = Cell(d, pat, val, fold, x[1], x[2])
      BY <3>1, <3>2, <3>3, Zenon
    <3>. QED
      BY <3>4
  <2>1. CASE k = Len(pat) + 1
    BY <2>1, DivisibleEnd DEF Cell
  <2>2. CASE k # Len(pat) + 1 /\ pat[k] = "*"
    <3>1. k \in 1..Len(pat) /\ ~(k > Len(pat))
      BY <2>2 DEF Positions
    <3>2. d[<<k + 1, l>>] <=> Divisible(pat, val, fold, k + 1, l)
      BY <3>1 DEF Positions
    <3>3. l <= Len(val) => (d[<<k, l + 1>>] <=> Divisible(pat, val, fold, k, l + 1))
      BY DEF Positions
    <3>4. Divisible(pat, val, fold, k, l) <=>
            \/ Divisible(pat, val, fold, k + 1, l)
            \/ l <= Len(val) /\ Divisible(pat, val, fold, k, l + 1)
      BY <2>2, <3>1, DivisibleStar
    <3>. HIDE DEF d
    <3>. QED
      BY <2>2, <3>1, <3>2, <3>3, <3>4, Zenon DEF Cell
  <2>3. CASE k # Len(pat) + 1 /\ pat[k] # "*"
    <3>1. k \in 1..Len(pat) /\ ~(k > Len(pat))
      BY <2>3 DEF Positions
    <3>2. l <= Len(val) => (d[<<k + 1, l + 1>>] <=> Divisible(pat, val, fold, k + 1, l + 1))
      BY <3>1 DEF Positions
    <3>3. Divisible(pat, val, fold, k, l) <=>
            /\ l <= Len(val)
            /\ pat[k] = "?" \/ Same(fold, pat[k], val[l])
            /\ Divisible(pat, val, fold, k + 1, l + 1)
      BY <2>3, <3>1, DivisibleOne
    <3>. HIDE DEF d
    <3>. QED
      BY <2>3, <3>1, <3>2, <3>3, Zenon DEF Cell
  <2>. QED
    BY <2>1, <2>2, <2>3
<1>3. Language(pat, val, fold) = Body(Language(pat, val, fold))
  <2>. HIDE DEF Body, d
  <2>. QED
    BY <1>1, <1>2, Zenon
<1>4. <<i, j>> \in S
  BY DEF Positions
<1>. QED
  BY <1>3, <1>4

-----------------------------------------------------------------------------
(* Facts about Matches, from that equation.                                *)

\* Beyond the pattern only the end of the value matches.
LEMMA MatchesEnd ==
    ASSUME TypeOK, NEW j \in Positions(value)
    PROVE  Matches(Len(pattern) + 1, j) <=> j = Len(value) + 1
<1>1. /\ Len(pattern) \in Nat /\ Len(value) \in Nat
      /\ Len(pattern) + 1 \in Positions(pattern) /\ Len(pattern) + 1 > Len(pattern)
      /\ j > Len(value) <=> j = Len(value) + 1
  BY DEF TypeOK, Positions
<1>2. Matches(Len(pattern) + 1, j) = Cell(Language(pattern, value, ci), pattern, value, ci, Len(pattern) + 1, j)
  BY <1>1, LanguageEquation DEF Matches
<1>. QED
  BY <1>1, <1>2, Zenon DEF Cell

\* A star matches nothing here, or one character and then matches again.
LEMMA MatchesStar ==
    ASSUME TypeOK, NEW i \in 1..Len(pattern), NEW j \in Positions(value), pattern[i] = "*"
    PROVE  Matches(i, j) <=> Matches(i + 1, j) \/ (j <= Len(value) /\ Matches(i, j + 1))
<1>1. /\ Len(pattern) \in Nat /\ Len(value) \in Nat
      /\ i \in Positions(pattern) /\ ~(i > Len(pattern))
  BY DEF TypeOK, Positions
<1>2. Matches(i, j) = Cell(Language(pattern, value, ci), pattern, value, ci, i, j)
  BY <1>1, LanguageEquation DEF Matches
<1>. QED
  BY <1>1, <1>2, Zenon DEF Cell, Matches

\* Anything else matches one character.
LEMMA MatchesOne ==
    ASSUME TypeOK, NEW i \in 1..Len(pattern), NEW j \in Positions(value), pattern[i] # "*"
    PROVE  Matches(i, j) <=> /\ j <= Len(value)
                             /\ pattern[i] = "?" \/ Same(ci, pattern[i], value[j])
                             /\ Matches(i + 1, j + 1)
<1>1. /\ Len(pattern) \in Nat /\ Len(value) \in Nat
      /\ i \in Positions(pattern) /\ ~(i > Len(pattern))
  BY DEF TypeOK, Positions
<1>2. Matches(i, j) = Cell(Language(pattern, value, ci), pattern, value, ci, i, j)
  BY <1>1, LanguageEquation DEF Matches
<1>. QED
  BY <1>1, <1>2, Zenon DEF Cell, Matches

\* A star matches what the rest matches from some place further on.
LEMMA StarReaches ==
    ASSUME TypeOK, NEW i \in 1..Len(pattern), pattern[i] = "*", NEW j \in Positions(value)
    PROVE  Matches(i, j) <=> \E k \in j..Len(value) + 1 : Matches(i + 1, k)
<1>. DEFINE V == Len(value)
            Reaches(l) == Matches(i, l) <=> \E k \in l..V + 1 : Matches(i + 1, k)
            T == {n \in Nat : n <= V => Reaches(V + 1 - n)}
<1>0. V \in Nat /\ \A n \in Nat : n <= V => V + 1 - n \in Positions(value)
  BY DEF TypeOK, Positions
<1>. HIDE DEF V
<1>1. 0 \in T
  <2>1. V + 1 \in Positions(value) /\ ~(V + 1 <= V) /\ (V + 1)..(V + 1) = {V + 1}
    BY <1>0 DEF Positions, V
  <2>2. Matches(i, V + 1) <=> Matches(i + 1, V + 1)
    BY <2>1, MatchesStar DEF V
  <2>3. Reaches(V + 1)
    BY <2>1, <2>2, Zenon
  <2>4. V + 1 - 0 = V + 1
    BY <1>0
  <2>. QED
    BY <2>3, <2>4
<1>2. ASSUME NEW n \in Nat, n \in T PROVE n + 1 \in T
  <2>. SUFFICES ASSUME n + 1 <= V PROVE Reaches(V + 1 - (n + 1))
    OBVIOUS
  <2>. DEFINE l == V + 1 - (n + 1)
  <2>0. l \in Positions(value)
    BY <1>0
  <2>1. l <= V /\ l + 1 = V + 1 - n /\ n <= V /\ l..V + 1 = {l} \cup (l + 1)..V + 1
    BY <1>0
  <2>. HIDE DEF l
  <2>2. Matches(i, l) <=> Matches(i + 1, l) \/ Matches(i, l + 1)
    BY <2>0, <2>1, MatchesStar DEF V
  <2>3. Reaches(l + 1)
    BY <1>2, <2>1
  <2>4. Reaches(l)
    BY <2>1, <2>2, <2>3, Zenon
  <2>. QED
    BY <2>4 DEF l
<1>3. Nat \subseteq T
  <2>. HIDE DEF T
  <2>. QED
    BY <1>1, <1>2, SetInduction
<1>4. V + 1 - j \in Nat /\ V + 1 - (V + 1 - j) = j
  BY <1>0 DEF Positions, V
<1>5. CASE V + 1 - j <= V
  <2>1. Reaches(V + 1 - (V + 1 - j))
    BY <1>3, <1>4, <1>5
  <2>. QED
    BY <1>4, <2>1 DEF V
<1>6. V + 1 - j <= V
  BY <1>0 DEF Positions, V
<1>. QED
  BY <1>5, <1>6

\* With the value used up, stars are all that may be left.
LEMMA OnlyStars ==
    ASSUME TypeOK, NEW i \in Positions(pattern)
    PROVE  Matches(i, Len(value) + 1) <=> \A k \in i..Len(pattern) : pattern[k] = "*"
<1>. DEFINE P == Len(pattern)
            V == Len(value)
            Stars(l) == Matches(l, V + 1) <=> \A k \in l..P : pattern[k] = "*"
            T == {n \in Nat : n <= P => Stars(P + 1 - n)}
<1>0. P \in Nat /\ V \in Nat /\ V + 1 \in Positions(value) /\ ~(V + 1 <= V)
  BY DEF TypeOK, Positions
<1>. HIDE DEF P, V
<1>1. 0 \in T
  <2>1. Matches(P + 1, V + 1)
    BY <1>0, MatchesEnd DEF P, V
  <2>2. (P + 1)..P = {} /\ P + 1 - 0 = P + 1
    BY <1>0
  <2>3. Stars(P + 1)
    BY <2>1, <2>2
  <2>. QED
    BY <2>2, <2>3
<1>2. ASSUME NEW n \in Nat, n \in T PROVE n + 1 \in T
  <2>. SUFFICES ASSUME n + 1 <= P PROVE Stars(P + 1 - (n + 1))
    OBVIOUS
  <2>. DEFINE l == P + 1 - (n + 1)
  <2>1. l \in 1..P /\ l + 1 = P + 1 - n /\ n <= P /\ l..P = {l} \cup (l + 1)..P
    BY <1>0
  <2>. HIDE DEF l
  <2>2. Stars(l + 1)
    BY <1>2, <2>1
  <2>3. Matches(l, V + 1) <=> pattern[l] = "*" /\ Matches(l + 1, V + 1)
    <3>1. CASE pattern[l] = "*"
      BY <1>0, <2>1, <3>1, MatchesStar DEF P, V
    <3>2. CASE pattern[l] # "*"
      BY <1>0, <2>1, <3>2, MatchesOne DEF P, V
    <3>. QED
      BY <3>1, <3>2
  <2>4. Stars(l)
    BY <2>1, <2>2, <2>3, Zenon
  <2>. QED
    BY <2>4 DEF l
<1>3. Nat \subseteq T
  <2>. HIDE DEF T
  <2>. QED
    BY <1>1, <1>2, SetInduction
<1>4. P + 1 - i \in Nat /\ P + 1 - (P + 1 - i) = i /\ P + 1 - i <= P
  BY <1>0 DEF Positions, P
<1>5. Stars(P + 1 - (P + 1 - i))
  BY <1>3, <1>4
<1>. QED
  BY <1>4, <1>5 DEF P, V

-----------------------------------------------------------------------------
(* One lemma for each step of the loop.                                    *)

\* The cursor of the pattern is on a character of it if At finds one.
LEMMA OnPattern ==
    ASSUME TypeOK
    PROVE  /\ p <= Len(pattern) => At(pattern, p) = pattern[p] /\ p \in 1..Len(pattern)
           /\ At(pattern, p) # "" => p <= Len(pattern)
           /\ Len(pattern) \in Nat /\ Len(value) \in Nat /\ DOMAIN value = 1..Len(value)
           /\ p \in Positions(pattern) /\ v \in Positions(value)
           /\ p \in 1..Len(pattern) => pattern[p] # ""
<1>1. /\ pattern \in Seq(PatternChars) /\ value \in Seq(ValueChars)
      /\ p \in 1..Len(pattern) + 1 /\ v \in 1..Len(value) + 1
  BY DEF TypeOK
<1>2. Len(pattern) \in Nat /\ DOMAIN pattern = 1..Len(pattern)
  BY <1>1
<1>3. Len(value) \in Nat /\ DOMAIN value = 1..Len(value)
  BY <1>1
<1>4. p \in 1..Len(pattern) => pattern[p] \in PatternChars
  BY <1>1
<1>5. p <= Len(pattern) => p \in DOMAIN pattern
  BY <1>1, <1>2
<1>6. p \in DOMAIN pattern => p <= Len(pattern)
  BY <1>1, <1>2
<1>7. p <= Len(pattern) => At(pattern, p) = pattern[p] /\ p \in 1..Len(pattern)
  BY <1>2, <1>5, Zenon DEF At
<1>8. At(pattern, p) # "" => p <= Len(pattern)
  BY <1>6, Zenon DEF At
<1>. QED
  BY <1>1, <1>2, <1>3, <1>4, <1>7, <1>8, NoNul DEF Positions

\* A character that matches is no star, unless it is one in the value too.
LEMMA MatchedIsNoStar ==
    ASSUME TypeOK, StarFree, InValue, CharMatches
    PROVE  /\ p \in 1..Len(pattern) /\ pattern[p] # "*"
           /\ pattern[p] = "?" \/ Same(ci, pattern[p], value[v])
<1>1. At(pattern, p) # "" /\ p <= Len(pattern)
  BY OnPattern DEF CharMatches
<1>2. pattern[p] = "?" \/ Same(ci, pattern[p], value[v])
  BY <1>1, OnPattern DEF CharMatches
<1>3. v \in DOMAIN value /\ value[v] # "*"
  <2>0. v \in Positions(value) /\ Len(value) \in Nat /\ v <= Len(value)
    BY OnPattern, Zenon DEF InValue
  <2>1. v \in 1..Len(value)
    BY <2>0 DEF Positions
  <2>. QED
    BY <2>1, OnPattern DEF StarFree
<1>4. pattern[p] # "*"
  BY <1>2, <1>3 DEF Same, Lower
<1>. QED
  BY <1>1, <1>2, <1>4, OnPattern

\* Where the loop finds a mismatch, nothing matches from the cursors.
LEMMA Mismatch ==
    ASSUME TypeOK, InValue, ~CharMatches, At(pattern, p) # "*"
    PROVE  ~Matches(p, v)
<1>0. /\ v \in Positions(value) /\ Len(value) \in Nat /\ v <= Len(value)
      /\ p \in Positions(pattern) /\ Len(pattern) \in Nat
  BY OnPattern, Zenon DEF InValue
<1>1. v \in Positions(value) /\ v # Len(value) + 1
  BY <1>0 DEF Positions
<1>2. CASE p = Len(pattern) + 1
  BY <1>1, <1>2, MatchesEnd
<1>3. CASE p <= Len(pattern)
  <2>1. pattern[p] # "*" /\ p \in 1..Len(pattern)
    BY <1>3, OnPattern
  <2>2. At(pattern, p) # ""
    BY <1>3, OnPattern
  <2>3. ~(pattern[p] = "?" \/ Same(ci, pattern[p], value[v]))
    BY <1>3, <2>2, OnPattern, Zenon DEF CharMatches
  <2>. QED
    BY <1>1, <2>1, <2>3, MatchesOne
<1>. QED
  BY <1>0, <1>2, <1>3 DEF Positions

\* The loop begins at both ends with no star seen.
LEMMA InitGlob == Init => GlobInv
<1>. SUFFICES ASSUME Init PROVE GlobInv
  OBVIOUS
<1>1. pattern \in Seq(PatternChars) /\ value \in Seq(ValueChars)
  BY GlobBounds DEF Init, Strings
<1>. QED
  BY <1>1 DEF Init, GlobInv, TypeOK, SinceStar, Rigid, LastStarSuffices, GlobIsCorrect

\* The arguments stay as they are.
LEMMA ArgsFixed ==
    ASSUME UNCHANGED args
    PROVE  StarFree' => StarFree
<1>1. pattern' = pattern /\ value' = value /\ ci' = ci
  BY DEF args
<1>. QED
  BY <1>1, Zenon DEF StarFree

\* The numbers of TypeOK alone.
LEMMA Cursors ==
    ASSUME TypeOK
    PROVE  /\ Len(pattern) \in Nat /\ Len(value) \in Nat
           /\ p \in 1..Len(pattern) + 1 /\ v \in 1..Len(value) + 1
           /\ star_p \in 0..Len(pattern) /\ star_v \in 0..Len(value) + 1
  BY OnPattern, Zenon DEF TypeOK

\* One character further in both: what matched the rest still does.
LEMMA AdvancePreserves == GlobInv /\ Advance => GlobInv'
<1>. SUFFICES ASSUME GlobInv, Advance PROVE GlobInv'
  OBVIOUS
<1>0. TypeOK /\ InValue /\ CharMatches
  BY DEF GlobInv, Advance
<1>1. /\ UNCHANGED args /\ pattern' = pattern /\ value' = value /\ ci' = ci
      /\ p' = p + 1 /\ v' = v + 1 /\ star_p' = star_p /\ star_v' = star_v /\ out' = out /\ out = "run"
  BY <1>0, Zenon DEF Advance, args, InValue
<1>2. p <= Len(pattern) /\ v <= Len(value)
  <2>1. At(pattern, p) # "" /\ v <= Len(value)
    BY <1>0 DEF CharMatches, InValue
  <2>. QED
    BY <1>0, <2>1, OnPattern, Zenon
<1>3. TypeOK'
  <2>1. p' \in 1..Len(pattern) + 1 /\ v' \in 1..Len(value) + 1
    BY <1>0, <1>1, <1>2, Cursors
  <2>. QED
    BY <1>0, <1>1, <2>1, Zenon DEF TypeOK
<1>4. SinceStar'
  <2>. SUFFICES ASSUME star_p # 0
                PROVE  /\ pattern[star_p] = "*" /\ star_p < p + 1
                       /\ star_v \in 1..v + 1 /\ (v + 1) - star_v = (p + 1) - (star_p + 1)
    BY <1>1, Zenon DEF SinceStar
  <2>1. pattern[star_p] = "*" /\ star_p < p /\ star_v \in 1..v /\ v - star_v = p - (star_p + 1)
    BY DEF GlobInv, SinceStar
  <2>2. p \in Nat /\ v \in Nat /\ star_p \in Nat
    BY <1>0, Cursors
  <2>3. star_p < p + 1 /\ star_v \in 1..v + 1 /\ (v + 1) - star_v = (p + 1) - (star_p + 1)
    BY <2>1, <2>2
  <2>. QED
    BY <2>1, <2>3
<1>5. ASSUME StarFree PROVE Rigid' /\ LastStarSuffices' /\ GlobIsCorrect'
  <2>1. p \in 1..Len(pattern) /\ pattern[p] # "*" /\ (pattern[p] = "?" \/ Same(ci, pattern[p], value[v]))
    BY <1>0, <1>5, MatchedIsNoStar
  <2>2. Rigid /\ LastStarSuffices
    BY <1>5 DEF GlobInv
  <2>3. Rigid'
    <3>. SUFFICES ASSUME star_p # 0, NEW j \in 1..Len(value) + 1, Matches(star_p + 1, j)
                  PROVE  /\ j + ((v + 1) - star_v) <= Len(value) + 1
                         /\ Matches(p + 1, j + ((v + 1) - star_v))
      BY <1>1, Zenon DEF Rigid, Matches
    <3>. DEFINE k == j + (v - star_v)
    <3>1. k <= Len(value) + 1 /\ Matches(p, k)
      BY <2>2 DEF Rigid
    <3>2. star_v \in 1..v
      BY DEF GlobInv, SinceStar
    <3>3. k \in Positions(value) /\ k + 1 = j + ((v + 1) - star_v)
      BY <1>0, <3>1, <3>2, Cursors DEF Positions
    <3>. HIDE DEF k
    <3>4. k <= Len(value) /\ Matches(p + 1, k + 1)
      BY <1>0, <2>1, <3>1, <3>3, MatchesOne
    <3>5. k \in Nat /\ Len(value) \in Nat
      BY <1>0, <3>3, Cursors DEF Positions
    <3>. QED
      BY <3>3, <3>4, <3>5
  <2>4. Matches(p, v) <=> Matches(p + 1, v + 1)
    BY <1>0, <1>2, <2>1, MatchesOne, OnPattern
  <2>5. LastStarSuffices'
    BY <1>1, <2>2, <2>4, Zenon DEF LastStarSuffices, Matches
  <2>6. GlobIsCorrect'
    BY <1>1 DEF GlobIsCorrect
  <2>. QED
    BY <2>3, <2>5, <2>6
<1>. QED
  BY <1>1, <1>3, <1>4, <1>5, ArgsFixed, Zenon DEF GlobInv

\* A new star takes over from the last one, which it makes superfluous.
LEMMA StarPreserves == GlobInv /\ Star => GlobInv'
<1>. SUFFICES ASSUME GlobInv, Star PROVE GlobInv'
  OBVIOUS
<1>0. TypeOK /\ InValue /\ At(pattern, p) = "*"
  BY DEF GlobInv, Star
<1>1. /\ UNCHANGED args /\ pattern' = pattern /\ value' = value /\ ci' = ci
      /\ p' = p + 1 /\ v' = v /\ star_p' = p /\ star_v' = v /\ out' = out /\ out = "run"
  BY <1>0, Zenon DEF Star, args, InValue
<1>2. p \in 1..Len(pattern) /\ pattern[p] = "*"
  BY <1>0, OnPattern
<1>3. TypeOK'
  <2>1. /\ p' \in 1..Len(pattern) + 1 /\ v' \in 1..Len(value) + 1
        /\ star_p' \in 0..Len(pattern) /\ star_v' \in 0..Len(value) + 1
    BY <1>0, <1>1, <1>2, Cursors
  <2>. QED
    BY <1>0, <1>1, <2>1, Zenon DEF TypeOK
<1>4. SinceStar'
  <2>1. p < p + 1 /\ v \in 1..v /\ v - v = p + 1 - (p + 1)
    BY <1>0, Cursors
  <2>. QED
    BY <1>1, <1>2, <2>1 DEF SinceStar
<1>5. ASSUME StarFree PROVE Rigid' /\ LastStarSuffices' /\ GlobIsCorrect'
  <2>1. Rigid /\ LastStarSuffices
    BY <1>5 DEF GlobInv
  <2>2. Rigid'
    <3>. SUFFICES ASSUME NEW j \in 1..Len(value) + 1, Matches(p + 1, j)
                  PROVE  j + (v - v) <= Len(value) + 1 /\ Matches(p + 1, j + (v - v))
      BY <1>1 DEF Rigid, Matches
    <3>1. j + (v - v) = j /\ j <= Len(value) + 1
      BY <1>0, Cursors
    <3>. QED
      BY <3>1
  <2>3. ASSUME star_p # 0, NEW j \in star_v + 1..Len(value) + 1, Matches(star_p + 1, j)
        PROVE  Matches(p, v)
    <3>. DEFINE k == j + (v - star_v)
    <3>1. star_v \in 1..v
      BY <2>3 DEF GlobInv, SinceStar
    <3>2. j \in 1..Len(value) + 1
      BY <1>0, <2>3, <3>1, Cursors
    <3>3. k <= Len(value) + 1 /\ Matches(p, k)
      BY <2>1, <2>3, <3>2 DEF Rigid
    <3>4. k \in v..Len(value) + 1 /\ k \in Positions(value) /\ v \in Positions(value)
          /\ k..Len(value) + 1 \subseteq v..Len(value) + 1
      BY <1>0, <3>1, <3>2, <3>3, Cursors DEF Positions
    <3>. HIDE DEF k
    <3>5. PICK l \in k..Len(value) + 1 : Matches(p + 1, l)
      BY <1>0, <1>2, <3>3, <3>4, StarReaches
    <3>. QED
      BY <1>0, <1>2, <3>4, <3>5, StarReaches
  <2>4. Matches(p, v) <=> Matches(p + 1, v) \/ \E j \in v + 1..Len(value) + 1 : Matches(p + 1, j)
    <3>1. v \in Positions(value) /\ v..Len(value) + 1 = {v} \cup (v + 1)..Len(value) + 1
      BY <1>0, Cursors DEF Positions
    <3>2. Matches(p, v) <=> \E k \in v..Len(value) + 1 : Matches(p + 1, k)
      BY <1>0, <1>2, <3>1, StarReaches
    <3>. QED
      BY <3>1, <3>2, Zenon
  <2>5. Matches(1, 1) <=> Matches(p, v)
    BY <1>1, <2>1, <2>3, Zenon DEF LastStarSuffices
  <2>6. p # 0
    BY <1>2
  <2>7. LastStarSuffices'
    BY <1>1, <2>4, <2>5, <2>6, Zenon DEF LastStarSuffices, Matches
  <2>8. GlobIsCorrect'
    BY <1>1 DEF GlobIsCorrect
  <2>. QED
    BY <2>2, <2>7, <2>8
<1>. QED
  BY <1>1, <1>3, <1>4, <1>5, ArgsFixed, Zenon DEF GlobInv

\* Nothing matches from where the loop is, so the star has to take one more.
LEMMA BacktrackPreserves == GlobInv /\ Backtrack => GlobInv'
<1>. SUFFICES ASSUME GlobInv, Backtrack PROVE GlobInv'
  OBVIOUS
<1>0. TypeOK /\ InValue /\ ~CharMatches /\ At(pattern, p) # "*" /\ star_p # 0
  BY DEF GlobInv, Backtrack
<1>1. /\ UNCHANGED args /\ pattern' = pattern /\ value' = value /\ ci' = ci
      /\ p' = star_p + 1 /\ v' = star_v + 1 /\ star_p' = star_p /\ star_v' = star_v + 1
      /\ out' = out /\ out = "run" /\ v <= Len(value)
  BY <1>0, Zenon DEF Backtrack, args, InValue
<1>2. star_v \in 1..v /\ pattern[star_p] = "*"
  BY <1>0 DEF GlobInv, SinceStar
<1>3. TypeOK'
  <2>1. /\ p' \in 1..Len(pattern) + 1 /\ v' \in 1..Len(value) + 1
        /\ star_v' \in 0..Len(value) + 1
    BY <1>0, <1>1, <1>2, Cursors
  <2>. QED
    BY <1>0, <1>1, <2>1, Zenon DEF TypeOK
<1>4. SinceStar'
  <2>1. /\ star_p < star_p + 1 /\ star_v + 1 \in 1..star_v + 1
        /\ (star_v + 1) - (star_v + 1) = (star_p + 1) - (star_p + 1)
    BY <1>0, <1>2, Cursors
  <2>. QED
    BY <1>1, <1>2, <2>1 DEF SinceStar
<1>5. ASSUME StarFree PROVE Rigid' /\ LastStarSuffices' /\ GlobIsCorrect'
  <2>1. LastStarSuffices
    BY <1>5 DEF GlobInv
  <2>2. Rigid'
    <3>. SUFFICES ASSUME NEW j \in 1..Len(value) + 1, Matches(star_p + 1, j)
                  PROVE  /\ j + ((star_v + 1) - (star_v + 1)) <= Len(value) + 1
                         /\ Matches(star_p + 1, j + ((star_v + 1) - (star_v + 1)))
      BY <1>1 DEF Rigid, Matches
    <3>1. j + ((star_v + 1) - (star_v + 1)) = j /\ j <= Len(value) + 1
      BY <1>0, Cursors
    <3>. QED
      BY <3>1
  <2>3. ~Matches(p, v)
    BY <1>0, Mismatch
  <2>4. star_v + 1..Len(value) + 1 = {star_v + 1} \cup (star_v + 1 + 1)..Len(value) + 1
    BY <1>0, <1>1, <1>2, Cursors
  <2>5. Matches(1, 1) <=> \E j \in star_v + 1..Len(value) + 1 : Matches(star_p + 1, j)
    BY <1>0, <1>1, <2>1, <2>3, Zenon DEF LastStarSuffices
  <2>6. Matches(1, 1) <=> \/ Matches(star_p + 1, star_v + 1)
                         \/ \E j \in (star_v + 1 + 1)..Len(value) + 1 : Matches(star_p + 1, j)
    BY <2>4, <2>5, Zenon
  <2>7. LastStarSuffices'
    BY <1>0, <1>1, <2>6, Zenon DEF LastStarSuffices, Matches
  <2>8. GlobIsCorrect'
    BY <1>1 DEF GlobIsCorrect
  <2>. QED
    BY <2>2, <2>7, <2>8
<1>. QED
  BY <1>1, <1>3, <1>4, <1>5, ArgsFixed, Zenon DEF GlobInv

\* Without a star to go back to, a mismatch is the answer.
LEMMA FailPreserves == GlobInv /\ Fail => GlobInv'
<1>. SUFFICES ASSUME GlobInv, Fail PROVE GlobInv'
  OBVIOUS
<1>0. TypeOK /\ InValue /\ ~CharMatches /\ At(pattern, p) # "*" /\ star_p = 0 /\ out = "run"
  BY DEF GlobInv, Fail, InValue
<1>1. /\ UNCHANGED args /\ pattern' = pattern /\ value' = value /\ ci' = ci
      /\ p' = p /\ v' = v /\ star_p' = star_p /\ star_v' = star_v /\ out' = "no"
  BY Zenon DEF Fail, args
<1>2. TypeOK' /\ SinceStar'
  BY <1>0, <1>1, Zenon DEF TypeOK, SinceStar
<1>3. ASSUME StarFree PROVE Rigid' /\ LastStarSuffices' /\ GlobIsCorrect'
  <2>1. LastStarSuffices
    BY <1>3 DEF GlobInv
  <2>2. ~Matches(1, 1)
    BY <1>0, <2>1, Mismatch, Zenon DEF LastStarSuffices
  <2>3. "no" # "match" /\ "no" # "run"
    OBVIOUS
  <2>. QED
    BY <1>0, <1>1, <2>2, <2>3, Zenon DEF Rigid, LastStarSuffices, GlobIsCorrect, Matches
<1>. QED
  BY <1>1, <1>2, <1>3, ArgsFixed, Zenon DEF GlobInv

\* At the end of the value no later start of the star is left to try.
LEMMA FinishPreserves == GlobInv /\ Finish => GlobInv'
<1>. SUFFICES ASSUME GlobInv, Finish PROVE GlobInv'
  OBVIOUS
<1>0. TypeOK /\ out = "run" /\ v > Len(value)
  BY DEF GlobInv, Finish
<1>. DEFINE Stars == \A i \in p..Len(pattern) : pattern[i] = "*"
<1>1. /\ UNCHANGED args /\ pattern' = pattern /\ value' = value /\ ci' = ci
      /\ p' = p /\ v' = v /\ star_p' = star_p /\ star_v' = star_v
      /\ out' = IF Stars THEN "match" ELSE "no"
  BY Zenon DEF Finish, args
<1>2. out' \in {"run", "match", "no"} /\ out' # "run" /\ (out' = "match" <=> Stars)
  BY <1>1
<1>. HIDE DEF Stars
<1>3. TypeOK' /\ SinceStar'
  BY <1>0, <1>1, <1>2, Zenon DEF TypeOK, SinceStar, GlobInv
<1>4. ASSUME StarFree PROVE Rigid' /\ LastStarSuffices' /\ GlobIsCorrect'
  <2>1. Rigid /\ LastStarSuffices
    BY <1>4 DEF GlobInv
  <2>2. v = Len(value) + 1 /\ p \in Positions(pattern)
    BY <1>0, Cursors DEF Positions
  <2>3. Matches(p, v) <=> Stars
    BY <1>0, <2>2, OnlyStars DEF Stars
  <2>4. ASSUME star_p # 0, NEW j \in star_v + 1..Len(value) + 1, Matches(star_p + 1, j)
        PROVE  FALSE
    <3>1. star_v \in 1..v
      BY <2>4 DEF GlobInv, SinceStar
    <3>2. j \in 1..Len(value) + 1
      BY <1>0, <2>4, <3>1, Cursors
    <3>3. j + (v - star_v) <= Len(value) + 1
      BY <2>1, <2>4, <3>2 DEF Rigid
    <3>. QED
      BY <1>0, <2>2, <3>1, <3>2, <3>3, Cursors
  <2>5. Matches(1, 1) <=> Stars
    BY <1>0, <2>1, <2>3, <2>4, Zenon DEF LastStarSuffices
  <2>6. Rigid'
    BY <1>1, <2>1, Zenon DEF Rigid, Matches
  <2>. QED
    BY <1>1, <1>2, <2>5, <2>6, Zenon DEF LastStarSuffices, GlobIsCorrect, Matches
<1>. QED
  BY <1>1, <1>3, <1>4, ArgsFixed, Zenon DEF GlobInv

-----------------------------------------------------------------------------
(* The theorems.                                                           *)

\* GlobInv holds at every turn of the loop in cacher_glob_match, whatever the
\* pattern, the value and the folding.
THEOREM GlobInvariant == Spec => []GlobInv
<1>1. GlobInv /\ [Next]_vars => GlobInv'
  <2>. SUFFICES ASSUME GlobInv, [Next]_vars PROVE GlobInv'
    OBVIOUS
  <2>1. CASE Advance
    BY <2>1, AdvancePreserves
  <2>2. CASE Star
    BY <2>2, StarPreserves
  <2>3. CASE Backtrack
    BY <2>3, BacktrackPreserves
  <2>4. CASE Fail
    BY <2>4, FailPreserves
  <2>5. CASE Finish
    BY <2>5, FinishPreserves
  <2>6. CASE UNCHANGED vars
    <3>1. /\ pattern' = pattern /\ value' = value /\ ci' = ci /\ p' = p /\ v' = v
          /\ star_p' = star_p /\ star_v' = star_v /\ out' = out
      BY <2>6 DEF vars
    <3>. QED
      BY <3>1, Zenon DEF GlobInv, TypeOK, SinceStar, StarFree, Rigid, LastStarSuffices,
                         GlobIsCorrect, Matches
  <2>. QED
    BY <2>1, <2>2, <2>3, <2>4, <2>5, <2>6, Zenon DEF Next, Step, Returned
<1>. QED
  BY <1>1, InitGlob, PTL DEF Spec

\* The cursors never leave the strings, their terminating NULs included.
THEOREM TypeCorrect == Spec => []TypeOK
<1>1. GlobInv => TypeOK
  BY DEF GlobInv
<1>. QED
  BY <1>1, GlobInvariant, PTL

\* Remembering the last star alone loses no match, for any number of stars.
THEOREM OneStarIsEnough == Spec => [](StarFree => LastStarSuffices)
<1>1. GlobInv => (StarFree => LastStarSuffices)
  BY DEF GlobInv
<1>. QED
  BY <1>1, GlobInvariant, PTL

\* What cacher_glob_match returns is what the glob language says, for every
\* pattern and every value without a '*' in it.
THEOREM GlobCorrect == Spec => [](StarFree => GlobIsCorrect)
<1>1. GlobInv => (StarFree => GlobIsCorrect)
  BY DEF GlobInv
<1>. QED
  BY <1>1, GlobInvariant, PTL

\* No turn of the loop in cacher_glob_match undoes what an earlier one did, so
\* it ends after at most as many turns as there are triples of a star, a place
\* where it begins and a place in the value.
THEOREM GoesForward == Spec => TurnsGoForward
<1>. DEFINE Forward == \/ out' # "run"
                       \/ star_p' > star_p
                       \/ star_p' = star_p /\ star_v' > star_v
                       \/ star_p' = star_p /\ star_v' = star_v /\ v' > v
<1>1. ASSUME GlobInv, [Next]_vars PROVE [Forward]_vars
  <2>0. /\ p \in Nat /\ v \in Nat /\ star_p \in Nat /\ star_v \in Nat
        /\ p > star_p
    <3>1. /\ p \in Nat /\ p > 0 /\ v \in Nat /\ star_p \in Nat /\ star_v \in Nat
      BY <1>1 DEF GlobInv, TypeOK
    <3>. QED
      BY <1>1, <3>1 DEF GlobInv, SinceStar
  <2>1. CASE Advance
    <3>1. v' = v + 1 /\ star_p' = star_p /\ star_v' = star_v
      BY <2>1 DEF Advance
    <3>. QED
      BY <2>0, <3>1
  <2>2. CASE Star
    <3>1. star_p' = p
      BY <2>2 DEF Star
    <3>. QED
      BY <2>0, <3>1
  <2>3. CASE Backtrack
    <3>1. star_v' = star_v + 1 /\ star_p' = star_p
      BY <2>3 DEF Backtrack
    <3>. QED
      BY <2>0, <3>1
  <2>4. CASE Fail \/ Finish
    BY <2>4, Zenon DEF Fail, Finish
  <2>. QED
    BY <1>1, <2>1, <2>2, <2>3, <2>4, Zenon DEF Next, Step, Returned
<1>. QED
  BY <1>1, GlobInvariant, PTL DEF Spec, TurnsGoForward
=============================================================================
