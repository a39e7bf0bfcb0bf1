------------------------------ MODULE GlobMatch ------------------------------
(***************************************************************************)
(* cacher_glob_match (cacher_rules.c): one loop over the value that        *)
(* remembers only the last '*' of the pattern, against what the glob       *)
(* language means.  Paths, query strings, cookie names, content types and  *)
(* purge patterns are all matched by it.                                   *)
(***************************************************************************)
EXTENDS Naturals, Sequences

CONSTANTS
    PatternChars,   \* characters of patterns, "*" and "?" among them
    ValueChars,     \* characters of values
    MaxPattern, MaxValue

ASSUME GlobBounds == MaxPattern \in Nat /\ MaxValue \in Nat
ASSUME NoNul == "" \notin PatternChars \cup ValueChars

VARIABLES
    pattern, value, ci,      \* the arguments
    p, v,                    \* the cursors
    star_p, star_v,          \* the last '*' and where it began to match, or 0
    out                      \* "run", or the result, "match" or "no"

vars == <<pattern, value, ci, p, v, star_p, star_v, out>>
args == <<pattern, value, ci>>

Strings(S, n) == UNION {[1..m -> S] : m \in 0..n}

\* The character under a cursor; the terminating NUL is "".
At(s, i) == IF i \in DOMAIN s THEN s[i] ELSE ""

Lower(c) == CASE c = "A" -> "a" [] c = "B" -> "b" [] OTHER -> c

\* Two characters are the same, folded when fold is set.
Same(fold, c, d) == IF fold THEN Lower(c) = Lower(d) ELSE c = d

Init ==
    /\ pattern \in Strings(PatternChars, MaxPattern)
    /\ value \in Strings(ValueChars, MaxValue)
    /\ ci \in BOOLEAN
    /\ p = 1 /\ v = 1 /\ star_p = 0 /\ star_v = 0
    /\ out = "run"

\* The cursors stay inside the strings.
TypeOK ==
    /\ pattern \in Seq(PatternChars) /\ value \in Seq(ValueChars) /\ ci \in BOOLEAN
    /\ p \in 1..Len(pattern) + 1 /\ v \in 1..Len(value) + 1
    /\ star_p \in 0..Len(pattern) /\ star_v \in 0..Len(value) + 1
    /\ out \in {"run", "match", "no"}

-----------------------------------------------------------------------------
InValue == out = "run" /\ v <= Len(value)

\* Mutant: the end of the pattern is taken for a match.
CharMatchesPastEnd == At(pattern, p) \in {"?", ""} \/ Same(ci, At(pattern, p), value[v])

CharMatches == At(pattern, p) = "?" \/ (At(pattern, p) # "" /\ Same(ci, At(pattern, p), value[v]))

Advance ==
    /\ InValue
    /\ CharMatches
    /\ p' = p + 1 /\ v' = v + 1
    /\ UNCHANGED <<args, star_p, star_v, out>>

Star ==
    /\ InValue
    /\ ~CharMatches
    /\ At(pattern, p) = "*"
    /\ star_p' = p /\ star_v' = v
    /\ p' = p + 1
    /\ UNCHANGED <<args, v, out>>

\* Mutant: the value resumes after the point of failure, not after the place
\* where the star last began.
BacktrackTooFar ==
    /\ InValue
    /\ ~CharMatches
    /\ At(pattern, p) # "*"
    /\ star_p # 0
    /\ p' = star_p + 1
    /\ star_v' = v + 1 /\ v' = v + 1
    /\ UNCHANGED <<args, star_p, out>>

\* Mutant: the star is not moved on, so the next failure returns to it.
BacktrackInPlace ==
    /\ InValue
    /\ ~CharMatches
    /\ At(pattern, p) # "*"
    /\ star_p # 0
    /\ p' = star_p + 1
    /\ v' = star_v + 1
    /\ UNCHANGED <<args, star_p, star_v, out>>

\* The last star takes one more character.
Backtrack ==
    /\ InValue
    /\ ~CharMatches
    /\ At(pattern, p) # "*"
    /\ star_p # 0
    /\ p' = star_p + 1
    /\ star_v' = star_v + 1 /\ v' = star_v + 1
    /\ UNCHANGED <<args, star_p, out>>

Fail ==
    /\ InValue
    /\ ~CharMatches
    /\ At(pattern, p) # "*"
    /\ star_p = 0
    /\ out' = "no"
    /\ UNCHANGED <<args, p, v, star_p, star_v>>

\* Mutant: what is left of the pattern is not skipped.
FinishAtOnce ==
    /\ out = "run" /\ v > Len(value)
    /\ out' = IF p > Len(pattern) THEN "match" ELSE "no"
    /\ UNCHANGED <<args, p, v, star_p, star_v>>

\* The value is used up: only stars may be left of the pattern.
Finish ==
    /\ out = "run" /\ v > Len(value)
    /\ out' = IF \A i \in p..Len(pattern) : pattern[i] = "*" THEN "match" ELSE "no"
    /\ UNCHANGED <<args, p, v, star_p, star_v>>

Returned == out # "run" /\ UNCHANGED vars

Step == Advance \/ Star \/ Backtrack \/ Fail \/ Finish
Next == Step \/ Returned

Spec     == Init /\ [][Next]_vars
FairSpec == Spec /\ WF_vars(Step)

-----------------------------------------------------------------------------
(* The language.                                                           *)

\* Whether the glob pat from i on matches the whole of val from j on.
Language(pat, val, fold) ==
    LET m[x \in (1..Len(pat) + 1) \X (1..Len(val) + 1)] ==
          LET i == x[1]
              j == x[2]
          IN  IF i > Len(pat) THEN j > Len(val)
              ELSE IF pat[i] = "*"
                   THEN m[<<i + 1, j>>] \/ (j <= Len(val) /\ m[<<i, j + 1>>])
                   ELSE /\ j <= Len(val)
                        /\ pat[i] = "?" \/ Same(fold, pat[i], val[j])
                        /\ m[<<i + 1, j + 1>>]
    IN  m

Matches(i, j) == Language(pattern, value, ci)[<<i, j>>]

\* The result is the one the glob language defines.
GlobIsCorrect == out # "run" => (out = "match" <=> Matches(1, 1))

\* Why one remembered star is enough: while the loop runs, the value matches
\* the pattern exactly if the rest matches from the cursors, or from some
\* later start of the last star; earlier stars never need to be revisited.
LastStarSuffices ==
    out = "run" =>
        (Matches(1, 1) <=> \/ Matches(p, v)
                           \/ star_p # 0 /\ \E j \in star_v + 1..Len(value) + 1 :
                                               Matches(star_p + 1, j))

\* Why the loop ends, on any strings and without any fairness: every turn
\* returns, or finds a later star, or lets the last star begin later, or moves
\* on in the value; none of these can happen for ever, and no turn undoes a more
\* important one.
TurnsGoForward ==
    [][\/ out' # "run"
       \/ star_p' > star_p
       \/ star_p' = star_p /\ star_v' > star_v
       \/ star_p' = star_p /\ star_v' = star_v /\ v' > v]_vars

\* The loop ends.
GlobReturns == <>(out # "run")

-----------------------------------------------------------------------------
(* The inductive invariant behind them.                                    *)

\* No '*' of the pattern can be taken for an equal character of the value.
StarFree == \A i \in DOMAIN value : value[i] # "*"

\* The cursors are equally far from the last star and the place where it
\* began to match ...
SinceStar ==
    star_p # 0 =>
        /\ pattern[star_p] = "*" /\ star_p < p
        /\ star_v \in 1..v /\ v - star_v = p - (star_p + 1)

\* ... and what lies between has no star: wherever the rest after the star
\* matches, the rest after p matches as much further on.
Rigid ==
    star_p # 0 =>
        \A j \in 1..Len(value) + 1 :
            Matches(star_p + 1, j) =>
                j + (v - star_v) <= Len(value) + 1 /\ Matches(p, j + (v - star_v))

\* The loop's invariant: from TypeOK and SinceStar for any value, and for one
\* without '*' that the state still decides the match.
GlobInv == TypeOK /\ SinceStar /\ (StarFree => Rigid /\ LastStarSuffices /\ GlobIsCorrect)
=============================================================================
