------------------------------ MODULE LikeMatch ------------------------------
(***************************************************************************)
(* like_match of src/storage.c: % is any text, _ any one character.        *)
(* Texts and patterns are sequences of characters.                         *)
(***************************************************************************)
EXTENDS Integers, Sequences

\* The place behind the run of % that starts at j.
SkipPercents(p, j) ==
    CHOOSE k \in j + 1 .. Len(p) + 1 :
        /\ \A l \in j .. k - 1 : p[l] = "%"
        /\ k <= Len(p) => p[k] # "%"

\* Where in the text the rest of the pattern may start once a % was read at i.
\* (Mutant: a % takes at least one character.)
TriesAfterOne(t, i) == i + 1 .. Len(t) + 1
Tries(t, i) == i .. Len(t) + 1

\* like_match, both pointers as positions, one behind the end being '\0':
\* match[j] are the places of the text from where it does from p[j] on.
Matches(t, p) ==
    LET match[j \in 1 .. Len(p) + 1] ==
            IF j > Len(p) THEN {Len(t) + 1}
            ELSE IF p[j] = "%"
            THEN LET k == SkipPercents(p, j)
                 IN  {i \in 1 .. Len(t) + 1 : k > Len(p) \/ Tries(t, i) \cap match[k] # {}}
            ELSE {i \in 1 .. Len(t) : p[j] \in {"_", t[i]} /\ i + 1 \in match[j + 1]}
    IN  1 \in match[1]

-----------------------------------------------------------------------------
(***************************************************************************)
(* The definition: the text can be cut into pieces, one per character of   *)
(* the pattern, each of the kind that character stands for.                *)
(***************************************************************************)
Fits(c, t, from, to) ==
    CASE c = "%"  -> TRUE
      [] c = "_"  -> to = from + 1
      [] OTHER    -> to = from + 1 /\ t[to] = c

Reads(t, p) ==
    \E cut \in [0 .. Len(p) -> 0 .. Len(t)] :
        /\ cut[0] = 0 /\ cut[Len(p)] = Len(t)
        /\ \A n \in 1 .. Len(p) :
             cut[n - 1] <= cut[n] /\ Fits(p[n], t, cut[n - 1], cut[n])
=============================================================================
