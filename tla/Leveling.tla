------------------------------- MODULE Leveling -------------------------------
(* The level formula of pipeline/leveling.rs, over the integers.           *)
EXTENDS Integers, FiniteSets

\* Cumulative XP a level takes.
XpForLevel(l) == 5 * (l * l) + 50 * l + 100

\* Mutant: a level is reached one XP late.
LevelForXpLate(xp) ==
  IF xp <= 100 THEN 0
  ELSE Cardinality({l \in 1..xp : 5 * ((l + 5) * (l + 5)) < 25 + xp})

\* "Exact quadratic inverse": the code takes sqrt(5 + xp / 5) - 5 and drops the
\* fraction, that is the number of levels l with l + 5 <= sqrt(5 + xp / 5).
LevelForXp(xp) ==
  IF xp < 100 THEN 0
  ELSE Cardinality({l \in 1..xp : 5 * ((l + 5) * (l + 5)) <= 25 + xp})
=============================================================================
