----------------------------- MODULE MCNameGuard -----------------------------
EXTENDS NameGuard, FiniteSets

\* The username of "sly" is one that the pattern "p" matches.
Usernames == [m \in Members |-> IF m = "sly" THEN "soft" ELSE "plain"]
NoGlobalNames == [m \in Members |-> Blank]
SoftHits == [p \in Patterns |-> IF p = "p" THEN {"soft"} ELSE {}]

\* A set of two patterns is already too large.
OnePattern == {s \in SUBSET Patterns : Cardinality(s) <= 1}
\* "p" is listed in one tier; "q", which fills a set, may be listed for deletion.
Books ==
  {[t \in Tiers |-> [x \in Patterns |-> IF <<t, x>> \in s THEN 1 ELSE 0]] :
     s \in {{<<"delete", "p">>}, {<<"ban", "p">>, <<"delete", "q">>}}}
=============================================================================
