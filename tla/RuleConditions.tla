--------------------------- MODULE RuleConditions ---------------------------
(* The conditions of the rules a person writes: trees of all, any and none    *)
(* over tests of one field each, what they match, and which of them are too   *)
(* broad to be a rule (adminos/domain/conditions.py).                         *)
(*                                                                            *)
(* What a test compares its field against is the set of values it hits; a     *)
(* value is a model value, and "blank" the empty text.                        *)
EXTENDS Naturals

TextFields == {"subject", "snippet", "capability"}     \* one value, or not set
ListFields == {"participant", "domain", "gmail_label"} \* any number of values
NarrowingFields == {"subject", "snippet", "participant", "domain"}

\* Condition: fixed if it has enough fixed text; that never hits the empty text.
Test(field, negated, fixed, hits) ==
  [tag |-> "test", field |-> field, negated |-> negated, fixed |-> fixed, hits |-> hits]
Group(all, any, none) == [tag |-> "group", all |-> all, any |-> any, none |-> none]

\* Condition.test on the values the field has: a text that is not set matches
\* nothing, a negation over a list asks it of every value.
Holds(test, values) ==
  IF test.field \in TextFields
  THEN \E v \in values : (v \in test.hits) # test.negated
  ELSE IF test.negated THEN values \cap test.hits = {} ELSE values \cap test.hits # {}

\* How deep a tree may nest, its tests included.
MAXIMUM_DEPTH == 4

\* What a tree is made of: itself and what is nested in it, to that depth.
Parts(tree) ==
  LET more(trees) == trees \cup UNION {t.all \cup t.any \cup t.none : t \in {g \in trees : g.tag = "group"}}
  IN more(more(more({tree})))

\* check_not_empty, for every group in it, and depth_of.
WellFormed(tree) ==
  \A t \in Parts(tree) :
    IF t.tag = "test"
    THEN t.field \in TextFields \cup ListFields /\ {t.negated, t.fixed} \subseteq BOOLEAN /\ (t.fixed => "blank" \notin t.hits)
    ELSE /\ t.all \cup t.any \cup t.none # {}
         /\ t.all \cup t.any \cup t.none \subseteq Parts(tree)

\* ConditionGroup.test, of trees whose parts match if they are among below.
Matching(trees, below, facts) ==
  {t \in trees :
     IF t.tag = "test" THEN Holds(t, facts[t.field])
     ELSE /\ t.all \subseteq below
          /\ t.any # {} => t.any \cap below # {}
          /\ t.none \cap below = {}}

\* Whether a tree matches, from its innermost tests outwards.
Matches(tree, facts) ==
  LET outwards(below) == Matching(Parts(tree), below, facts)
  IN tree \in outwards(outwards(outwards(outwards({}))))

NarrowTest(test) == test.field \in NarrowingFields /\ ~test.negated /\ test.fixed

\* narrows: something every match needs cuts the set down.
Narrowing(trees, below) ==
  {t \in trees :
     IF t.tag = "test" THEN NarrowTest(t)
     ELSE t.all \cap below # {} \/ (t.any # {} /\ t.any \subseteq below)}

Narrows(tree) ==
  LET outwards(below) == Narrowing(Parts(tree), below)
  IN tree \in outwards(outwards(outwards(outwards({}))))

\* Mail with nothing to go by: no addresses or labels, and no text or an empty one.
BareMail ==
  {[f \in TextFields \cup ListFields |-> IF f \in TextFields THEN text ELSE {}] : text \in {{}, {"blank"}}}
=============================================================================
