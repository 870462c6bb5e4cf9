---------------------------- MODULE MCAclMatch ------------------------------
(* Labels a and d with two values, b, c and e with one, z with none.  With   *)
(* five placeholders the arrays of the recursion are shared (capacities 1,   *)
(* 2, 4) at an inner level, with four at the innermost one.                  *)
EXTENDS AclMatch

MCLabels == [a |-> <<1, 2>>, b |-> <<1>>, c |-> <<1>>, d |-> <<1, 2>>, e |-> <<1>>,
             z |-> <<>>]

P(plain, uses, accepts) == [plain |-> plain, uses |-> uses, accepts |-> accepts]
Nil == P(TRUE, {}, {})

\* Patterns that use the placeholders S: none or one combination matches.
Using(S) == {P(FALSE, S, A) : A \in {{}} \cup {{choice} : choice \in Choices(S)}}

Cond(p1, p2, ip, ml) ==
    [patterns |-> [account |-> p1, type |-> Nil, name |-> p2, service |-> Nil],
     ip |-> ip, labels |-> ml]

NoLabels == [l \in {} |-> {}]
Large == UNION {Using({"a", "b", "c", "d"}), Using({"a", "b", "c", "d", "e"})}
Small == {Nil, P(FALSE, {}, {})} \cup UNION {Using({"a"}), Using({"a", "d"}), Using({"d", "z"})}

MCConditions ==
    {Cond(Nil, p, "any", NoLabels) : p \in Large}
      \cup {Cond(p, q, "any", NoLabels) : p, q \in Small}
      \cup {Cond(p, Nil, ip, ml) : p \in Using({"a"}), ip \in {"own", "other"},
              ml \in {NoLabels, [a |-> {2}], [a |-> {2}, b |-> {2}], [z |-> {1}]}}
=============================================================================
