----------------------------- MODULE MCFilters ------------------------------
(***************************************************************************)
(* Filters of up to three comparisons and two levels of operators, one of  *)
(* whose values is plain, escaped, a substring match or of two bytes; and  *)
(* of two comparisons that == may take for the same.                       *)
(***************************************************************************)
EXTENDS Filters

Tokens == [b |-> Token("("), e |-> Token(")"), and |-> Token("&"),
           or |-> Token("|"), not |-> Token("!")]
T == Tokens
Group(cmp) == <<T.b, cmp, T.e>>
Above == Compares(">=", <<"a">>)

Some ==
  {Compares("=", <<"a">>), Compares("=", <<"a", "\\2a">>), Compares("=", <<"\\20", "a">>),
   Compares("=", <<"*">>), Compares("=", <<"a", "*">>), Compares("=", <<"u">>),
   Compares("=", <<"\\c3", "\\a9">>), Compares(":=", <<"\\20", "\\2a">>)}

Few == {Compares("=", <<"a">>), Compares("=", <<"a", "\\2a">>), Compares(":=", <<"u", "\\2a">>)}

\* Comparisons that are alike but for the spelling of value or attribute, or the rule.
Ruled(rule) == [Compares(":=", <<"a">>) EXCEPT !.rule = rule]
MCDuplicates ==
  {<<T.b, T.or>> \o Group(Ruled("caseExactMatch")) \o Group(Ruled(IgnoreCase)) \o <<T.e>>}
MCTwins ==
  {<<T.b, T.or>> \o Group(Compares("=", <<"a">>))
     \o Group([Compares("=", <<"\\61">>) EXCEPT !.attr = attr]) \o <<T.e>> : attr \in Attributes}

MCTexts ==
  MCDuplicates \union MCTwins \union
  {<<>>} \union {<<c>> : c \in Some} \union {Group(c) : c \in Some}
  \union {<<T.b, T.not>> \o Group(c) \o <<T.e>> : c \in Some}
  \union {<<T.b, T.and>> \o Group(Above) \o <<T.b, T.or>> \o Group(c) \o Group(Above)
            \o <<T.e, T.e>> : c \in Few}
  \union {<<T.b, T.or, T.b, T.and, T.b, T.not>> \o Group(Above) \o <<T.e>> \o Group(c)
            \o <<T.e>> \o Group(Above) \o <<T.e>> : c \in Few}
  \union {<<T.b, T.and, T.b, T.or>> \o Group(c) \o <<T.e, T.b, T.and, T.e, T.e>> : c \in Few}

MCAsks ==
  {Ask(op, Plain, 1, int) : op \in {">", "<"}, int \in BOOLEAN}
  \union {Ask("<=", Plain, 1, TRUE), Ask("!=", Approx, 1, FALSE)}

MCValues == {<<"a">>, <<"a", "*">>, <<" ", "a">>, <<"u", " ">>}
=============================================================================
