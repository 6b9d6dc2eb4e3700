----------------------------- MODULE FilterTree -----------------------------
(***************************************************************************)
(* The objects of freeiam.ldap.filter: how a text is parsed to a tree of   *)
(* them, what values they hold, and how they are copied and printed.       *)
(*                                                                         *)
(* A text is a sequence of tokens: brackets, operators and comparisons     *)
(* with their attribute, the dn and matching rule of an extensible match,  *)
(* and the encoded value.  A value is a sequence of characters: "a"     *)
(* stands for the letters and digits, "*" for the special ones, " " for    *)
(* white space, "u" for a letter of two bytes in UTF-8 and "?" for U+FFFD; *)
(* the digits are there to be compared.                                    *)
(* In an encoded value a character may be written as the hex escapes of    *)
(* its bytes.  Optional white space is left out.                           *)
(***************************************************************************)
EXTENDS Naturals, Sequences, SequencesExt

\* ------------------------------- the values -------------------------------

Digits == <<"0", "1", "2">>
Chars == {"a", "*", " ", "u", "?"} \union ToSet(Digits)
Hex == [c \in Chars |-> CASE c = "a" -> <<"\\61">>
                          [] c = "*" -> <<"\\2a">>
                          [] c = " " -> <<"\\20">>
                          [] c = "0" -> <<"\\30">>
                          [] c = "1" -> <<"\\31">>
                          [] c = "2" -> <<"\\32">>
                          [] c = "u" -> <<"\\c3", "\\a9">>
                          [] c = "?" -> <<"\\ef", "\\bf", "\\bd">>]
Short == {c \in Chars : Len(Hex[c]) = 1}
Decodes == [byte \in {Hex[c][1] : c \in Short} |-> CHOOSE c \in Short : Hex[c][1] = byte]
Encoded(value) == FlattenSeq([i \in DOMAIN value |-> Hex[value[i]]])

\* What a server makes of an encoded value: bytes, and "any" for a bare asterisk.
Bytes(text) ==
  FlattenSeq([i \in DOMAIN text |-> CASE text[i] = "*" -> <<"any">>
                                      [] text[i] \in Chars \ {"*"} -> Hex[text[i]]
                                      [] OTHER -> <<text[i]>>])

\* escape_filter_chars: SPECIAL escapes the special characters only, RESTRICTED the
\* white space too, and what lies beyond "z" by its code point, not by its bytes.
Special(value) == [i \in DOMAIN value |-> IF value[i] = "*" THEN "\\2a" ELSE value[i]]
Restricted(value) ==
  [i \in DOMAIN value |-> CASE value[i] = "*" -> "\\2a"
                            [] value[i] = " " -> "\\20"
                            [] value[i] = "u" -> "\\e9"
                            [] value[i] = "?" -> "\\fffd"
                            [] OTHER -> value[i]]

\* Each escape is decoded on its own: a byte of a longer character gives U+FFFD.
Unescape(text) ==
  [i \in DOMAIN text |-> CASE text[i] \in Chars -> text[i]
                           [] text[i] \in DOMAIN Decodes -> Decodes[text[i]]
                           [] OTHER -> "?"]

Bordered(value) == value # <<>> /\ " " \in {value[1], value[Len(value)]}
Has(value, char) == \E i \in DOMAIN value : value[i] = char

\* ------------------------------- the objects ------------------------------

Signs == {"=", "~=", ">=", "<=", ":="}
Operators == {"&", "|", "!"}
Comparisons == Signs \union {"sub", "pres"}

\* Two spellings of one attribute, and what stands for `:dn` and a matching rule.
Attributes == {"cn", "CN"}
NoRule == ""
IgnoreCase == "caseIgnoreMatch"

\* want is a history: what the program or the text asked for, in bytes; lossy tells
\* that one of the conversions with a known loss was applied; asks is the comparison
\* with a number that a program wrote.
Comparison(cls, raw, escaped, want, lossy) ==
  [cls |-> cls, kids |-> <<>>, attr |-> "cn", rule |-> NoRule,
   raw |-> raw, is_escaped |-> escaped, want |-> want, lossy |-> lossy, asks |-> {}]
Container(cls, kids) ==
  [cls |-> cls, kids |-> kids, attr |-> "cn", rule |-> NoRule,
   raw |-> <<>>, is_escaped |-> FALSE, want |-> <<>>, lossy |-> FALSE, asks |-> {}]

\* Filter.get_eq and the others.
Built(cls, value) ==
  [Comparison(cls, value, FALSE, Encoded(value),
              Bordered(value) /\ (Has(value, "u") \/ Has(value, "?")))
     EXCEPT !.rule = IF cls = ":=" THEN IgnoreCase ELSE NoRule]

Presence == Comparison("pres", <<>>, FALSE, <<"any">>, FALSE)

\* get_substring joins its parts without the asterisks between them.
Substring(parts) ==
  Comparison("sub", FlattenSeq(parts), FALSE,
             FlattenSeq([i \in DOMAIN parts |->
                           (IF i = 1 THEN <<>> ELSE <<"any">>) \o Encoded(parts[i])]),
             Len(parts) > 1)

Value(c) == IF c.is_escaped THEN Unescape(c.raw) ELSE c.raw

\* Mutant: spaces at the border of a value are not escaped.
EscapedPlainly(c) == IF c.is_escaped THEN c.raw ELSE Special(c.raw)
\* Mutant: only values with a space at their border are escaped.
EscapedAtBorder(c) ==
  IF ~c.is_escaped /\ Bordered(c.raw) THEN Restricted(c.raw) ELSE c.raw

Escaped(c) ==
  IF c.is_escaped THEN c.raw
  ELSE IF Bordered(c.raw) THEN Restricted(c.raw) ELSE Special(c.raw)

\* ExtensibleMatch.copy passes the decoded value on as the encoded one.
CopyOf(c) ==
  IF c.cls # ":=" THEN c
  ELSE [c EXCEPT !.raw = Value(c),
                 !.lossy = \/ @
                           \/ /\ c.is_escaped
                              /\ \/ Has(Value(c), "*") \/ Has(Value(c), "?")
                                 \/ Bordered(Value(c))]

\* The value setter keeps is_escaped as it is.
WithValue(c, value) ==
  [c EXCEPT !.raw = value, !.want = Encoded(value),
            !.lossy = IF c.is_escaped THEN Has(value, "*") \/ Bordered(value)
                      ELSE Bordered(value) /\ Has(value, "u")]

New(h, node) == [heap |-> Append(h, node), id |-> Len(h) + 1]

\* Mutant: == compares what is stored, decoded or not.
EqualAsStored(c, d) == c.cls = d.cls /\ c.attr = d.attr /\ c.raw = d.raw

\* Comparison.__eq__: SubstringMatch has the expression of EqualityMatch, and neither dn nor
\* matching rule of an ExtensibleMatch is part of it.
Equal(c, d) ==
  /\ {c.cls, d.cls} \subseteq {"=", "sub"} \/ c.cls = d.cls
  /\ c.attr = d.attr /\ Value(c) = Value(d)

\* What the example for merging duplicates leaves of the operands kids.
Merged(h, kids) ==
  LET Count(ks, id) ==
        Len(SelectSeq(ks, LAMBDA k : h[k].cls \in Comparisons /\ Equal(h[k], h[id])))
      Less(ks, id) == IF Count(ks, id) > 1 THEN RemoveFirst(ks, id) ELSE ks
  IN FoldLeft(Less, kids, SelectSeq(kids, LAMBDA k : h[k].cls \in Comparisons))

\* ------------------- comparisons written with an Attribute -----------------

\* What == makes with an Attribute as it is, with its approx, and with a matching rule.
Plain == "="
Approx == "~="
Extensible == ":="

\* attribute <op> n, where n is an int or a str.
Ask(op, method, n, int) == [op |-> op, method |-> method, n |-> n, int |-> int]
Str(n) == <<Digits[n + 1]>>
Compared(sign, n, negated) == [cmp |-> Built(sign, Str(n)), negated |-> negated]

\* Mutant: > and < of an int forget that the bound itself is excluded.
MeantLoosely(a) ==
  CASE a.op \in {">=", "<="} -> Compared(a.op, a.n, FALSE)
    [] a.op = ">" -> Compared(IF a.int THEN ">=" ELSE "<=", a.n, ~a.int)
    [] a.op = "<" -> Compared(IF a.int THEN "<=" ELSE ">=", a.n, ~a.int)
    [] OTHER -> Compared(a.method, a.n, a.op = "!=")

\* The order has no strict comparison: of an int it takes the next one, of a str the
\* negation; == and != take the method of the Attribute.
Meant(a) ==
  CASE a.op \in {">=", "<="} -> Compared(a.op, a.n, FALSE)
    [] a.op = ">" -> IF a.int THEN Compared(">=", a.n + 1, FALSE) ELSE Compared("<=", a.n, TRUE)
    [] a.op = "<" -> IF a.int THEN Compared("<=", a.n - 1, FALSE) ELSE Compared(">=", a.n, TRUE)
    [] OTHER -> Compared(a.method, a.n, a.op = "!=")

Written(h, a) ==
  LET cmp == New(h, [Meant(a).cmp EXCEPT !.asks = IF Meant(a).negated THEN {} ELSE {a}])
  IN IF Meant(a).negated THEN New(cmp.heap, [Container("!", <<cmp.id>>) EXCEPT !.asks = {a}])
     ELSE cmp

\* Container.copy copies what it contains.
RECURSIVE Copy(_, _)
Copy(h, id) ==
  LET More(s, kid) == LET c == Copy(s.heap, kid)
                      IN [heap |-> c.heap, kids |-> Append(s.kids, c.id)]
      inner == FoldLeft(More, [heap |-> h, kids |-> <<>>], h[id].kids)
  IN IF h[id].cls \in Comparisons THEN New(h, CopyOf(h[id]))
     ELSE New(inner.heap, Container(h[id].cls, inner.kids))

\* The objects that are reached from one.
RECURSIVE Below(_, _)
Below(h, id) ==
  {id} \union UNION {Below(h, h[id].kids[i]) : i \in DOMAIN h[id].kids}

\* -------------------------- printing and parsing --------------------------

Token(t) == [t |-> t, op |-> "", attr |-> "cn", rule |-> NoRule, val |-> <<>>]
Compares(op, val) == [Token("cmp") EXCEPT !.op = op, !.val = val]

\* Comparison.__str__
Printed(c) ==
  [Compares(IF c.cls \in Signs THEN c.cls ELSE "=",
            IF c.cls = "pres" THEN <<"*">> \o Escaped(c) ELSE Escaped(c))
     EXCEPT !.attr = c.attr, !.rule = c.rule]

\* __str__ of the containers: brackets around comparisons, but not in a Container.
RECURSIVE Text(_, _)
Text(h, id) ==
  LET Bracketed(kid) ==
        IF h[kid].cls \in Comparisons
        THEN <<Token("("), Printed(h[kid]), Token(")")>> ELSE Text(h, kid)
      groups == FlattenSeq([i \in DOMAIN h[id].kids |-> Bracketed(h[id].kids[i])])
  IN CASE h[id].cls \in Comparisons -> <<Printed(h[id])>>
       [] h[id].cls = "container" ->
            FlattenSeq([i \in DOMAIN h[id].kids |-> Text(h, h[id].kids[i])])
       [] h[id].cls = "group" -> groups
       [] OTHER -> <<Token("("), Token(h[id].cls)>> \o groups \o <<Token(")")>>

\* _FilterTransformer on the value of a comparison: white space at the border goes.
RECURSIVE Strip(_)
Strip(val) == IF val = <<>> THEN val
              ELSE IF val[1] = " " THEN Strip(Tail(val))
              ELSE IF val[Len(val)] = " " THEN Strip(Front(val))
              ELSE val

Accepted(token) ==
  /\ token.op = "=" \/ ~Has(token.val, "*")
  /\ ~\E i \in 1..(Len(token.val) - 1) : token.val[i] = "*" /\ token.val[i + 1] = "*"

Transformed(token) ==
  LET val == Strip(token.val)
      cls == IF val = <<"*">> THEN "pres" ELSE IF Has(val, "*") THEN "sub" ELSE token.op
  IN [Comparison(cls, IF cls = "pres" THEN <<>> ELSE val, TRUE, Bytes(val), FALSE)
        EXCEPT !.attr = token.attr, !.rule = token.rule]

\* The parser after some tokens: the objects made, the brackets that are open, with
\* their operator ("" before it, "cmp" for a comparison) and operands, and the
\* complete expressions outside of all brackets.
Started == [heap |-> <<Container("container", <<>>)>>, open |-> <<>>, out |-> <<>>, ok |-> TRUE]

Shift(s, token) ==
  LET top == Last(s.open)
      made == New(s.heap, Transformed(token))
      closed == IF top.op = "cmp" THEN [heap |-> s.heap, id |-> top.kids[1]]
                ELSE New(s.heap, Container(top.op, top.kids))
      outer == Front(s.open)
      Set(op, kids) == Append(Front(s.open), [op |-> op, kids |-> kids])
      refused == [s EXCEPT !.ok = FALSE]
      fresh == s.open # <<>> /\ top.op = "" /\ top.kids = <<>>
  IN CASE token.t = "(" ->
            IF s.open # <<>> /\ top.op \notin Operators THEN refused
            ELSE [s EXCEPT !.open = Append(@, [op |-> "", kids |-> <<>>])]
       [] token.t \in Operators ->
            IF fresh THEN [s EXCEPT !.open = Set(token.t, <<>>)] ELSE refused
       [] token.t = "cmp" ->
            IF ~Accepted(token) THEN refused
            ELSE IF s.open = <<>>
            THEN [s EXCEPT !.heap = made.heap, !.out = Append(@, made.id)]
            ELSE IF fresh
            THEN [s EXCEPT !.heap = made.heap, !.open = Set("cmp", <<made.id>>)]
            ELSE refused
       [] token.t = ")" ->
            IF s.open = <<>> THEN refused
            ELSE IF top.op = "" \/ (top.op = "!" /\ Len(top.kids) # 1) THEN refused
            ELSE IF outer = <<>>
            THEN [s EXCEPT !.heap = closed.heap, !.open = <<>>, !.out = Append(@, closed.id)]
            ELSE [s EXCEPT !.heap = closed.heap,
                           !.open = Append(Front(outer), [Last(outer) EXCEPT
                                                          !.kids = Append(@, closed.id)])]

\* start and bare: a comparison gets a Group or, without brackets, a Container around it.
Wrapped(h, text, root) ==
  IF h[root].cls \notin Comparisons THEN [heap |-> h, id |-> root]
  ELSE New(h, Container(IF Len(text) = 1 THEN "container" ELSE "group", <<root>>))

\* Filter.parse: the filter's own Container holds the root.
Parse(text) ==
  LET Next1(s, token) == IF s.ok THEN Shift(s, token) ELSE s
      s == FoldLeft(Next1, Started, text)
      root == Wrapped(s.heap, text, s.out[1])
  IN IF text = <<>> THEN [heap |-> s.heap, ok |-> TRUE]
     ELSE IF ~s.ok \/ s.open # <<>> \/ Len(s.out) # 1 THEN [heap |-> s.heap, ok |-> FALSE]
     ELSE [heap |-> [root.heap EXCEPT ![1].kids = <<root.id>>], ok |-> TRUE]

\* from_format("(attribute=%s)", [value]): the parser takes the white space at its border.
FromFormat(value) ==
  LET s == Parse(<<Token("("), Compares("=", Special(value)), Token(")")>>)
  IN [s EXCEPT !.heap[2].want = Encoded(value), !.heap[2].lossy = Bordered(value)]

\* ------------------------------- the server -------------------------------

\* What a comparison asks for, whatever the spelling of the attribute.
Asked(c) == [cls |-> c.cls, rule |-> c.rule, want |-> c.want]

\* Whether an entry is found that has these numbers as values of the attribute.
RECURSIVE Finds(_, _, _)
Finds(h, id, entry) ==
  LET c == h[id]
      n == CHOOSE k \in 0..2 : Encoded(Str(k)) = Bytes(Printed(c).val)
  IN CASE c.cls = "!" -> ~Finds(h, c.kids[1], entry)
       [] c.cls = ">=" -> \E x \in entry : x >= n
       [] c.cls = "<=" -> \E x \in entry : x <= n
       [] OTHER -> n \in entry

=============================================================================
