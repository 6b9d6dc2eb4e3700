------------------------------ MODULE Filters ------------------------------
(***************************************************************************)
(* Filter.walk: it presents the objects of a parsed filter to the          *)
(* callbacks of a program, which edit the tree below the walk.             *)
(***************************************************************************)
EXTENDS FilterTree, FiniteSets

CONSTANTS
  Texts,      \* the filters that are parsed
  Values,     \* the values that a callback writes
  Asks,       \* the comparisons with a number that a callback writes
  Strategies, \* WalkStrategy
  MaxEdits    \* the edits of one walk

ASSUME FiltersAssumption == MaxEdits \in Nat /\ Strategies \subseteq {"BOTH", "POST", "PRE"}

VARIABLES
  heap,       \* the expression objects; the first one is Filter.ast
  stack,      \* walk's stack: parent, expression, is_pre_visit
  at,         \* the item that walk is at
  strategy,   \* of the walk
  pc,         \* "walk", "callback", "descend", "done", "raised"
  edits,      \* the edits so far
  seen,       \* history: what the callbacks were given
  parsed,     \* history: how many objects the parser made
  loose       \* history: objects whose place an operator callback changed before
              \* walk was through with them

vars == <<heap, stack, at, strategy, pc, edits, seen, parsed, loose>>

Nothing == 0
Item(parent, expr, pre) == [parent |-> parent, expr |-> expr, pre |-> pre]
IsComparison(id) == heap[id].cls \in Comparisons
IsOperator(id) == heap[id].cls \in Operators
Parent == heap[at.parent]

\* The first item of the stack is the root, None for an empty filter.
Root(h) == IF h[1].kids = <<>> THEN Nothing ELSE h[1].kids[1]

Init ==
  /\ \E s \in {Parse(text) : text \in Texts} \union {FromFormat(v) : v \in Values} :
       s.ok /\ heap = s.heap
  /\ strategy \in Strategies
  /\ stack = <<Item(1, Root(heap), TRUE)>>
  /\ at = Item(1, Nothing, TRUE)
  /\ pc = "walk" /\ edits = 0 /\ seen = <<>> /\ loose = {}
  /\ parsed = Len(heap)

\* ---------------------------------- walk ----------------------------------

\* A callback is called for comparisons, and for operators before or after what
\* they contain, as the strategy says.
Presented(item) ==
  \/ IsComparison(item.expr)
  \/ IsOperator(item.expr) /\ (item.pre => strategy \in {"PRE", "BOTH"})

\* The loop takes an item from the stack.
Visit ==
  LET item == Last(stack)
  IN /\ pc = "walk" /\ stack # <<>>
     /\ item.expr # Nothing
     /\ stack' = Front(stack) /\ at' = item
     /\ seen' = IF Presented(item) THEN Append(seen, item) ELSE seen
     /\ pc' = IF Presented(item) THEN "callback" ELSE "descend"
     /\ UNCHANGED <<heap, strategy, edits, parsed, loose>>

\* raise TypeError(expression): an empty filter has no root.
VisitNothing ==
  /\ pc = "walk" /\ stack # <<>> /\ Last(stack).expr = Nothing
  /\ pc' = "raised"
  /\ UNCHANGED <<heap, stack, at, strategy, edits, seen, parsed, loose>>

\* What walk pushes for a container: itself for the visit after its operands, and
\* the operands that it has at this moment, the first one on top.
Again(h, item) ==
  IF strategy \in {"POST", "BOTH"} /\ h[item.expr].cls \in Operators
  THEN <<Item(item.parent, item.expr, FALSE)>> ELSE <<>>
Expressions(h, item) ==
  Reverse([i \in DOMAIN h[item.expr].kids |-> Item(item.expr, h[item.expr].kids[i], TRUE)])

\* Mutant: the visit after the operands is pushed last.
PushedOnTop(h, item) == Expressions(h, item) \o Again(h, item)
\* Mutant: only the comparisons among the operands are pushed.
PushedComparisons(h, item) ==
  Again(h, item) \o
    SelectSeq(Expressions(h, item), LAMBDA i : h[i.expr].cls \in Comparisons \/ item.parent = 1)

Pushed(h, item) == Again(h, item) \o Expressions(h, item)

Descend ==
  /\ pc = "descend" /\ pc' = "walk"
  /\ stack' = stack \o Pushed(heap, at)
  /\ UNCHANGED <<heap, at, strategy, edits, seen, parsed, loose>>

Finish ==
  /\ pc = "walk" /\ stack = <<>> /\ pc' = "done"
  /\ UNCHANGED <<heap, stack, at, strategy, edits, seen, parsed, loose>>

\* -------------------------------- callbacks -------------------------------

\* The callback returns: an operator that was visited first is descended into.
Returns ==
  /\ pc' = IF at.pre /\ IsOperator(at.expr) THEN "descend" ELSE "walk"
  /\ UNCHANGED <<stack, at, strategy, seen, parsed>>

Keep ==
  /\ pc = "callback" /\ Returns
  /\ UNCHANGED <<heap, edits, loose>>

Edit == pc = "callback" /\ edits < MaxEdits /\ edits' = edits + 1

\* The positions of an object in its parent, compared with "is".
Positions(parent, expr) == {i \in DOMAIN heap[parent].kids : heap[parent].kids[i] = expr}
First(positions) == CHOOSE i \in positions : \A j \in positions : i <= j

\* What happens to the visits to come: when an operator is taken out of the tree
\* before its operands were visited, theirs are as loose as its own second one.
Loosens(objects) ==
  loose' = IF at.pre /\ IsOperator(at.expr) THEN loose \union objects ELSE loose

\* Container.replace and Container.remove, of the presented object in its parent,
\* raise a ValueError when it is not there.
Place(h, kids, objects) ==
  IF Positions(at.parent, at.expr) = {}
  THEN /\ pc' = "raised" /\ heap' = h
       /\ UNCHANGED <<stack, at, strategy, seen, parsed, loose>>
  ELSE /\ heap' = [h EXCEPT ![at.parent].kids = kids]
       /\ Loosens(objects) /\ Returns

\* Mutant: replace leaves a hole.
Hollowed(replacement) == ReplaceAt(Parent.kids, First(Positions(at.parent, at.expr)), Nothing)

Replaced(replacement) ==
  ReplaceAt(Parent.kids, First(Positions(at.parent, at.expr)), replacement)

\* parent.replace(expression, NOT([expression]))
Negate ==
  LET new == New(heap, Container("!", <<at.expr>>))
  IN Edit /\ Place(new.heap, Replaced(new.id), {at.expr})

\* parent.replace(expression, NOT([expression.copy()]))
NegateCopy ==
  LET copy == Copy(heap, at.expr)
      new == New(copy.heap, Container("!", <<copy.id>>))
  IN Edit /\ Place(new.heap, Replaced(new.id), Below(heap, at.expr))

\* parent.replace(expression, expression.copy() | expression.copy())
Either ==
  LET one == Copy(heap, at.expr)
      other == Copy(one.heap, at.expr)
      new == New(other.heap, Container("|", <<one.id, other.id>>))
  IN Edit /\ IsComparison(at.expr) /\ Place(new.heap, Replaced(new.id), {})

\* parent.replace(expression, expression & (attribute > number))
Conjoin ==
  \E a \in Asks :
    LET written == Written(heap, a)
        new == New(written.heap, Container("&", <<at.expr, written.id>>))
    IN Edit /\ Place(new.heap, Replaced(new.id), {at.expr})

\* parent.replace(expression, attribute == expression.value), with a matching rule.
Rebuild ==
  LET old == heap[at.expr]
      built == Built(":=", Value(old))
      new == New(heap, [built EXCEPT
                          !.attr = old.attr, !.want = old.want,
                          !.lossy = @ \/ old.lossy \/ (old.is_escaped /\ Has(Value(old), "?"))])
  IN /\ Edit /\ old.cls \in Signs
     /\ Place(new.heap, Replaced(new.id), {})

\* parent.remove(expression)
TakeOut ==
  Edit /\ Place(heap, RemoveAt(Parent.kids, First(Positions(at.parent, at.expr))),
                Below(heap, at.expr))

\* parent.replace(expression, expression.expressions[0])
Unwrap ==
  /\ Edit /\ heap[at.expr].cls \in {"&", "|"} /\ Len(heap[at.expr].kids) = 1
  /\ Place(heap, Replaced(heap[at.expr].kids[1]), Below(heap, at.expr))

\* expression.remove(expr), in the callback for an operator
Drop ==
  /\ Edit /\ IsOperator(at.expr)
  /\ \E i \in DOMAIN heap[at.expr].kids : heap' = [heap EXCEPT ![at.expr].kids = RemoveAt(@, i)]
  /\ Returns /\ UNCHANGED loose

\* The example that merges duplicates, a callback for operators.
Merge ==
  /\ Edit /\ IsOperator(at.expr)
  /\ Merged(heap, heap[at.expr].kids) # heap[at.expr].kids
  /\ heap' = [heap EXCEPT ![at.expr].kids = Merged(heap, @)]
  /\ Returns /\ UNCHANGED loose

\* expression.value = value
SetValue ==
  /\ Edit /\ heap[at.expr].cls \in Signs
  /\ \E v \in Values : heap' = [heap EXCEPT ![at.expr] = WithValue(@, v)]
  /\ Returns /\ UNCHANGED loose

\* parent.append(attribute == value), == ['', value, ''] or != None
AppendNew ==
  /\ Edit
  /\ \E built \in {Presence} \union {Built("=", v) : v \in Values}
                   \union {Substring(<<<<>>, v, <<>>>>) : v \in Values} :
       LET new == New(heap, built)
       IN heap' = [new.heap EXCEPT ![at.parent].kids = Append(@, new.id)]
  /\ Returns /\ UNCHANGED loose

\* parent.insert(attribute > value)
InsertNew ==
  /\ Edit
  /\ \E v \in Values :
       LET le == New(heap, Built("<=", v))
           new == New(le.heap, Container("!", <<le.id>>))
       IN heap' = [new.heap EXCEPT ![at.parent].kids = InsertAt(@, 1, new.id)]
  /\ Returns /\ UNCHANGED loose

Next ==
  \/ Visit \/ VisitNothing \/ Descend \/ Finish
  \/ Keep \/ Negate \/ NegateCopy \/ Either \/ Conjoin \/ Rebuild \/ TakeOut \/ Unwrap \/ Merge \/ Drop
  \/ SetValue \/ AppendNew \/ InsertNew

Spec == Init /\ [][Next]_vars

\* ------------------------------- properties -------------------------------

Tree == Below(heap, 1)

TypeOK ==
  /\ \A id \in DOMAIN heap :
       /\ heap[id].cls \in Comparisons \union Operators \union {"group", "container"}
       /\ ToSet(heap[id].kids) \subseteq DOMAIN heap
       /\ heap[id].is_escaped \in BOOLEAN /\ heap[id].lossy \in BOOLEAN
       /\ heap[id].attr \in Attributes /\ (heap[id].rule # NoRule => heap[id].cls = ":=")
  /\ strategy \in Strategies /\ edits \in 0..MaxEdits
  /\ pc \in {"walk", "callback", "descend", "done", "raised"}
  /\ parsed <= Len(heap) /\ loose \subseteq DOMAIN heap
  /\ \A i \in DOMAIN seen : {seen[i].parent, seen[i].expr} \subseteq DOMAIN heap

SeenComparisons == SelectSeq(seen, LAMBDA item : IsComparison(item.expr))
SeenOperator(id, pre) == {i \in DOMAIN seen : seen[i].expr = id /\ seen[i].pre = pre}


\* No edit makes walk miss an object: when it is through, every object of the text
\* that is still in the tree was presented; an operator once before and once after its
\* operands, or only one of both, as the strategy says (filter.py 618-636).
NoneMissed ==
  pc = "done" =>
    \A id \in Tree \intersect 1..parsed :
      /\ IsComparison(id) => \E i \in DOMAIN seen : seen[i].expr = id
      /\ IsOperator(id) =>
           /\ Cardinality(SeenOperator(id, TRUE)) = IF strategy = "POST" THEN 0 ELSE 1
           /\ Cardinality(SeenOperator(id, FALSE)) = IF strategy = "PRE" THEN 0 ELSE 1

\* An operator is presented after everything in it was (POST), so that a callback can
\* decide on what the others have left of it, or before all of it (PRE); what earlier
\* edits moved below it counts as well (filter.py 624-636).
OperatorsInTurn ==
  (pc = "callback" /\ IsOperator(at.expr)) =>
    \A id \in Below(heap, at.expr) :
      (IsComparison(id) /\ id <= parsed) =>
        ((\E i \in DOMAIN seen : seen[i].expr = id) <=> ~at.pre)


\* The filter asks the server for what the text or the program wanted, through
\* parsing, escaping, copying and printing (filter.py 218-254, 322-324, 586-597); the
\* conversions with a known loss are excepted.
MeaningKept ==
  \A id \in Tree :
    (IsComparison(id) /\ ~heap[id].lossy) => Bytes(Printed(heap[id]).val) = heap[id].want

\* Two comparisons that are equal ask the server for the same, one parsed with escapes and
\* one built from a decoded value included (filter.py 218-223, 259-268), but for the matching
\* rules of two extensible matches, which == does not look at.  Those that ask for the same
\* are equal if their attributes are spelled alike.  Excepted are substring matches, whose
\* asterisks look like those of a value, and characters that unescape has lost.
EqualMeansSame ==
  LET Sound == {id \in Tree : /\ heap[id].cls \in Comparisons \ {"sub"} /\ ~heap[id].lossy
                              /\ ~Has(Value(heap[id]), "?")}
  IN \A i, j \in Sound :
       LET c == heap[i] d == heap[j]
       IN /\ Equal(c, d) => Asked([c EXCEPT !.rule = d.rule]) = Asked(d)
          /\ Asked(c) = Asked(d) /\ c.attr = d.attr => Equal(c, d)

Holds(op, x, n) ==
  CASE op = ">" -> x > n [] op = "<" -> x < n [] op = ">=" -> x >= n
    [] op = "<=" -> x <= n [] op = "!=" -> x # n [] OTHER -> x = n

\* The server finds the entries that the comparison written by the program is true of
\* (filter.py 157-180, 537-559), although LDAP has no strict order: up to the next number,
\* wherever the expression was put, and copied.  An entry without the attribute is found
\* only where a negation stands for the strict order of a str, or for !=.
ComparedAsWritten ==
  \A id \in Tree : \A a \in heap[id].asks :
    /\ \A x \in 0..2 : Finds(heap, id, {x}) <=> Holds(a.op, x, a.n)
    /\ (a.int /\ a.op # "!=") => ~Finds(heap, id, {})

\* A negation has one operand, and there is one root.
WellFormed ==
  \A id \in Tree : heap[id].cls \in {"!", "group", "container"} => Len(heap[id].kids) = 1
Lossless == \A id \in Tree : ~heap[id].lossy

\* With the decoded values in place of the encoded ones.
Decoded(h) ==
  [id \in DOMAIN h |-> [h[id] EXCEPT !.raw = Value(h[id]), !.is_escaped = TRUE]]

\* The printed filter can be parsed again and gives the same tree with equal values
\* (filter.py 390-404, 461-476, 645-648, 666-768).
SameWhenParsedAgain ==
  (pc = "done" /\ WellFormed /\ Lossless) =>
    LET again == Parse(Text(heap, 1))
    IN again.ok /\ Text(Decoded(again.heap), 1) = Text(Decoded(heap), 1)
=============================================================================
