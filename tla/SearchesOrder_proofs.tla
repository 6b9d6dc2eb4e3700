------------------------- MODULE SearchesOrder_proofs -------------------------
(***************************************************************************)
(* What the searches find is in order and was there, and unique=True finds *)
(* one entry: the invariants InOrder and UniqueKept of module Searches.    *)
(* They rest on the types and the moves of module Searches_proofs.         *)
(***************************************************************************)
EXTENDS Searches_proofs

(***************************************************************************)
(* Invariants of the order and of unique.                                  *)
(***************************************************************************)
\* What a frame has found ascends: first what the program has, then what it is given next, then what
\* the messages have; and all of it was there during the search.
Lined(fr) ==
  /\ \A n \in DOMAIN fr.out : /\ fr.out[n].e \in fr.seen
                              /\ \A m \in DOMAIN fr.out : m < n => fr.out[m].e < fr.out[n].e
  /\ Ascends(fr.left)
  /\ \A n \in DOMAIN fr.left : /\ fr.left[n] \in fr.seen
                               /\ \A m \in DOMAIN fr.out : fr.out[m].e < fr.left[n]
  /\ \A k \in DOMAIN fr.msgs :
       /\ Ascends(fr.msgs[k].found)
       /\ \A n \in DOMAIN fr.msgs[k].found :
            /\ fr.msgs[k].found[n] \in fr.seen
            /\ \A m \in DOMAIN fr.out : fr.out[m].e < fr.msgs[k].found[n]
            /\ \A j \in DOMAIN fr.msgs : j < k =>
                 \A m \in DOMAIN fr.msgs[j].found : fr.msgs[j].found[m] < fr.msgs[k].found[n]
  /\ fr.phase = "ask" /\ fr.op \notin {"paged", "paginated"} => fr.out = <<>>

\* Nothing that the frame has found is greater than x.
Upto(fr, x) ==
  /\ \A n \in DOMAIN fr.out : fr.out[n].e <= x
  /\ \A n \in DOMAIN fr.left : fr.left[n] <= x
  /\ \A k \in DOMAIN fr.msgs : \A n \in DOMAIN fr.msgs[k].found : fr.msgs[k].found[n] <= x

\* All of it is less than x.
Below(fr, x) ==
  /\ \A n \in DOMAIN fr.out : fr.out[n].e < x
  /\ \A n \in DOMAIN fr.left : fr.left[n] < x
  /\ \A k \in DOMAIN fr.msgs : \A n \in DOMAIN fr.msgs[k].found : fr.msgs[k].found[n] < x

\* search_paged(): the cookie is behind all that was found.
CookieBehind(fr, list) ==
  /\ fr.op \in Iterates => \A k \in DOMAIN fr.msgs :
       fr.msgs[k].resp.paged # None => Upto(fr, fr.msgs[k].resp.paged)
  /\ fr.op = "paged" /\ fr.phase = "ask" /\ fr.out # <<>> =>
       \E n \in DOMAIN list : list[n].type = "paged" /\ list[n].at # None /\ Upto(fr, list[n].at)

\* search_paginated(): the pages that were asked for end before list[k] for each such k.
Bound(fr) == IF fr.phase = "ask" THEN (fr.page - 1) * PageSize ELSE fr.page * PageSize
Ahead(fr, list) == \A k \in DOMAIN list : k > Bound(fr) => Below(fr, list[k])
AheadIn(fr, resp) == resp.vlv # None => Ahead(fr, resp.vlv.context)

\* The control asks for the page, of a list that has what was found before it, or of a new list.
ControlAhead(fr, list) ==
  fr.op = "paginated" /\ Open(fr) =>
    \A n \in DOMAIN list : list[n].type = "vlv" =>
      /\ list[n].at = (fr.page - 1) * PageSize + 1
      /\ list[n].context = None => (fr.phase = "ask" => fr.out = <<>>)
      /\ list[n].context # None => Ahead(fr, list[n].context)

\* So does every list that the next control may be of.
ResponsesAhead ==
  frames[1].op = "paginated" =>
    /\ frames[1].phase = "poll" => \A k \in DOMAIN frames[1].msgs : AheadIn(frames[1], frames[1].msgs[k].resp)
    /\ frames[1].phase = "yield" =>
         /\ AheadIn(frames[1], controls[frames[1].ref].response)
         /\ frames[2].ref = frames[1].ref =>
              \A k \in DOMAIN frames[2].msgs : AheadIn(frames[1], frames[2].msgs[k].resp)

OrderInv ==
  /\ \A f \in 1 .. 2 : Lined(frames[f])
  /\ CookieBehind(frames[1], controls[frames[1].ref].server)
  /\ ControlAhead(frames[1], controls[frames[1].ref].server)
  /\ ResponsesAhead

\* unique: one result, on the first page; a page with a cookie is full, a list with more entries
\* than one fills a page, and has two.
Few(resp) == resp.vlv # None => resp.vlv.count <= 1
AtFirst(fr, list) ==
  /\ fr.page = 1 /\ fr.entry = Len(fr.out)
  /\ fr.op \in Iterates => \A k \in DOMAIN fr.msgs :
       fr.msgs[k].resp.paged # None => fr.entry + Len(fr.msgs) > PageSize
  /\ fr.op = "paginated" =>
       /\ fr.left = <<>>
       /\ \A n \in DOMAIN list : list[n].type = "vlv" => list[n].at = 1 /\ list[n].context = None
       /\ fr.phase = "poll" => \A k \in DOMAIN fr.msgs :
            fr.msgs[k].err = "ok" => Few(fr.msgs[k].resp) \/ Len(fr.msgs[k].found) > 1
FewAhead ==
  frames[1].op = "paginated" /\ frames[1].phase = "yield" =>
    /\ Few(controls[frames[1].ref].response)
    /\ frames[2].ref = frames[1].ref => \A k \in DOMAIN frames[2].msgs : Few(frames[2].msgs[k].resp)
OneFound == \A f \in 1 .. 2 : frames[f].unique => Len(frames[f].out) <= 1

UniqueInv ==
  PageSize > 1 =>
    /\ OneFound
    /\ frames[1].unique /\ Open(frames[1]) =>
         AtFirst(frames[1], controls[frames[1].ref].server) /\ FewAhead

\* Facts of the types that the steps need.
LEMMA FrameFacts ==
  ASSUME TypeInv, NEW f \in 1 .. 2
  PROVE  /\ frames[f] \in Frame /\ FrameOK(frames[f]) /\ frames[f].ref \in 0 .. 2
         /\ 1 \in 1 .. 2 /\ 2 \in 1 .. 2
<1>1. frames[f] \in Frame /\ FrameOK(frames[f])
  BY DEF TypeInv, FramesOK
<1>2. frames[f].ref \in 0 .. 2
  BY <1>1 DEF Frame
<1> QED
  BY <1>1, <1>2

\* A quiet step keeps the order, what is behind the cookie, and what is before a list.
LEMMA LinedQuiet ==
  ASSUME NEW x, NEW y, Lined(x), Quiet(x, y)
  PROVE  Lined(y)
<1>1. y.out = x.out /\ x.seen \subseteq y.seen /\ y.op = x.op
  BY DEF Quiet
<1>2. CASE y.phase = "done" /\ y.msgs = <<>> /\ y.left = <<>>
  BY <1>1, <1>2 DEF Lined, Ascends
<1>3. CASE /\ y.left = x.left /\ y.msgs \in {x.msgs, <<>>}
           /\ y.phase = x.phase \/ (x.phase = "yield" /\ y.phase = "poll" /\ x.op \in Iterates)
  <2>1. y.phase = "ask" => x.phase = "ask"
    BY <1>3
  <2>2. CASE y.msgs = x.msgs
    BY <1>1, <1>3, <2>1, <2>2 DEF Lined, Ascends
  <2>3. CASE y.msgs = <<>>
    BY <1>1, <1>3, <2>1, <2>3 DEF Lined, Ascends
  <2> QED
    BY <1>3, <2>2, <2>3
<1> QED
  BY <1>2, <1>3 DEF Quiet

\* A quiet frame has no more than before, so it stays below what it was below.
LEMMA BelowQuiet ==
  ASSUME NEW x, NEW y, Quiet(x, y)
  PROVE  /\ \A e : Below(x, e) => Below(y, e)
         /\ \A e : Upto(x, e) => Upto(y, e)
<1>1. y.out = x.out /\ y.left \in {x.left, <<>>} /\ y.msgs \in {x.msgs, <<>>}
  BY DEF Quiet
<1>2. DOMAIN <<>> = {}
  OBVIOUS
<1> QED
  BY <1>1, <1>2 DEF Below, Upto

\* So it stays before the cookie.
LEMMA CookieQuiet ==
  ASSUME NEW x, NEW y, Quiet(x, y), NEW list, CookieBehind(x, list)
  PROVE  CookieBehind(y, list)
<1>1. /\ y.msgs \in {x.msgs, <<>>} /\ (y.phase = "ask" => x.phase = "ask")
      /\ y.op = x.op /\ y.out = x.out
  BY DEF Quiet
<1>2. \A e : Upto(x, e) => Upto(y, e)
  BY BelowQuiet
<1>3. ASSUME y.op \in Iterates, NEW k \in DOMAIN y.msgs, y.msgs[k].resp.paged # None
      PROVE  Upto(y, y.msgs[k].resp.paged)
  <2>1. y.msgs = x.msgs
    BY <1>1, <1>3
  <2>2. Upto(x, x.msgs[k].resp.paged)
    BY <1>1, <1>3, <2>1 DEF CookieBehind
  <2> QED
    BY <1>2, <2>1, <2>2
<1>4. ASSUME y.op = "paged", y.phase = "ask", y.out # <<>>
      PROVE  \E n \in DOMAIN list : list[n].type = "paged" /\ list[n].at # None /\ Upto(y, list[n].at)
  <2>1. \E n \in DOMAIN list : list[n].type = "paged" /\ list[n].at # None /\ Upto(x, list[n].at)
    BY <1>1, <1>4 DEF CookieBehind
  <2> QED
    BY <1>2, <2>1
<1> QED
  BY <1>3, <1>4 DEF CookieBehind

\* A generator that stays quiet has the same lists ahead of it.
LEMMA AheadQuiet ==
  ASSUME NEW x, NEW y, Quiet(x, y), Open(y), x.op = "paginated"
  PROVE  /\ y.phase = x.phase /\ y.page = x.page
         /\ \A list : Ahead(x, list) => Ahead(y, list)
         /\ \A resp : AheadIn(x, resp) => AheadIn(y, resp)
<1>1. y.phase = x.phase /\ y.page = x.page
  BY DEF Quiet, Open, Iterates
<1>2. Bound(y) = Bound(x)
  BY <1>1 DEF Bound
<1> QED
  BY <1>1, <1>2, BelowQuiet DEF Ahead, AheadIn

\* A step that finds nothing keeps the invariant.
LEMMA QuietOrder ==
  ASSUME TypeInv, OrderInv, QuietStep
  PROVE  OrderInv'
<1> DEFINE x == frames[1]
           y == frames'[1]
           list == controls[x.ref].server
<1>1. /\ Quiet(x, y) /\ Quiet(frames[2], frames'[2]) /\ x.ref \in 0 .. 2 /\ ControlsKept
  BY FrameFacts DEF QuietStep
<1>2. y.ref = x.ref /\ y.op = x.op /\ y.out = x.out /\ controls'[y.ref].server = list
  BY <1>1 DEF Quiet, ControlsKept
<1>3. (\A f \in 1 .. 2 : Lined(frames[f]))'
  BY LinedQuiet DEF OrderInv, QuietStep
<1>4. CookieBehind(y, list)
  BY <1>1, CookieQuiet DEF OrderInv
<1>5. ControlAhead(y, list)
  <2>1. CASE x.op = "paginated" /\ Open(y)
    <3>1. y.phase = x.phase /\ y.page = x.page /\ \A l : Ahead(x, l) => Ahead(y, l)
      BY <1>1, <2>1, AheadQuiet
    <3>2. Open(x)
      BY <2>1, <3>1 DEF Open
    <3> QED
      BY <1>2, <2>1, <3>1, <3>2 DEF ControlAhead, OrderInv
  <2> QED
    BY <1>2, <2>1 DEF ControlAhead
<1>6. ResponsesAhead'
  <2>1. CASE x.op = "paginated" /\ Open(y)
    <3>1. /\ y.phase = x.phase /\ y.page = x.page
          /\ \A resp : AheadIn(x, resp) => AheadIn(y, resp)
      BY <1>1, <2>1, AheadQuiet
    <3>2. y.phase = "poll" => \A k \in DOMAIN y.msgs : AheadIn(y, y.msgs[k].resp)
      <4>1. y.msgs \in {x.msgs, <<>>}
        BY <1>1 DEF Quiet
      <4> QED
        BY <2>1, <3>1, <4>1 DEF OrderInv, ResponsesAhead
    <3>3. ASSUME y.phase = "yield"
          PROVE  AheadIn(y, controls'[y.ref].response)
      <4>1. AheadIn(x, controls[x.ref].response)
        BY <2>1, <3>1, <3>3 DEF OrderInv, ResponsesAhead
      <4>2. frames[2].ref = x.ref => \A k \in DOMAIN frames[2].msgs : AheadIn(x, frames[2].msgs[k].resp)
        BY <2>1, <3>1, <3>3 DEF OrderInv, ResponsesAhead
      <4>3. \/ controls'[x.ref].response = controls[x.ref].response
            \/ x.ref = frames[2].ref /\ \E k \in DOMAIN frames[2].msgs :
                 controls'[x.ref].response = frames[2].msgs[k].resp
        BY <1>1, <3>3 DEF ControlsKept
      <4> QED
        BY <1>2, <3>1, <4>1, <4>2, <4>3
    <3>4. ASSUME y.phase = "yield", frames'[2].ref = y.ref, NEW k \in DOMAIN frames'[2].msgs
          PROVE  AheadIn(y, frames'[2].msgs[k].resp)
      <4>1. frames'[2].ref = frames[2].ref /\ frames'[2].msgs \in {frames[2].msgs, <<>>}
        BY <1>1 DEF Quiet
      <4>2. frames'[2].msgs = frames[2].msgs
        BY <3>4, <4>1
      <4> QED
        BY <1>2, <2>1, <3>1, <3>4, <4>1, <4>2 DEF OrderInv, ResponsesAhead
    <3> QED
      BY <1>2, <2>1, <3>2, <3>3, <3>4 DEF ResponsesAhead
  <2>2. CASE ~(x.op = "paginated" /\ Open(y))
    BY <1>2, <2>2 DEF ResponsesAhead, Open
  <2> QED
    BY <2>1, <2>2
<1> QED
  BY <1>2, <1>3, <1>4, <1>5, <1>6 DEF OrderInv

\* A new generator has found nothing, and asks for the first page of a new list; a get() changes
\* no control of a request.
LEMMA AlikeQuiet ==
  ASSUME NEW x, NEW y, Alike(x, y)
  PROVE  Quiet(x, y)
BY DEF Alike, Quiet

\* A frame that has nothing is in order.
LEMMA NewLined ==
  ASSUME NEW x, x.out = <<>>, x.left = <<>>, x.msgs = <<>>
  PROVE  Lined(x)
<1>1. DOMAIN <<>> = {}
  OBVIOUS
<1> QED
  BY <1>1 DEF Lined, Ascends

\* So is one that has yielded all it had.
LEMMA YieldedLined ==
  ASSUME NEW x, NEW y, Lined(x), y.out = x.out, y.seen = x.seen, y.left = <<>>, y.msgs = <<>>,
         y.op \in {"paged", "paginated"}
  PROVE  Lined(y)
<1>1. DOMAIN <<>> = {}
  OBVIOUS
<1>2. \A n \in DOMAIN y.out : /\ y.out[n].e \in y.seen
                              /\ \A m \in DOMAIN y.out : m < n => y.out[m].e < y.out[n].e
  BY DEF Lined
<1>3. Ascends(y.left)
  BY <1>1 DEF Ascends
<1>4. DOMAIN y.left = {} /\ DOMAIN y.msgs = {}
  BY <1>1
<1> QED
  BY <1>2, <1>3, <1>4 DEF Lined

\* A call of the program keeps the invariant.
LEMMA CallOrder ==
  ASSUME TypeInv, OrderInv, Calls
  PROVE  OrderInv'
<1>1. PICK f \in 1 .. 2, sorted \in BOOLEAN, unique \in BOOLEAN : \E op, ref :
        Call(f, op, ref, sorted, unique) /\ BeginEffect(f, op, ref, sorted, unique)
  BY DEF Calls
<1>2. PICK op, ref : Call(f, op, ref, sorted, unique) /\ BeginEffect(f, op, ref, sorted, unique)
  BY <1>1
<1>3. ref \in 0 .. 2
  BY <1>2 DEF Call
<1> DEFINE prepared == Prepared(op, Given(ref), sorted)
<1>4. /\ prepared.response = Given(ref).response
      /\ op = "get" /\ ~sorted => prepared = Given(ref)
      /\ op = "paginated" => \A n \in DOMAIN prepared.server : prepared.server[n].type = "vlv" =>
           prepared.server[n].at = 1 /\ prepared.server[n].context = None
  BY <1>3, GivenFacts, PreparedFacts
<1>5. controls'[ref] = prepared /\ \A c \in 0 .. 2 : c # ref => controls'[c] = controls[c]
  BY <1>2 DEF BeginEffect
<1> HIDE DEF prepared
<1>6. /\ frames'[f].op = op /\ frames'[f].ref = ref /\ frames'[f].phase = "ask" /\ frames'[f].page = 1
      /\ frames'[f].out = <<>> /\ frames'[f].msgs = <<>> /\ frames'[f].left = <<>>
  BY <1>2 DEF BeginEffect
<1>7. \A g \in 1 .. 2 : g # f => Quiet(frames[g], frames'[g]) /\ Alike(frames[g], frames'[g])
  BY <1>2, AlikeQuiet DEF BeginEffect
<1>8. (\A g \in 1 .. 2 : Lined(frames[g]))'
  BY <1>6, <1>7, NewLined, LinedQuiet DEF OrderInv
<1>9. CASE f = 1
  <2>1. CookieBehind(frames'[1], controls'[frames'[1].ref].server)
    BY <1>6, <1>9 DEF CookieBehind
  <2>2. ControlAhead(frames'[1], controls'[frames'[1].ref].server)
    <3>1. PageSize \in Nat
      BY ConstantsAssumption
    <3>2. (1 - 1) * PageSize + 1 = 1
      BY <3>1
    <3>3. 1 # None
      BY ConstantsAssumption
    <3> QED
      BY <1>4, <1>5, <1>6, <1>9, <3>2 DEF ControlAhead
  <2>3. ResponsesAhead'
    BY <1>6, <1>9 DEF ResponsesAhead
  <2> QED
    BY <1>8, <2>1, <2>2, <2>3 DEF OrderInv
<1>10. CASE f = 2
  <2> DEFINE x == frames[1]
             y == frames'[1]
  <2>1. op = "get" /\ ~sorted /\ ref \in {0, 2} /\ x.phase = "yield"
    BY <1>2, <1>10 DEF Call
  <2>2. Quiet(x, y) /\ Alike(x, y) /\ y.ref \in {0, 1} /\ y.ref = x.ref /\ y.op = x.op /\ y.out = x.out
    BY <1>7, <1>10 DEF Alike, TypeInv, Roles
  <2>3. controls'[y.ref] = controls[y.ref]
    BY <1>4, <1>5, <2>1, <2>2 DEF Given
  <2>4. CookieBehind(y, controls[x.ref].server)
    BY <2>2, CookieQuiet DEF OrderInv
  <2>5. y.phase = x.phase /\ y.page = x.page
    BY <2>2 DEF Alike
  <2>6. ControlAhead(y, controls[x.ref].server)
    <3>1. Open(x) /\ Open(y)
      BY <2>1, <2>5 DEF Open
    <3>2. CASE x.op = "paginated"
      <4>1. \A l : Ahead(x, l) => Ahead(y, l)
        BY <2>2, <3>1, <3>2, AheadQuiet
      <4> QED
        BY <2>2, <2>5, <3>1, <4>1 DEF ControlAhead, OrderInv
    <3> QED
      BY <2>2, <3>2 DEF ControlAhead
  <2>7. ResponsesAhead'
    <3>1. CASE x.op = "paginated"
      <4>1. \A resp : AheadIn(x, resp) => AheadIn(y, resp)
        BY <2>1, <2>2, <2>5, <3>1, AheadQuiet DEF Open
      <4>2. AheadIn(x, controls[x.ref].response)
        BY <2>1, <3>1 DEF OrderInv, ResponsesAhead
      <4> QED
        BY <1>6, <1>10, <2>1, <2>2, <2>3, <2>5, <4>1, <4>2 DEF ResponsesAhead
    <3> QED
      BY <2>2, <3>1 DEF ResponsesAhead
  <2> QED
    BY <1>8, <2>2, <2>3, <2>4, <2>6, <2>7 DEF OrderInv
<1> QED
  BY <1>9, <1>10

(***************************************************************************)
(* Answers.                                                                *)
(***************************************************************************)
\* The messages have the entries of the answer, in their order, and its response in the last one.
LEMMA AnswerMessages ==
  ASSUME NEW a, Ordered(a), NEW msgs \in {Messages(a), Whole(a)}
  PROVE  \A k \in DOMAIN msgs :
           /\ Ascends(msgs[k].found)
           /\ \A n \in DOMAIN msgs[k].found :
                /\ \E i \in DOMAIN a.found : msgs[k].found[n] = a.found[i]
                /\ \A j \in DOMAIN msgs : j < k =>
                     \A m \in DOMAIN msgs[j].found : msgs[j].found[m] < msgs[k].found[n]
           /\ msgs[k].resp = a.resp \/ msgs[k].resp = NoResponse
<1>1. a \in AnswerType /\ Ascends(a.found) /\ a.found \in Seq(Entries)
  BY DEF Ordered, AnswerType
<1>2. CASE msgs = Whole(a)
  <2>1. DOMAIN msgs = {1} /\ msgs[1].found = a.found /\ msgs[1].resp = a.resp
    BY <1>1, <1>2, WholeFacts
  <2> QED
    BY <1>1, <2>1
<1>3. CASE msgs = Messages(a)
  <2> DEFINE last == Len(a.found) + 1
             one(n) == [found |-> <<a.found[n]>>, resp |-> NoResponse, err |-> "ok", final |-> FALSE]
             end == [found |-> <<>>, resp |-> a.resp, err |-> a.err, final |-> TRUE]
  <2>1. /\ Len(msgs) = last /\ Len(a.found) \in Nat /\ msgs \in Seq(Reply)
        /\ \A n \in 1 .. Len(a.found) : msgs[n] = one(n)
        /\ msgs[last] = end
    BY <1>1, <1>3, MessagesFacts
  <2>2. \A n : one(n).found = <<a.found[n]>> /\ one(n).resp = NoResponse
    OBVIOUS
  <2>3. end.found = <<>> /\ end.resp = a.resp
    OBVIOUS
  <2> HIDE DEF one, end
  <2>4. /\ DOMAIN msgs = 1 .. last /\ DOMAIN a.found = 1 .. Len(a.found)
    BY <1>1, <2>1
  <2>5. \A k \in DOMAIN msgs :
          \/ k \in DOMAIN a.found /\ msgs[k].found = <<a.found[k]>> /\ msgs[k].resp = NoResponse
          \/ msgs[k].found = <<>> /\ msgs[k].resp = a.resp
    BY <2>1, <2>2, <2>3, <2>4
  <2>6. \A k \in DOMAIN msgs : \A n \in DOMAIN msgs[k].found :
          k \in DOMAIN a.found /\ n = 1 /\ msgs[k].found[n] = a.found[k]
    BY <2>5
  <2>7. \A j, k \in DOMAIN msgs : j < k =>
          \A m \in DOMAIN msgs[j].found, n \in DOMAIN msgs[k].found : msgs[j].found[m] < msgs[k].found[n]
    BY <1>1, <2>6 DEF Ascends
  <2>8. \A k \in DOMAIN msgs : Ascends(msgs[k].found)
    BY <2>6 DEF Ascends
  <2> QED
    BY <2>5, <2>6, <2>7, <2>8
<1> QED
  BY <1>2, <1>3

\* A frame that has an answer asked for it with its own controls.
LEMMA AskRequest ==
  ASSUME TypeInv, NEW f \in 1 .. 2, NEW a, AskEffect(f, a)
  PROVE  /\ Request(controls[frames[f].ref].server) /\ ServerOK
         /\ a \in Answers(controls[frames[f].ref].server, Base(f))
         /\ frames'[f].msgs \in {Messages(a), Whole(a)}
<1>1. frames[f].ref \in 0 .. 2
  BY FrameFacts
<1>2. ServerOK /\ Request(controls[frames[f].ref].server)
  BY <1>1 DEF TypeInv, ControlsOK
<1>3. /\ a \in Answers(controls[frames[f].ref].server, Base(f))
      /\ frames'[f].msgs \in {Messages(a), Whole(a)}
  BY DEF AskEffect
<1> QED
  BY <1>2, <1>3

\* The answer is one of the server's.
LEMMA AskAnswer ==
  ASSUME TypeInv, NEW f \in 1 .. 2, NEW a, AskEffect(f, a)
  PROVE  Ordered(a) /\ FullPage(a) /\ a \in AnswerType /\ a.found \in Seq(Entries)
<1>1. Ordered(a) /\ FullPage(a)
  <2> DEFINE list == controls[frames[f].ref].server
  <2>1. ServerOK /\ Request(list) /\ a \in Answers(list, Base(f))
    BY AskRequest
  <2> HIDE DEF list
  <2> QED
    BY <2>1, AnswerFacts
<1>2. a \in AnswerType /\ a.found \in Seq(Entries)
  BY <1>1 DEF Ordered, AnswerType
<1> QED
  BY <1>1, <1>2

\* Where the controls begin are numbers.
LEMMA AskPlaces ==
  ASSUME TypeInv, NEW f \in 1 .. 2, NEW a, AskEffect(f, a),
         NEW k \in DOMAIN controls[frames[f].ref].server
  PROVE  controls[frames[f].ref].server[k].at \in Place
<1> DEFINE list == controls[frames[f].ref].server
<1>1. Request(list)
  BY AskRequest
<1> HIDE DEF list
<1>2. list \in Seq(Control)
  BY <1>1 DEF Request
<1>3. \A n \in DOMAIN list : list[n] \in Control
  BY <1>2
<1>4. \A n \in DOMAIN list : list[n].at \in Place
  BY <1>3 DEF Control
<1> QED
  BY <1>4 DEF list

\* A page begins behind the cookie.
LEMMA AskPaged ==
  ASSUME TypeInv, NEW f \in 1 .. 2, NEW a, AskEffect(f, a),
         NEW k \in DOMAIN controls[frames[f].ref].server,
         controls[frames[f].ref].server[k].type = "paged",
         controls[frames[f].ref].server[k].at # None
  PROVE  \A n \in DOMAIN a.found : a.found[n] > controls[frames[f].ref].server[k].at
<1> DEFINE list == controls[frames[f].ref].server
<1>1. ServerOK /\ Request(list) /\ a \in Answers(list, Base(f))
  BY AskRequest
<1> HIDE DEF list
<1>2. \A i \in DOMAIN list : list[i].type = "paged" =>
         (list[i].at # None => \A n \in DOMAIN a.found : a.found[n] > list[i].at)
  BY <1>1, AnswerFacts
<1> QED
  BY <1>2 DEF list

\* A window is of the list that the control asks for.
LEMMA AskViews ==
  ASSUME TypeInv, NEW f \in 1 .. 2, NEW a, AskEffect(f, a)
  PROVE  LET list == controls[frames[f].ref].server
         IN /\ a.resp.vlv # None => \E k \in DOMAIN list : list[k].type = "vlv"
            /\ \A k \in DOMAIN list : list[k].type = "vlv" =>
                 InWindow(a, list[k]) /\ NewList(a, list[k], Matches(Base(f)))
<1> DEFINE list == controls[frames[f].ref].server
<1>1. ServerOK /\ Request(list) /\ a \in Answers(list, Base(f))
  BY AskRequest
<1> HIDE DEF list
<1>2. /\ a.resp.vlv # None => \E k \in DOMAIN list : list[k].type = "vlv"
      /\ \A k \in DOMAIN list : list[k].type = "vlv" =>
           InWindow(a, list[k]) /\ NewList(a, list[k], Matches(Base(f)))
  BY <1>1, AnswerFacts
<1> QED
  BY <1>2 DEF list

\* The messages have the answer's entries in their order.
LEMMA AskMessages ==
  ASSUME TypeInv, NEW f \in 1 .. 2, NEW a, AskEffect(f, a)
  PROVE  LET msgs == frames'[f].msgs
         IN \A k \in DOMAIN msgs :
              /\ Ascends(msgs[k].found)
              /\ \A n \in DOMAIN msgs[k].found :
                   /\ \E i \in DOMAIN a.found : msgs[k].found[n] = a.found[i]
                   /\ \A j \in DOMAIN msgs : j < k =>
                        \A m \in DOMAIN msgs[j].found : msgs[j].found[m] < msgs[k].found[n]
<1>1. Ordered(a) /\ frames'[f].msgs \in {Messages(a), Whole(a)}
  BY AskRequest, AskAnswer
<1> QED
  BY <1>1, AnswerMessages

\* They have the answer's response or none.
LEMMA AskResponses ==
  ASSUME TypeInv, NEW f \in 1 .. 2, NEW a, AskEffect(f, a), NEW k \in DOMAIN frames'[f].msgs
  PROVE  frames'[f].msgs[k].resp = a.resp \/ frames'[f].msgs[k].resp = NoResponse
<1>1. Ordered(a) /\ frames'[f].msgs \in {Messages(a), Whole(a)}
  BY AskRequest, AskAnswer
<1> QED
  BY <1>1, AnswerMessages

\* Entries are numbers.
LEMMA EntryNumbers ==
  ASSUME NEW s \in Seq(Entries)
  PROVE  \A n \in DOMAIN s : s[n] \in Nat /\ n \in Nat \ {0}
<1>1. \A n \in DOMAIN s : s[n] \in Entries /\ n \in Nat \ {0}
  OBVIOUS
<1>2. \A e \in Entries : e \in Nat
  BY ConstantsAssumption
<1> QED
  BY <1>1, <1>2

\* A frame finds numbers.
LEMMA FrameNumbers ==
  ASSUME NEW x \in Frame
  PROVE  /\ \A m \in DOMAIN x.out : x.out[m].e \in Nat
         /\ \A n \in DOMAIN x.left : x.left[n] \in Nat
         /\ \A k \in DOMAIN x.msgs : \A n \in DOMAIN x.msgs[k].found : x.msgs[k].found[n] \in Nat
         /\ x.page \in Nat \ {0} /\ PageSize \in Nat \ {0}
<1>1. (\A e \in Entries : e \in Nat) /\ PageSize \in Nat \ {0}
  BY ConstantsAssumption
<1>2. x.out \in Seq(Out) /\ x.left \in Seq(Entries) /\ x.msgs \in Seq(Reply) /\ x.page \in Nat \ {0}
  BY DEF Frame
<1>3. \A m \in DOMAIN x.out : x.out[m] \in Out
  BY <1>2
<1>4. \A m \in DOMAIN x.out : x.out[m].e \in Nat
  BY <1>1, <1>3 DEF Out
<1>5. \A n \in DOMAIN x.left : x.left[n] \in Nat
  BY <1>2, EntryNumbers
<1>6. \A k \in DOMAIN x.msgs : x.msgs[k] \in Reply
  BY <1>2
<1>7. \A k \in DOMAIN x.msgs : x.msgs[k].found \in Seq(Entries)
  BY <1>6 DEF Reply
<1>8. \A k \in DOMAIN x.msgs : \A n \in DOMAIN x.msgs[k].found : x.msgs[k].found[n] \in Nat
  BY <1>7, EntryNumbers
<1> QED
  BY <1>1, <1>2, <1>4, <1>5, <1>8

\* An answer has numbers, and so has the list of its window.
LEMMA AnswerNumbers ==
  ASSUME NEW a \in AnswerType
  PROVE  /\ \A n \in DOMAIN a.found : a.found[n] \in Nat
         /\ a.resp.paged # None => a.resp.paged \in Nat
         /\ a.resp.vlv # None =>
              /\ a.resp.vlv.context \in Seq(Entries)
              /\ \A i \in DOMAIN a.resp.vlv.context : a.resp.vlv.context[i] \in Nat /\ i \in Nat \ {0}
<1>2. a.found \in Seq(Entries) /\ a.resp \in ResponseType
  BY DEF AnswerType
<1>3. a.resp.paged \in Place /\ a.resp.vlv \in View \cup {None}
  BY <1>2 DEF ResponseType
<1>4. a.resp.vlv # None => a.resp.vlv.context \in Seq(Entries)
  BY <1>3 DEF View
<1>5. \A n \in DOMAIN a.found : a.found[n] \in Nat
  BY <1>2, EntryNumbers
<1>6. a.resp.vlv # None => \A i \in DOMAIN a.resp.vlv.context :
        a.resp.vlv.context[i] \in Nat /\ i \in Nat \ {0}
  BY <1>4, EntryNumbers
<1> QED
  BY <1>3, <1>4, <1>5, <1>6 DEF Place

\* What is found is behind what a generator has found before.
LEMMA FoundBehind ==
  ASSUME TypeInv, OrderInv, NEW f \in 1 .. 2, NEW a, AskEffect(f, a)
  PROVE  \A n \in DOMAIN a.found : \A m \in DOMAIN frames[f].out : frames[f].out[m].e < a.found[n]
<1> DEFINE x == frames[f]
           list == controls[x.ref].server
<1>1. CASE x.out = <<>>
  <2>1. DOMAIN <<>> = {}
    OBVIOUS
  <2> QED
    BY <1>1, <2>1
<1>2. CASE x.out # <<>>
  <2>1. x.phase = "ask" /\ Lined(x)
    BY DEF AskEffect, OrderInv
  <2>2. x.op \in {"paged", "paginated"}
    BY <1>2, <2>1 DEF Lined
  <2>3. f = 1
    BY <2>2, Iterating DEF Iterates
  <2>4. \A n \in DOMAIN a.found : a.found[n] \in Nat
    <3>1. a \in AnswerType
      BY AskAnswer
    <3> QED
      BY <3>1, AnswerNumbers
  <2>5. /\ \A m \in DOMAIN x.out : x.out[m].e \in Nat
        /\ x.page \in Nat \ {0} /\ PageSize \in Nat \ {0}
    BY FrameFacts, FrameNumbers
  <2>6. CASE x.op = "paged"
    <3>1. PICK n \in DOMAIN list : list[n].type = "paged" /\ list[n].at # None /\ Upto(x, list[n].at)
      BY <1>2, <2>1, <2>3, <2>6 DEF OrderInv, CookieBehind
    <3>2. list[n].at \in Nat
      BY <3>1, AskPlaces DEF Place
    <3>3. \A i \in DOMAIN a.found : a.found[i] > list[n].at
      BY <3>1, AskPaged
    <3> QED
      BY <2>4, <2>5, <3>1, <3>2, <3>3 DEF Upto
  <2>7. CASE x.op = "paginated"
    <3>1. Open(x)
      BY <2>1 DEF Open
    <3>2. PICK n \in DOMAIN list : list[n].type = "vlv"
      BY <2>3, <2>7, <3>1 DEF TypeInv, Controlled
    <3>3. /\ list[n].at = (x.page - 1) * PageSize + 1
          /\ list[n].context # None /\ Ahead(x, list[n].context)
      BY <1>2, <2>1, <2>3, <2>7, <3>1, <3>2 DEF OrderInv, ControlAhead
    <3>4. InWindow(a, list[n])
      BY <3>2, AskViews
    <3>5. ASSUME NEW k \in DOMAIN a.found, NEW m \in DOMAIN x.out
          PROVE  x.out[m].e < a.found[k]
      <4>1. a.err = "ok"
        <5>1. a.err # "ok" => a.found = <<>>
          BY AskAnswer DEF Ordered
        <5> QED
          BY <3>5, <5>1
      <4>2. PICK i \in DOMAIN list[n].context : i >= list[n].at /\ a.found[k] = list[n].context[i]
        BY <3>3, <3>4, <4>1 DEF InWindow
      <4>3. Bound(x) = (x.page - 1) * PageSize /\ Bound(x) \in Int
        <5>1. x.page - 1 \in Int /\ PageSize \in Int
          BY <2>5
        <5> QED
          BY <2>1, <5>1 DEF Bound
      <4>4. i \in Int
        <5>1. a.resp.vlv.context = list[n].context /\ a.resp.vlv # None
          BY <3>3, <3>4, <4>1 DEF InWindow
        <5>2. a \in AnswerType
          BY AskAnswer
        <5>3. \A j \in DOMAIN a.resp.vlv.context : j \in Nat \ {0}
          BY <5>1, <5>2, AnswerNumbers
        <5>4. i \in DOMAIN a.resp.vlv.context
          BY <4>2, <5>1
        <5> QED
          BY <5>3, <5>4
      <4>5. i > Bound(x)
        BY <3>3, <4>2, <4>3, <4>4
      <4>6. Below(x, list[n].context[i])
        BY <3>3, <4>2, <4>5 DEF Ahead
      <4> QED
        BY <3>5, <4>2, <4>6 DEF Below
    <3> QED
      BY <3>5
  <2> QED
    BY <2>2, <2>6, <2>7
<1> QED
  BY <1>1, <1>2

\* A frame that has the answer is in order.
LEMMA AskLined ==
  ASSUME TypeInv, OrderInv, NEW f \in 1 .. 2, NEW a, AskEffect(f, a)
  PROVE  Lined(frames'[f])
<1> DEFINE x == frames[f]
           y == frames'[f]
<1>1. y.phase = "poll" /\ y.left = <<>> /\ y.out = x.out /\ y.seen = x.seen
  BY DEF AskEffect
<1>2. Lined(x) /\ dir \subseteq x.seen
  BY DEF AskEffect, OrderInv, TypeInv, Open
<1>3. \A n \in DOMAIN a.found : a.found[n] \in x.seen /\ \A m \in DOMAIN x.out : x.out[m].e < a.found[n]
  <2>1. Ordered(a)
    BY AskAnswer
  <2>2. \A n \in DOMAIN a.found : a.found[n] \in dir
    BY <2>1 DEF Ordered
  <2> QED
    BY <1>2, <2>2, FoundBehind
<1>4. \A k \in DOMAIN y.msgs :
         /\ Ascends(y.msgs[k].found)
         /\ \A n \in DOMAIN y.msgs[k].found :
              /\ \E i \in DOMAIN a.found : y.msgs[k].found[n] = a.found[i]
              /\ \A j \in DOMAIN y.msgs : j < k =>
                   \A m \in DOMAIN y.msgs[j].found : y.msgs[j].found[m] < y.msgs[k].found[n]
  BY AskMessages
<1>5. \A k \in DOMAIN y.msgs : \A n \in DOMAIN y.msgs[k].found :
         /\ y.msgs[k].found[n] \in y.seen
         /\ \A m \in DOMAIN y.out : y.out[m].e < y.msgs[k].found[n]
  BY <1>1, <1>3, <1>4
<1>6. /\ DOMAIN y.left = {} /\ Ascends(y.left)
  BY <1>1 DEF Ascends
<1>7. \A n \in DOMAIN y.out : /\ y.out[n].e \in y.seen
                              /\ \A m \in DOMAIN y.out : m < n => y.out[m].e < y.out[n].e
  BY <1>1, <1>2 DEF Lined
<1>8. \A k \in DOMAIN y.msgs :
         /\ Ascends(y.msgs[k].found)
         /\ \A n \in DOMAIN y.msgs[k].found :
              /\ y.msgs[k].found[n] \in y.seen
              /\ \A m \in DOMAIN y.out : y.out[m].e < y.msgs[k].found[n]
              /\ \A j \in DOMAIN y.msgs : j < k =>
                   \A m \in DOMAIN y.msgs[j].found : y.msgs[j].found[m] < y.msgs[k].found[n]
  BY <1>4, <1>5, Zenon
<1>9. y.phase # "ask"
  BY <1>1
<1> HIDE DEF x, y
<1>10. Lined(y)
  BY <1>6, <1>7, <1>8, <1>9, Zenon DEF Lined
<1> QED
  BY <1>10 DEF y

\* What it has then is below what follows the answer and what it had before.
LEMMA AskBelow ==
  ASSUME TypeInv, NEW f \in 1 .. 2, NEW a, AskEffect(f, a), NEW e
  PROVE  /\ (/\ \A m \in DOMAIN frames[f].out : frames[f].out[m].e < e
             /\ \A n \in DOMAIN a.found : a.found[n] < e) => Below(frames'[f], e)
         /\ (/\ \A m \in DOMAIN frames[f].out : frames[f].out[m].e <= e
             /\ \A n \in DOMAIN a.found : a.found[n] <= e) => Upto(frames'[f], e)
<1> DEFINE x == frames[f]
           y == frames'[f]
<1>1. y.left = <<>> /\ y.out = x.out /\ DOMAIN <<>> = {}
  BY DEF AskEffect
<1>2. \A k \in DOMAIN y.msgs : \A n \in DOMAIN y.msgs[k].found :
        \E i \in DOMAIN a.found : y.msgs[k].found[n] = a.found[i]
  BY AskMessages
<1> QED
  BY <1>1, <1>2 DEF Below, Upto

\* search_paged(): the cookie of the answer is behind its entries.
LEMMA AskCookie ==
  ASSUME TypeInv, OrderInv, NEW a, AskEffect(1, a), NEW list
  PROVE  CookieBehind(frames'[1], list)
<1> DEFINE x == frames[1]
           y == frames'[1]
<1>1. y.phase = "poll"
  BY DEF AskEffect
<1>2. ASSUME NEW k \in DOMAIN y.msgs, y.msgs[k].resp.paged # None
      PROVE  Upto(y, y.msgs[k].resp.paged)
  <2> DEFINE cookie == a.resp.paged
  <2>1. y.msgs[k].resp = a.resp \/ y.msgs[k].resp = NoResponse
    BY AskResponses
  <2>2. NoResponse.paged = None
    BY DEF NoResponse
  <2>3. y.msgs[k].resp.paged = cookie /\ cookie # None
    BY <1>2, <2>1, <2>2
  <2>4. FullPage(a) /\ a \in AnswerType /\ a.found \in Seq(Entries)
    BY AskAnswer
  <2>5. Len(a.found) = PageSize /\ \A n \in DOMAIN a.found : a.found[n] <= cookie
    BY <2>3, <2>4 DEF FullPage
  <2>6. /\ \A n \in DOMAIN a.found : a.found[n] \in Nat
        /\ cookie \in Nat
    BY <2>3, <2>4, AnswerNumbers
  <2>7. 1 \in DOMAIN a.found
    <3>1. PageSize \in Nat \ {0}
      BY ConstantsAssumption
    <3> QED
      BY <2>4, <2>5, <3>1
  <2>8. \A m \in DOMAIN x.out : x.out[m].e < a.found[1] /\ x.out[m].e \in Nat
    BY <2>7, FoundBehind, FrameFacts, FrameNumbers
  <2>9. \A m \in DOMAIN x.out : x.out[m].e <= cookie
    BY <2>5, <2>6, <2>7, <2>8
  <2> HIDE DEF cookie
  <2>10. Upto(y, cookie)
    BY <2>5, <2>9, AskBelow
  <2> QED
    BY <2>3, <2>10
<1> QED
  BY <1>1, <1>2 DEF CookieBehind

\* search_paginated(): the pages up to the answer's end before the rest of its list.
LEMMA AskAhead ==
  ASSUME TypeInv, OrderInv, NEW a, AskEffect(1, a), frames[1].op = "paginated",
         a.resp.vlv # None
  PROVE  Ahead(frames'[1], a.resp.vlv.context)
<1> DEFINE x == frames[1]
           y == frames'[1]
           L == a.resp.vlv.context
           list == controls[x.ref].server
<1>1. x.phase = "ask" /\ y.phase = "poll" /\ y.page = x.page /\ y.out = x.out
  BY DEF AskEffect
<1>2. x \in Frame /\ a \in AnswerType
  BY FrameFacts, AskAnswer
<1>3. /\ x.page \in Nat \ {0} /\ PageSize \in Nat \ {0}
      /\ \A m \in DOMAIN x.out : x.out[m].e \in Nat
  BY <1>2, FrameNumbers
<1>4. /\ \A i \in DOMAIN L : L[i] \in Nat /\ i \in Nat \ {0}
      /\ \A n \in DOMAIN a.found : a.found[n] \in Nat
  BY <1>2, AnswerNumbers
<1>5. PICK n \in DOMAIN list : list[n].type = "vlv"
  BY AskViews
<1>6. /\ list[n].at = (x.page - 1) * PageSize + 1
      /\ list[n].context = None => x.out = <<>>
      /\ list[n].context # None => Ahead(x, list[n].context)
  BY <1>1, <1>5 DEF OrderInv, ControlAhead, Open
<1>7. InWindow(a, list[n])
  BY <1>5, AskViews
<1>8. a.err = "ok"
  <2>1. Ordered(a)
    BY AskAnswer
  <2> QED
    BY <2>1 DEF Ordered, NoResponse
<1>9. /\ Ascends(L)
      /\ list[n].context # None => L = list[n].context
      /\ \A k \in DOMAIN a.found : \E i \in DOMAIN L :
           i < list[n].at + PageSize /\ i >= list[n].at /\ a.found[k] = L[i]
  BY <1>7, <1>8 DEF InWindow
<1> DEFINE before == (x.page - 1) * PageSize
<1>10. /\ before \in Nat /\ x.page * PageSize = before + PageSize
       /\ Bound(x) = before /\ Bound(y) = before + PageSize
  <2>1. x.page - 1 \in Nat
    BY <1>3
  <2>2. x.page = (x.page - 1) + 1
    BY <1>3
  <2> DEFINE p == x.page - 1
  <2>3. before = p * PageSize /\ x.page * PageSize = (p + 1) * PageSize
    BY <2>2
  <2> HIDE DEF p
  <2>4. p \in Nat
    BY <2>1 DEF p
  <2>5. p * PageSize \in Nat /\ (p + 1) * PageSize = p * PageSize + PageSize
    BY <1>3, <2>4
  <2> QED
    BY <1>1, <2>3, <2>5 DEF Bound
<1>11. list[n].at = before + 1
  BY <1>6
<1> HIDE DEF before, L
<1>12. ASSUME NEW k \in DOMAIN L, k > Bound(y)
       PROVE  Below(y, L[k])
  <2>1. \A i \in DOMAIN L : i < before + 1 + PageSize => L[i] < L[k]
    <3>1. k \in Nat /\ k > before + PageSize /\ before \in Nat /\ PageSize \in Nat
      BY <1>3, <1>4, <1>10, <1>12
    <3>2. \A i \in DOMAIN L : i \in Nat /\ (i < before + 1 + PageSize => i < k)
      BY <1>4, <3>1
    <3>3. Ascends(L)
      BY <1>9
    <3> QED
      BY <1>12, <3>2, <3>3, Zenon DEF Ascends
  <2>2. \A i \in DOMAIN a.found : a.found[i] < L[k]
    BY <1>9, <1>11, <2>1
  <2>3. \A m \in DOMAIN x.out : x.out[m].e < L[k]
    <3>1. CASE list[n].context = None
      BY <1>6, <3>1
    <3>2. CASE list[n].context # None
      <4>1. k > Bound(x)
        <5>1. k \in Nat /\ k > before + PageSize /\ before \in Nat /\ PageSize \in Nat
          BY <1>3, <1>4, <1>10, <1>12
        <5> QED
          BY <1>10, <5>1
      <4>2. Ahead(x, L)
        BY <1>6, <1>9, <3>2
      <4>3. Below(x, L[k])
        BY <1>12, <4>1, <4>2 DEF Ahead
      <4> QED
        BY <4>3 DEF Below
    <3> QED
      BY <3>1, <3>2
  <2> QED
    BY <2>2, <2>3, AskBelow
<1> QED
  BY <1>12 DEF Ahead, L

\* An answer to the generator keeps the invariant.
LEMMA GeneratorAskOrder ==
  ASSUME TypeInv, OrderInv, NEW a, AskEffect(1, a)
  PROVE  OrderInv'
<1> DEFINE x == frames[1]
           y == frames'[1]
           list == controls[x.ref].server
<1>1. /\ x.phase = "ask" /\ y.phase = "poll" /\ y.op = x.op /\ y.ref = x.ref /\ y.page = x.page
      /\ y.out = x.out /\ frames'[2] = frames[2] /\ controls' = controls
  BY DEF AskEffect
<1>2. (\A f \in 1 .. 2 : Lined(frames[f]))'
  BY <1>1, AskLined DEF OrderInv
<1>3. CookieBehind(y, list)
  BY AskCookie
<1>4. ControlAhead(y, list)
  <2>1. ASSUME y.op = "paginated", NEW n \in DOMAIN list, list[n].type = "vlv"
        PROVE  /\ list[n].at = (y.page - 1) * PageSize + 1
               /\ list[n].context # None => Ahead(y, list[n].context)
    <3>1. /\ list[n].at = (x.page - 1) * PageSize + 1
          /\ list[n].context # None => Ahead(x, list[n].context)
      BY <1>1, <2>1 DEF OrderInv, ControlAhead, Open
    <3>2. InWindow(a, list[n]) /\ Ordered(a)
      BY <2>1, AskAnswer, AskViews
    <3>3. ASSUME list[n].context # None, a.err = "ok"
          PROVE  Ahead(y, list[n].context)
      <4>1. a.resp.vlv # None /\ a.resp.vlv.context = list[n].context
        BY <3>2, <3>3 DEF InWindow
      <4>2. Ahead(y, a.resp.vlv.context)
        BY <1>1, <2>1, <4>1, AskAhead
      <4> QED
        BY <4>1, <4>2
    <3>4. ASSUME list[n].context # None, a.err # "ok"
          PROVE  Ahead(y, list[n].context)
      <4> DEFINE L == list[n].context
      <4>1. a.found = <<>> /\ Ahead(x, L)
        BY <3>1, <3>2, <3>4 DEF Ordered
      <4>2. \A e : Below(x, e) => Below(y, e)
        <5>1. \A m \in DOMAIN a.found : FALSE
          BY <4>1
        <5> QED
          BY <5>1, AskBelow DEF Below
      <4>3. DOMAIN L \subseteq Nat
        <5>1. list \in Seq(Control)
          BY FrameFacts DEF TypeInv, ControlsOK, Request
        <5> HIDE DEF list
        <5>2. list[n] \in Control
          BY <2>1, <5>1
        <5>3. L \in Seq(Entries)
          BY <3>4, <5>2 DEF Control
        <5> QED
          BY <5>3
      <4>4. \A i \in DOMAIN L : i > Bound(y) => i > Bound(x)
        <5>1. x.page \in Nat \ {0} /\ PageSize \in Nat \ {0}
          BY FrameFacts, FrameNumbers
        <5> DEFINE p == x.page
        <5>2. Bound(x) = (p - 1) * PageSize /\ Bound(y) = p * PageSize
          BY <1>1 DEF Bound
        <5> HIDE DEF p
        <5>3. p \in Nat \ {0}
          BY <5>1 DEF p
        <5>4. (p - 1) * PageSize \in Nat /\ p * PageSize = (p - 1) * PageSize + PageSize
          BY <5>1, <5>3
        <5>5. Bound(x) \in Nat /\ Bound(y) = Bound(x) + PageSize
          BY <5>2, <5>4
        <5> QED
          BY <4>3, <5>1, <5>5
      <4> QED
        BY <4>1, <4>2, <4>4 DEF Ahead
    <3> QED
      BY <1>1, <3>1, <3>3, <3>4
  <2> QED
    BY <1>1, <2>1 DEF ControlAhead
<1>5. ResponsesAhead'
  <2>1. ASSUME x.op = "paginated", NEW k \in DOMAIN y.msgs
        PROVE  AheadIn(y, y.msgs[k].resp)
    <3>1. y.msgs[k].resp = a.resp \/ y.msgs[k].resp = NoResponse
      BY <2>1, AskResponses
    <3>2. AheadIn(y, NoResponse)
      BY DEF AheadIn, NoResponse
    <3>3. AheadIn(y, a.resp)
      BY <2>1, AskAhead DEF AheadIn
    <3> QED
      BY <3>1, <3>2, <3>3
  <2> QED
    BY <1>1, <2>1 DEF ResponsesAhead
<1> QED
  BY <1>1, <1>2, <1>3, <1>4, <1>5 DEF OrderInv

\* An answer to the call keeps the invariant: a list that it makes the controls have is too short
\* to have something of the generator's behind it.
LEMMA CallAskOrder ==
  ASSUME TypeInv, OrderInv, NEW a, AskEffect(2, a)
  PROVE  OrderInv'
<1> DEFINE x == frames[1]
           c == frames[2]
           d == frames'[2]
           list == controls[c.ref].server
<1>1. /\ frames'[1] = frames[1] /\ controls' = controls /\ d.ref = c.ref
  BY DEF AskEffect
<1>2. (\A f \in 1 .. 2 : Lined(frames[f]))'
  BY <1>1, AskLined DEF OrderInv
<1>3. ASSUME x.op = "paginated", x.phase = "yield", c.ref = x.ref, NEW k \in DOMAIN d.msgs
      PROVE  AheadIn(x, d.msgs[k].resp)
  <2>1. d.msgs[k].resp = a.resp \/ d.msgs[k].resp = NoResponse
    BY <1>3, AskResponses
  <2>2. AheadIn(x, NoResponse)
    BY DEF AheadIn, NoResponse
  <2>3. ASSUME a.resp.vlv # None
        PROVE  Ahead(x, a.resp.vlv.context)
    <3> DEFINE L == a.resp.vlv.context
    <3>1. PICK n \in DOMAIN list : list[n].type = "vlv"
      BY <2>3, AskViews
    <3>2. list[n].context # None => Ahead(x, list[n].context)
      BY <1>3, <3>1 DEF OrderInv, ControlAhead, Open
    <3>3. InWindow(a, list[n]) /\ NewList(a, list[n], Matches(1)) /\ Ordered(a) /\ a \in AnswerType
      BY <3>1, AskAnswer, AskViews DEF Base
    <3>4. a.err = "ok"
      BY <2>3, <3>3 DEF Ordered, NoResponse
    <3>5. list[n].context # None => L = list[n].context
      BY <3>3, <3>4 DEF InWindow
    <3>6. ASSUME list[n].context = None
          PROVE  \A k1 \in DOMAIN L : ~(k1 > Bound(x))
      <4>1. Len(L) = Cardinality(Matches(1)) /\ L \in Seq(Entries)
        BY <2>3, <3>3, <3>4, <3>6, AnswerNumbers DEF NewList
      <4>2. Matches(1) \subseteq {1}
        BY ConstantsAssumption DEF Matches
      <4>3. IsFiniteSet({1}) /\ Cardinality({1}) = 1
        BY FS_Singleton
      <4>4. Cardinality(Matches(1)) <= 1
        BY <4>2, <4>3, FS_Subset
      <4>5. Bound(x) >= 1 /\ Bound(x) \in Nat
        <5>1. x.page \in Nat \ {0} /\ PageSize \in Nat \ {0}
          BY FrameFacts, FrameNumbers
        <5> DEFINE p == x.page
        <5>2. Bound(x) = p * PageSize
          BY <1>3 DEF Bound
        <5> HIDE DEF p
        <5>3. p \in Nat \ {0}
          BY <5>1 DEF p
        <5>4. p * PageSize >= 1 /\ p * PageSize \in Nat
          BY <5>1, <5>3
        <5> QED
          BY <5>2, <5>4
      <4> HIDE DEF L
      <4>6. DOMAIN L = 1 .. Len(L) /\ Len(L) \in Nat
        BY <4>1
      <4> DEFINE len == Len(L)
                 bound == Bound(x)
      <4>7. len <= 1 /\ bound >= 1 /\ bound \in Nat /\ len \in Nat /\ DOMAIN L = 1 .. len
        BY <4>1, <4>4, <4>5, <4>6
      <4> HIDE DEF len, bound
      <4>8. \A k1 \in DOMAIN L : ~(k1 > bound)
        BY <4>7
      <4> QED
        BY <4>8 DEF bound
    <3> QED
      BY <3>2, <3>5, <3>6 DEF Ahead
  <2>4. AheadIn(x, a.resp)
    BY <2>3 DEF AheadIn
  <2> QED
    BY <2>1, <2>2, <2>4
<1>4. ResponsesAhead'
  BY <1>1, <1>3 DEF OrderInv, ResponsesAhead
<1> QED
  BY <1>1, <1>2, <1>4 DEF OrderInv

\* Every request that is answered keeps the invariant.
LEMMA AskOrder ==
  ASSUME TypeInv, OrderInv, Asks
  PROVE  OrderInv'
<1>1. PICK f \in 1 .. 2 : \E a : AskEffect(f, a)
  BY DEF Asks
<1>2. PICK a : AskEffect(f, a)
  BY <1>1
<1>3. f = 1 \/ f = 2
  OBVIOUS
<1> QED
  BY <1>2, <1>3, GeneratorAskOrder, CallAskOrder

(***************************************************************************)
(* Results.                                                                *)
(***************************************************************************)
\* A call that returns its results keeps the invariant.
LEMMA ReturnedOrder ==
  ASSUME TypeInv, OrderInv, Returned
  PROVE  OrderInv'
<1>1. PICK f \in 1 .. 2 : ReturnsEffect(f)
  BY DEF Returned
<1> DEFINE x == frames[f]
           y == frames'[f]
           found == Message(f).found
<1>2. /\ x.op \in {"search", "get"} /\ x.msgs # <<>> /\ Controlling(f, Received(f))
      /\ y.phase = "done" /\ y.msgs = <<>> /\ y.left = <<>> /\ y.op = x.op /\ y.ref = x.ref
      /\ y.seen = x.seen /\ y.out = Listed(found)
      /\ \A g \in 1 .. 2 : g # f => frames'[g] = frames[g]
  BY <1>1 DEF ReturnsEffect
<1>3. Message(f) = x.msgs[1] /\ 1 \in DOMAIN x.msgs
  BY <1>2, MessageFacts
<1>4. /\ \A c \in 0 .. 2 : controls'[c].server = controls[c].server
      /\ controls'[x.ref].response = Message(f).resp
      /\ \A c \in 0 .. 2 : c # x.ref => controls'[c] = controls[c]
  BY <1>2, ReceivedFacts
<1>5. Lined(y)
  <2>1. Lined(x)
    BY DEF OrderInv
  <2>2. Ascends(found) /\ \A n \in DOMAIN found : found[n] \in x.seen
    BY <1>3, <2>1 DEF Lined
  <2>3. DOMAIN y.out = DOMAIN found /\ \A n \in DOMAIN found : y.out[n].e = found[n]
    BY <1>2 DEF Listed
  <2>4. DOMAIN y.left = {} /\ DOMAIN y.msgs = {} /\ y.phase # "ask"
    BY <1>2
  <2> QED
    BY <1>2, <2>2, <2>3, <2>4 DEF Lined, Ascends
<1>6. (\A g \in 1 .. 2 : Lined(frames[g]))'
  BY <1>2, <1>5 DEF OrderInv
<1>7. CASE f = 1
  BY <1>2, <1>6, <1>7 DEF OrderInv, CookieBehind, ControlAhead, ResponsesAhead, Open, Iterates
<1>8. CASE f = 2
  <2>1. frames'[1] = frames[1] /\ frames[1].ref \in 0 .. 2
    BY <1>2, <1>8, FrameFacts
  <2>2. ResponsesAhead'
    <3>1. ASSUME frames[1].op = "paginated", frames[1].phase = "yield"
          PROVE  AheadIn(frames[1], controls'[frames[1].ref].response)
      <4>1. CASE frames[2].ref = frames[1].ref
        BY <1>3, <1>4, <1>8, <3>1, <4>1 DEF OrderInv, ResponsesAhead
      <4>2. CASE frames[2].ref # frames[1].ref
        BY <1>4, <1>8, <2>1, <3>1, <4>2 DEF OrderInv, ResponsesAhead
      <4> QED
        BY <4>1, <4>2
    <3>2. frames'[2].msgs = <<>> /\ DOMAIN <<>> = {}
      BY <1>2, <1>8
    <3>3. frames[1].op = "paginated" /\ frames[1].phase = "poll" =>
            \A k \in DOMAIN frames[1].msgs : AheadIn(frames[1], frames[1].msgs[k].resp)
      BY DEF OrderInv, ResponsesAhead
    <3> QED
      BY <2>1, <3>1, <3>2, <3>3 DEF ResponsesAhead
  <2> QED
    BY <1>4, <1>6, <2>1, <2>2 DEF OrderInv
<1> QED
  BY <1>7, <1>8

\* A frame that gives e to the program, when e follows what it gave and precedes what it has.
LEMMA YieldLined ==
  ASSUME NEW x \in Frame, NEW y \in Frame, NEW e \in Entries, YieldedOut(x, y, e), Lined(x),
         y.phase = "yield", y.seen = x.seen, e \in x.seen,
         \A m \in DOMAIN x.out : x.out[m].e < e,
         Ascends(y.left), \A n \in DOMAIN y.left : y.left[n] \in x.seen /\ e < y.left[n]
                            /\ \A m \in DOMAIN x.out : x.out[m].e < y.left[n],
         \A k \in DOMAIN y.msgs :
           /\ Ascends(y.msgs[k].found)
           /\ \A n \in DOMAIN y.msgs[k].found :
                /\ y.msgs[k].found[n] \in x.seen /\ e < y.msgs[k].found[n]
                /\ \A m \in DOMAIN x.out : x.out[m].e < y.msgs[k].found[n]
                /\ \A j \in DOMAIN y.msgs : j < k =>
                     \A m \in DOMAIN y.msgs[j].found : y.msgs[j].found[m] < y.msgs[k].found[n]
  PROVE  Lined(y)
<1> DEFINE len == Len(x.out)
<1>1. /\ y.out \in Seq(Out) /\ Len(y.out) = len + 1 /\ len \in Nat
      /\ \A n \in 1 .. len : y.out[n] = x.out[n]
      /\ y.out[len + 1].e = e /\ DOMAIN x.out = 1 .. len
  BY DEF YieldedOut, Frame
<1> HIDE DEF len
<1>2. DOMAIN y.out = 1 .. (len + 1)
  BY <1>1
<1>3. \A n \in DOMAIN y.out : n \in DOMAIN x.out \/ n = len + 1
  BY <1>1, <1>2
<1>4. \A n \in DOMAIN y.out : (n \in DOMAIN x.out /\ y.out[n].e = x.out[n].e) \/ y.out[n].e = e
  BY <1>1, <1>3
<1>5. \A n \in DOMAIN y.out : y.out[n].e \in y.seen
  BY <1>4 DEF Lined
<1>6. \A m, n \in DOMAIN y.out : m < n => y.out[m].e < y.out[n].e
  <2>1. \A m, n \in DOMAIN y.out : m < n => m \in DOMAIN x.out
    BY <1>1, <1>2
  <2> QED
    BY <1>1, <1>3, <2>1 DEF Lined
<1>7. \A n \in DOMAIN y.left : \A m \in DOMAIN y.out : y.out[m].e < y.left[n]
  BY <1>4
<1>8. \A k \in DOMAIN y.msgs : \A n \in DOMAIN y.msgs[k].found :
        \A m \in DOMAIN y.out : y.out[m].e < y.msgs[k].found[n]
  BY <1>4
<1> QED
  BY <1>5, <1>6, <1>7, <1>8 DEF Lined

\* It is below what e and all that it has are below.
LEMMA YieldBelow ==
  ASSUME NEW x \in Frame, NEW y \in Frame, NEW e, YieldedOut(x, y, e), NEW v
  PROVE  /\ (/\ \A m \in DOMAIN x.out : x.out[m].e < v
             /\ e < v /\ \A n \in DOMAIN y.left : y.left[n] < v
             /\ \A k \in DOMAIN y.msgs : \A n \in DOMAIN y.msgs[k].found : y.msgs[k].found[n] < v)
              => Below(y, v)
         /\ (/\ \A m \in DOMAIN x.out : x.out[m].e <= v
             /\ e <= v /\ \A n \in DOMAIN y.left : y.left[n] <= v
             /\ \A k \in DOMAIN y.msgs : \A n \in DOMAIN y.msgs[k].found : y.msgs[k].found[n] <= v)
              => Upto(y, v)
<1> DEFINE len == Len(x.out)
<1>1. /\ y.out \in Seq(Out) /\ Len(y.out) = len + 1 /\ len \in Nat
      /\ \A n \in 1 .. len : y.out[n] = x.out[n]
      /\ y.out[len + 1].e = e /\ DOMAIN x.out = 1 .. len
  BY DEF YieldedOut, Frame
<1> HIDE DEF len
<1>2. DOMAIN y.out = 1 .. (len + 1)
  BY <1>1
<1>3. \A n \in DOMAIN y.out : n \in DOMAIN x.out \/ n = len + 1
  BY <1>1, <1>2
<1>4. \A n \in DOMAIN y.out : (n \in DOMAIN x.out /\ y.out[n].e = x.out[n].e) \/ y.out[n].e = e
  BY <1>1, <1>3
<1> QED
  BY <1>4 DEF Below, Upto

\* search_iter() and search_paged() give an entry.
LEMMA EntryYieldsOrder ==
  ASSUME TypeInv, OrderInv, EntryYields, TypeInv'
  PROVE  OrderInv'
<1> DEFINE x == frames[1]
           y == frames'[1]
           e == Message(1).found[1]
<1>1. /\ x.phase = "poll" /\ x.op \in Iterates /\ x.msgs # <<>> /\ ~Message(1).final
      /\ y.phase = "yield" /\ YieldedOut(x, y, e) /\ y.op = x.op /\ y.seen = x.seen
      /\ y.msgs = Tail(x.msgs) /\ y.left = x.left /\ frames'[2] = frames[2]
  BY DEF EntryYields, YieldEffect
<1>2. x \in Frame /\ FrameOK(x) /\ y \in Frame /\ Lined(x)
  BY FrameFacts DEF TypeInv, FramesOK, OrderInv
<1>3. Message(1) = x.msgs[1] /\ 1 \in DOMAIN x.msgs /\ Message(1) \in Reply
  BY <1>1, FrameFacts, MessageFacts
<1>4. Len(Message(1).found) = 1 /\ Message(1).found \in Seq(Entries)
  BY <1>1, <1>2, <1>3 DEF FrameOK, Singles, Reply
<1>5. 1 \in DOMAIN x.msgs[1].found /\ e = x.msgs[1].found[1] /\ e \in Entries
  BY <1>3, <1>4
<1>6. x.left = <<>>
  BY <1>1, <1>2 DEF FrameOK, Iterates
<1>7. \A k \in DOMAIN y.msgs : k + 1 \in DOMAIN x.msgs /\ 1 < k + 1 /\ y.msgs[k] = x.msgs[k + 1] /\ k \in Nat
  <2>1. x.msgs \in Seq(Reply)
    BY <1>2 DEF Frame
  <2> DEFINE s == x.msgs
  <2> HIDE DEF s
  <2>2. s \in Seq(Reply) /\ s # <<>>
    BY <1>1, <2>1 DEF s
  <2>3. Len(Tail(s)) = Len(s) - 1 /\ Tail(s) \in Seq(Reply) /\ \A k \in 1 .. Len(Tail(s)) : Tail(s)[k] = s[k + 1]
    BY <2>2, HeadTailProperties
  <2>4. \A k \in DOMAIN Tail(s) : k + 1 \in DOMAIN s /\ 1 < k + 1 /\ Tail(s)[k] = s[k + 1] /\ k \in Nat
    BY <2>2, <2>3
  <2> QED
    BY <1>1, <2>4 DEF s
<1> HIDE DEF e
<1>8. Lined(y)
  <2>1. e \in x.seen /\ \A m \in DOMAIN x.out : x.out[m].e < e
    BY <1>2, <1>3, <1>5 DEF Lined
  <2>2. \A k \in DOMAIN y.msgs :
           /\ Ascends(y.msgs[k].found)
           /\ \A n \in DOMAIN y.msgs[k].found :
                /\ y.msgs[k].found[n] \in x.seen /\ e < y.msgs[k].found[n]
                /\ \A m \in DOMAIN x.out : x.out[m].e < y.msgs[k].found[n]
                /\ \A j \in DOMAIN y.msgs : j < k =>
                     \A m \in DOMAIN y.msgs[j].found : y.msgs[j].found[m] < y.msgs[k].found[n]
    <3>1. ASSUME NEW k \in DOMAIN y.msgs
          PROVE  /\ Ascends(y.msgs[k].found)
                 /\ \A n \in DOMAIN y.msgs[k].found :
                      /\ y.msgs[k].found[n] \in x.seen /\ e < y.msgs[k].found[n]
                      /\ \A m \in DOMAIN x.out : x.out[m].e < y.msgs[k].found[n]
      BY <1>2, <1>3, <1>5, <1>7, <3>1 DEF Lined
    <3>2. \A k, j \in DOMAIN y.msgs : j < k => j + 1 < k + 1
      BY <1>7
    <3>3. \A k, j \in DOMAIN y.msgs : j < k =>
            \A n \in DOMAIN y.msgs[k].found : \A m \in DOMAIN y.msgs[j].found :
              y.msgs[j].found[m] < y.msgs[k].found[n]
      BY <1>2, <1>7, <3>2 DEF Lined
    <3> QED
      BY <3>1, <3>3
  <2>3. DOMAIN y.left = {} /\ Ascends(y.left)
    BY <1>1, <1>6 DEF Ascends
  <2> QED
    BY <1>1, <1>2, <1>5, <2>1, <2>2, <2>3, YieldLined
<1>9. ASSUME NEW list
      PROVE  CookieBehind(y, list)
  <2>1. ASSUME NEW k \in DOMAIN y.msgs, y.msgs[k].resp.paged # None
        PROVE  Upto(y, y.msgs[k].resp.paged)
    <3> DEFINE cookie == y.msgs[k].resp.paged
    <3>1. k + 1 \in DOMAIN x.msgs /\ y.msgs[k] = x.msgs[k + 1]
      BY <1>7, <2>1
    <3>2. Upto(x, cookie)
      BY <1>1, <2>1, <3>1 DEF OrderInv, CookieBehind
    <3> HIDE DEF cookie
    <3>3. e <= cookie
      BY <1>3, <1>5, <3>2 DEF Upto
    <3>4. /\ \A m \in DOMAIN x.out : x.out[m].e <= cookie
          /\ \A n \in DOMAIN y.left : y.left[n] <= cookie
          /\ \A i \in DOMAIN y.msgs : \A n \in DOMAIN y.msgs[i].found : y.msgs[i].found[n] <= cookie
      BY <1>1, <1>7, <3>2 DEF Upto
    <3>5. Upto(y, cookie)
      BY <1>1, <1>2, <3>3, <3>4, YieldBelow
    <3> QED
      BY <3>5 DEF cookie
  <2> QED
    BY <1>1, <2>1 DEF CookieBehind
<1>10. y.op # "paginated"
  BY <1>1 DEF Iterates
<1>11. (\A g \in 1 .. 2 : Lined(frames[g]))'
  BY <1>1, <1>8 DEF OrderInv
<1> QED
  BY <1>9, <1>10, <1>11 DEF OrderInv, ControlAhead, ResponsesAhead

\* What is ahead of the generator stays ahead when it gives an entry of its page.
LEMMA YieldAhead ==
  ASSUME NEW x \in Frame, NEW y \in Frame, NEW e, YieldedOut(x, y, e), y.page = x.page,
         x.phase \in {"poll", "yield"}, y.phase = "yield",
         \A v : Below(x, v) => Below(y, v)
  PROVE  /\ \A list : Ahead(x, list) => Ahead(y, list)
         /\ \A resp : AheadIn(x, resp) => AheadIn(y, resp)
BY DEF Ahead, AheadIn, Bound

\* search_paginated() gives the next entry of its page.
LEMMA EntryResumesOrder ==
  ASSUME TypeInv, OrderInv, EntryResumes, TypeInv'
  PROVE  OrderInv'
<1> DEFINE x == frames[1]
           y == frames'[1]
           e == x.left[1]
           s == x.left
<1>1. /\ x.phase = "yield" /\ x.op = "paginated" /\ x.msgs = <<>> /\ s # <<>>
      /\ y.phase = "yield" /\ YieldedOut(x, y, e) /\ y.op = x.op /\ y.seen = x.seen /\ y.ref = x.ref
      /\ y.msgs = <<>> /\ y.left = Tail(s) /\ y.page = x.page /\ frames'[2] = frames[2]
      /\ controls' = controls
  BY DEF EntryResumes, YieldEffect
<1>2. x \in Frame /\ y \in Frame /\ Lined(x) /\ s \in Seq(Entries)
  <2>1. x \in Frame /\ y \in Frame /\ Lined(x)
    BY FrameFacts DEF TypeInv, FramesOK, OrderInv
  <2> QED
    BY <2>1 DEF Frame
<1>3. /\ 1 \in DOMAIN s /\ e = s[1] /\ e \in Entries
      /\ \A k \in DOMAIN y.left : k + 1 \in DOMAIN s /\ 1 < k + 1 /\ y.left[k] = s[k + 1] /\ k \in Nat
  <2> HIDE DEF s
  <2>1. Len(Tail(s)) = Len(s) - 1 /\ Tail(s) \in Seq(Entries) /\ \A k \in 1 .. Len(Tail(s)) : Tail(s)[k] = s[k + 1]
    BY <1>1, <1>2, HeadTailProperties
  <2>2. \A k \in DOMAIN Tail(s) : k + 1 \in DOMAIN s /\ 1 < k + 1 /\ Tail(s)[k] = s[k + 1] /\ k \in Nat
    BY <1>2, <2>1
  <2>3. 1 \in DOMAIN s /\ s[1] \in Entries
    BY <1>1, <1>2
  <2> QED
    BY <1>1, <2>2, <2>3 DEF s
<1>4. /\ e \in x.seen /\ \A m \in DOMAIN x.out : x.out[m].e < e
      /\ Ascends(s) /\ \A n \in DOMAIN s : s[n] \in x.seen /\ \A m \in DOMAIN x.out : x.out[m].e < s[n]
  BY <1>2, <1>3 DEF Lined
<1> HIDE DEF e, s
<1>5. DOMAIN y.msgs = {}
  BY <1>1
<1>6. Lined(y)
  <2>1. \A n \in DOMAIN y.left : y.left[n] \in x.seen /\ e < y.left[n]
                            /\ \A m \in DOMAIN x.out : x.out[m].e < y.left[n]
    BY <1>3, <1>4 DEF Ascends
  <2>2. \A m, n \in DOMAIN y.left : m < n => m + 1 < n + 1
    BY <1>3
  <2>3. Ascends(y.left)
    BY <1>3, <1>4, <2>2 DEF Ascends
  <2> QED
    BY <1>1, <1>2, <1>3, <1>4, <1>5, <2>1, <2>3, YieldLined
<1>7. ASSUME NEW v, Below(x, v)
      PROVE  Below(y, v)
  <2>1. e < v /\ \A n \in DOMAIN y.left : y.left[n] < v
    BY <1>3, <1>7 DEF Below, s
  <2>2. \A m \in DOMAIN x.out : x.out[m].e < v
    BY <1>7 DEF Below
  <2> QED
    BY <1>1, <1>2, <1>5, <2>1, <2>2, YieldBelow
<1>8. /\ \A list : Ahead(x, list) => Ahead(y, list)
      /\ \A resp : AheadIn(x, resp) => AheadIn(y, resp)
  BY <1>1, <1>2, <1>7, YieldAhead
<1>9. (\A g \in 1 .. 2 : Lined(frames[g]))'
  BY <1>1, <1>6 DEF OrderInv
<1>10. CookieBehind(y, controls[x.ref].server)
  BY <1>1 DEF CookieBehind, Iterates
<1>11. ControlAhead(y, controls[x.ref].server)
  BY <1>1, <1>8 DEF OrderInv, ControlAhead, Open
<1>12. ResponsesAhead'
  BY <1>1, <1>8 DEF OrderInv, ResponsesAhead
<1> QED
  BY <1>1, <1>9, <1>10, <1>11, <1>12 DEF OrderInv

\* search_paged() asks for its next page: its cookie is behind what was found.
LEMMA PageTurnsOrder ==
  ASSUME TypeInv, OrderInv, PageTurns
  PROVE  OrderInv'
<1> DEFINE x == frames[1]
           y == frames'[1]
           list == controls'[x.ref].server
           cookie == Message(1).resp.paged
<1>1. /\ x.phase = "poll" /\ x.op = "paged" /\ x.msgs # <<>> /\ cookie # None
      /\ y.phase = "ask" /\ y.msgs = <<>> /\ y.left = <<>> /\ y.out = x.out /\ y.op = x.op
      /\ y.ref = x.ref /\ y.seen = x.seen /\ frames'[2] = frames[2]
      /\ \E n \in DOMAIN list : list[n].type = "paged" /\ list[n].at = cookie
  BY DEF PageTurns, TurnEffect
<1>2. Message(1) = x.msgs[1] /\ 1 \in DOMAIN x.msgs
  BY <1>1, FrameFacts, MessageFacts
<1>3. Upto(x, cookie)
  BY <1>1, <1>2 DEF OrderInv, CookieBehind, Iterates
<1> HIDE DEF cookie
<1>4. DOMAIN y.msgs = {} /\ DOMAIN y.left = {}
  BY <1>1
<1>5. Upto(y, cookie)
  BY <1>1, <1>3, <1>4 DEF Upto
<1>6. CookieBehind(y, list)
  BY <1>1, <1>4, <1>5 DEF CookieBehind
<1>7. Lined(y)
  <2>1. Lined(x)
    BY DEF OrderInv
  <2> QED
    BY <1>1, <2>1, YieldedLined
<1>8. (\A g \in 1 .. 2 : Lined(frames[g]))'
  BY <1>1, <1>7 DEF OrderInv
<1> QED
  BY <1>1, <1>6, <1>8 DEF OrderInv, ControlAhead, ResponsesAhead

\* search_paginated() gives the first entry of a page.
LEMMA PageYieldsOrder ==
  ASSUME TypeInv, OrderInv, PageYields, TypeInv'
  PROVE  OrderInv'
<1> DEFINE x == frames[1]
           y == frames'[1]
           s == Message(1).found
           e == s[1]
<1>1. /\ x.phase = "poll" /\ x.op = "paginated" /\ x.msgs # <<>> /\ s # <<>>
      /\ Controlling(1, Received(1))
      /\ y.phase = "yield" /\ YieldedOut(x, y, e) /\ y.op = x.op /\ y.seen = x.seen /\ y.ref = x.ref
      /\ y.msgs = <<>> /\ y.left = Tail(s) /\ y.page = x.page /\ frames'[2] = frames[2]
  BY DEF PageYields, YieldEffect
<1>2. x \in Frame /\ y \in Frame /\ Lined(x)
  BY FrameFacts DEF TypeInv, FramesOK, OrderInv
<1>3. Message(1) = x.msgs[1] /\ 1 \in DOMAIN x.msgs /\ Message(1) \in Reply
  BY <1>1, FrameFacts, MessageFacts
<1>4. s \in Seq(Entries) /\ s = x.msgs[1].found
  BY <1>3 DEF Reply
<1>5. /\ \A c \in 0 .. 2 : controls'[c].server = controls[c].server
      /\ controls'[x.ref].response = x.msgs[1].resp /\ x.ref \in 0 .. 2
  BY <1>1, <1>3, ReceivedFacts, FrameFacts
<1>6. frames[2].msgs = <<>>
  <2>1. ~Working(2)
    BY <1>1, OneWorks DEF Working
  <2>2. frames[2].phase \in {"idle", "done"} /\ FrameOK(frames[2])
    BY <2>1, FrameFacts DEF TypeInv, Roles, Working, Frame
  <2> QED
    BY <2>2 DEF FrameOK
<1>7. /\ 1 \in DOMAIN s /\ e = s[1] /\ e \in Entries
      /\ \A k \in DOMAIN y.left : k + 1 \in DOMAIN s /\ 1 < k + 1 /\ y.left[k] = s[k + 1] /\ k \in Nat
  <2> HIDE DEF s
  <2>1. Len(Tail(s)) = Len(s) - 1 /\ Tail(s) \in Seq(Entries) /\ \A k \in 1 .. Len(Tail(s)) : Tail(s)[k] = s[k + 1]
    BY <1>1, <1>4, HeadTailProperties
  <2>2. \A k \in DOMAIN Tail(s) : k + 1 \in DOMAIN s /\ 1 < k + 1 /\ Tail(s)[k] = s[k + 1] /\ k \in Nat
    BY <1>4, <2>1
  <2>3. 1 \in DOMAIN s /\ s[1] \in Entries
    BY <1>1, <1>4
  <2> QED
    BY <1>1, <2>2, <2>3 DEF s
<1>8. /\ Ascends(s) /\ \A n \in DOMAIN s : s[n] \in x.seen /\ \A m \in DOMAIN x.out : x.out[m].e < s[n]
  BY <1>2, <1>3, <1>4 DEF Lined
<1>9. e \in x.seen /\ \A m \in DOMAIN x.out : x.out[m].e < e
  BY <1>7, <1>8
<1>10. ASSUME NEW v, Below(x, v)
       PROVE  \A n \in DOMAIN s : s[n] < v
  BY <1>3, <1>4, <1>10 DEF Below
<1> HIDE DEF e, s
<1>11. DOMAIN y.msgs = {}
  BY <1>1
<1>12. Lined(y)
  <2>1. \A n \in DOMAIN y.left : y.left[n] \in x.seen /\ e < y.left[n]
                            /\ \A m \in DOMAIN x.out : x.out[m].e < y.left[n]
    BY <1>7, <1>8 DEF Ascends
  <2>2. \A m, n \in DOMAIN y.left : m < n => m + 1 < n + 1
    BY <1>7
  <2>3. Ascends(y.left)
    BY <1>7, <1>8, <2>2 DEF Ascends
  <2> QED
    BY <1>1, <1>2, <1>7, <1>9, <1>11, <2>1, <2>3, YieldLined
<1>13. ASSUME NEW v, Below(x, v)
       PROVE  Below(y, v)
  <2>1. e < v /\ \A n \in DOMAIN y.left : y.left[n] < v
    BY <1>7, <1>10, <1>13
  <2>2. \A m \in DOMAIN x.out : x.out[m].e < v
    BY <1>13 DEF Below
  <2> QED
    BY <1>1, <1>2, <1>11, <2>1, <2>2, YieldBelow
<1>14. /\ \A list : Ahead(x, list) => Ahead(y, list)
       /\ \A resp : AheadIn(x, resp) => AheadIn(y, resp)
  BY <1>1, <1>2, <1>13, YieldAhead
<1>15. (\A g \in 1 .. 2 : Lined(frames[g]))'
  BY <1>1, <1>12 DEF OrderInv
<1>16. CookieBehind(y, controls[x.ref].server)
  BY <1>1 DEF CookieBehind, Iterates
<1>17. ControlAhead(y, controls[x.ref].server)
  BY <1>1, <1>14 DEF OrderInv, ControlAhead, Open
<1>18. AheadIn(y, x.msgs[1].resp)
  BY <1>1, <1>3, <1>14 DEF OrderInv, ResponsesAhead
<1>19. ResponsesAhead'
  <2>1. DOMAIN <<>> = {}
    OBVIOUS
  <2> QED
    BY <1>1, <1>5, <1>6, <1>18, <2>1 DEF ResponsesAhead
<1> QED
  BY <1>1, <1>5, <1>15, <1>16, <1>17, <1>19 DEF OrderInv

\* search_paginated() asks for its next page, of a list that has it behind what was found.
LEMMA WindowTurnsOrder ==
  ASSUME TypeInv, OrderInv, WindowTurns
  PROVE  OrderInv'
<1> DEFINE x == frames[1]
           y == frames'[1]
           list == controls'[x.ref].server
           vlv == controls[x.ref].response.vlv
           L == vlv.context
<1>1. /\ x.phase = "yield" /\ x.op = "paginated" /\ vlv # None
      /\ y.phase = "ask" /\ y.msgs = <<>> /\ y.left = <<>> /\ y.out = x.out /\ y.op = x.op
      /\ y.ref = x.ref /\ y.seen = x.seen /\ y.page = x.page + 1 /\ frames'[2] = frames[2]
      /\ \A n \in DOMAIN list : list[n].type = "vlv" =>
           list[n].at = x.page * PageSize + 1 /\ list[n].context = L
  BY DEF WindowTurns, TurnEffect
<1>2. x \in Frame /\ x.ref \in 0 .. 2
  BY FrameFacts
<1>3. Ahead(x, L)
  BY <1>1 DEF OrderInv, ResponsesAhead, AheadIn
<1>4. L # None
  <2>1. vlv \in View
    BY <1>1, <1>2 DEF TypeInv, ControlsOK, ControlsType, ResponseType
  <2>2. L \in Seq(Entries)
    BY <2>1 DEF View
  <2> QED
    BY <2>2, ConstantsAssumption
<1> HIDE DEF L
<1>5. DOMAIN y.msgs = {} /\ DOMAIN y.left = {}
  BY <1>1
<1>6. (y.page - 1) * PageSize = x.page * PageSize /\ Bound(y) = Bound(x)
  <2>1. x.page \in Nat
    BY <1>2, FrameNumbers
  <2>2. y.page - 1 = x.page
    BY <1>1, <2>1
  <2> QED
    BY <1>1, <2>2 DEF Bound
<1>7. Ahead(y, L)
  <2>1. \A v : Below(x, v) => Below(y, v)
    BY <1>1, <1>5 DEF Below
  <2> QED
    BY <1>3, <1>6, <2>1 DEF Ahead
<1>8. Lined(y)
  <2>1. Lined(x)
    BY DEF OrderInv
  <2> QED
    BY <1>1, <2>1, YieldedLined
<1>9. (\A g \in 1 .. 2 : Lined(frames[g]))'
  <2>1. Lined(frames[2])
    BY DEF OrderInv
  <2> QED
    BY <1>1, <1>8, <2>1
<1>10. ControlAhead(y, list)
  BY <1>1, <1>4, <1>6, <1>7 DEF ControlAhead
<1>11. CookieBehind(y, list)
  BY <1>1 DEF CookieBehind, Iterates
<1> QED
  BY <1>1, <1>9, <1>10, <1>11 DEF OrderInv, ResponsesAhead

\* search_paginated() is at its end.
LEMMA EndsOrder ==
  ASSUME TypeInv, OrderInv, Ends
  PROVE  OrderInv'
<1>1. frames'[1].phase = "done" /\ Lined(frames'[1]) /\ frames'[2] = frames[2] /\ frames'[1].op = frames[1].op
  BY LinedQuiet DEF Ends, OrderInv, Quiet
<1>2. frames'[1].op \in Iterates => frames'[1].msgs = <<>>
  <2>1. frames[1].phase = "done" => frames[1].msgs = <<>>
    BY FrameFacts DEF FrameOK
  <2> QED
    BY <1>1, <2>1 DEF Ends, Quiet
<1>3. DOMAIN <<>> = {}
  OBVIOUS
<1>4. (\A g \in 1 .. 2 : Lined(frames[g]))'
  BY <1>1 DEF OrderInv
<1> QED
  BY <1>1, <1>2, <1>3, <1>4 DEF OrderInv, CookieBehind, ControlAhead, ResponsesAhead, Open

\* Every move keeps the invariant.
LEMMA OrderStep ==
  ASSUME TypeInv, OrderInv, [Next]_vars
  PROVE  OrderInv'
<1>1. TypeInv' /\ Moves
  BY NextMoves
<1>2. CASE QuietStep
  BY <1>2, QuietOrder
<1>3. CASE Calls
  BY <1>3, CallOrder
<1>4. CASE Asks
  BY <1>4, AskOrder
<1>5. CASE Returned
  BY <1>5, ReturnedOrder
<1>6. CASE EntryYields
  BY <1>1, <1>6, EntryYieldsOrder
<1>7. CASE EntryResumes
  BY <1>1, <1>7, EntryResumesOrder
<1>8. CASE PageTurns
  BY <1>8, PageTurnsOrder
<1>9. CASE PageYields
  BY <1>1, <1>9, PageYieldsOrder
<1>10. CASE WindowTurns
  BY <1>10, WindowTurnsOrder
<1>11. CASE Ends
  BY <1>11, EndsOrder
<1> QED
  BY <1>1, <1>2, <1>3, <1>4, <1>5, <1>6, <1>7, <1>8, <1>9, <1>10, <1>11 DEF Moves, Progress

\* At the start nothing is found.
LEMMA InitOrder ==
  ASSUME Init
  PROVE  OrderInv
<1>1. \A f \in 1 .. 2 : frames[f] = NoFrame
  BY DEF Init
<1>2. /\ NoFrame.out = <<>> /\ NoFrame.left = <<>> /\ NoFrame.msgs = <<>> /\ NoFrame.op = "none"
      /\ NoFrame.phase = "idle"
  BY DEF NoFrame
<1>3. \A f \in 1 .. 2 : Lined(frames[f])
  BY <1>1, <1>2, NewLined
<1>4. \A list : CookieBehind(NoFrame, list)
  BY <1>2 DEF CookieBehind, Iterates
<1>5. \A list : ControlAhead(NoFrame, list)
  BY <1>2 DEF ControlAhead
<1>6. ResponsesAhead
  BY <1>1, <1>2 DEF ResponsesAhead
<1> QED
  BY <1>1, <1>3, <1>4, <1>5, <1>6 DEF OrderInv

\* A search finds entries that were there while it ran, each once and in order (get(), search(),
\* search_iter(), search_paged(), search_paginated(), 519-717), whatever happens to the connection,
\* whichever requests are repeated and whatever else uses the same Controls.
THEOREM FindsInOrder == Spec => []InOrder
<1>1. Init => TypeInv /\ OrderInv
  BY InitType, InitOrder
<1>2. TypeInv /\ OrderInv /\ [Next]_vars => TypeInv' /\ OrderInv'
  BY NextMoves, OrderStep
<1>3. OrderInv => InOrder
  BY DEF OrderInv, Lined, InOrder, Found
<1> QED
  BY <1>1, <1>2, <1>3, PTL DEF Spec

(***************************************************************************)
(* unique=True.                                                            *)
(***************************************************************************)
\* How many results a frame has.
LEMMA OutLength ==
  ASSUME NEW x \in Frame
  PROVE  /\ Len(x.out) \in Nat /\ x.entry \in Nat /\ Len(x.msgs) \in Nat
         /\ PageSize \in Nat /\ x.page \in Nat \ {0}
BY ConstantsAssumption DEF Frame

\* A quiet step keeps what it has.
LEMMA QuietUnique ==
  ASSUME TypeInv, UniqueInv, QuietStep
  PROVE  UniqueInv'
<1> SUFFICES ASSUME PageSize > 1
             PROVE  UniqueInv'
  BY DEF UniqueInv
<1> DEFINE x == frames[1]
           y == frames'[1]
           list == controls[x.ref].server
<1>1. Quiet(x, y) /\ Quiet(frames[2], frames'[2]) /\ x.ref \in 0 .. 2 /\ ControlsKept
  BY FrameFacts DEF QuietStep
<1>2. y.ref = x.ref /\ y.op = x.op /\ y.out = x.out /\ y.unique = x.unique /\ controls'[y.ref].server = list
  BY <1>1 DEF Quiet, ControlsKept
<1>3. OneFound'
  BY DEF UniqueInv, OneFound, QuietStep, Quiet
<1>4. ASSUME y.unique, Open(y)
      PROVE  AtFirst(y, list) /\ FewAhead'
  <2>1. /\ y.page = x.page /\ y.entry = x.entry /\ y.left = x.left /\ y.msgs \in {x.msgs, <<>>}
        /\ y.phase = x.phase \/ (x.phase = "yield" /\ y.phase = "poll" /\ x.op \in Iterates)
    BY <1>1, <1>4 DEF Quiet, Open
  <2>2. Open(x)
    BY <1>4, <2>1 DEF Open
  <2>3. AtFirst(x, list) /\ FewAhead
    BY <1>2, <1>4, <2>2 DEF UniqueInv
  <2>4. AtFirst(y, list)
    <3>1. CASE y.msgs = x.msgs
      <4>1. y.op = "paginated" /\ y.phase = "poll" => x.phase = "poll"
        BY <1>2, <2>1 DEF Iterates
      <4> QED
        BY <1>2, <2>1, <2>3, <3>1, <4>1 DEF AtFirst
    <3>2. CASE y.msgs = <<>>
      <4>1. DOMAIN y.msgs = {}
        BY <3>2
      <4> QED
        BY <1>2, <2>1, <2>3, <4>1 DEF AtFirst
    <3> QED
      BY <2>1, <3>1, <3>2
  <2>5. ASSUME y.op = "paginated", y.phase = "yield"
        PROVE  /\ Few(controls'[y.ref].response)
               /\ frames'[2].ref = y.ref =>
                    \A k \in DOMAIN frames'[2].msgs : Few(frames'[2].msgs[k].resp)
    <3>1. x.phase = "yield" /\ x.op = "paginated"
      BY <1>2, <2>1, <2>5
    <3>2. /\ Few(controls[x.ref].response)
          /\ frames[2].ref = x.ref => \A k \in DOMAIN frames[2].msgs : Few(frames[2].msgs[k].resp)
      BY <2>3, <3>1 DEF FewAhead
    <3>3. \/ controls'[x.ref].response = controls[x.ref].response
          \/ x.ref = frames[2].ref /\ \E k \in DOMAIN frames[2].msgs :
               controls'[x.ref].response = frames[2].msgs[k].resp
      BY <1>1, <2>5 DEF ControlsKept
    <3>4. Few(controls'[y.ref].response)
      BY <1>2, <3>2, <3>3
    <3>5. frames'[2].ref = frames[2].ref /\ frames'[2].msgs \in {frames[2].msgs, <<>>}
      BY <1>1 DEF Quiet
    <3>6. DOMAIN <<>> = {}
      OBVIOUS
    <3> QED
      BY <1>2, <3>2, <3>4, <3>5, <3>6
  <2> QED
    BY <2>4, <2>5 DEF FewAhead
<1> QED
  BY <1>2, <1>3, <1>4 DEF UniqueInv

\* A frame that differs in its history only is on its first page as the other one is.
LEMMA AtFirstAlike ==
  ASSUME NEW x, NEW y, Alike(x, y), NEW list, AtFirst(x, list)
  PROVE  AtFirst(y, list)
<1>1. /\ y.page = x.page /\ y.entry = x.entry /\ y.out = x.out /\ y.op = x.op /\ y.msgs = x.msgs
      /\ y.left = x.left /\ y.phase = x.phase
  BY DEF Alike
<1>2. y.page = 1 /\ y.entry = Len(y.out)
  BY <1>1 DEF AtFirst
<1>3. y.op \in Iterates => \A k \in DOMAIN y.msgs :
        y.msgs[k].resp.paged # None => y.entry + Len(y.msgs) > PageSize
  BY <1>1 DEF AtFirst
<1>4. y.op = "paginated" =>
        /\ y.left = <<>>
        /\ \A n \in DOMAIN list : list[n].type = "vlv" => list[n].at = 1 /\ list[n].context = None
        /\ y.phase = "poll" => \A k \in DOMAIN y.msgs :
             y.msgs[k].err = "ok" => Few(y.msgs[k].resp) \/ Len(y.msgs[k].found) > 1
  BY <1>1 DEF AtFirst
<1> QED
  BY <1>2, <1>3, <1>4 DEF AtFirst

\* A call begins on its first page with nothing.
LEMMA CallUnique ==
  ASSUME TypeInv, UniqueInv, Calls
  PROVE  UniqueInv'
<1> SUFFICES ASSUME PageSize > 1
             PROVE  UniqueInv'
  BY DEF UniqueInv
<1>1. PICK f \in 1 .. 2, sorted \in BOOLEAN, unique \in BOOLEAN : \E op, ref :
        Call(f, op, ref, sorted, unique) /\ BeginEffect(f, op, ref, sorted, unique)
  BY DEF Calls
<1>2. PICK op, ref : Call(f, op, ref, sorted, unique) /\ BeginEffect(f, op, ref, sorted, unique)
  BY <1>1
<1>3. ref \in 0 .. 2
  BY <1>2 DEF Call
<1> DEFINE prepared == Prepared(op, Given(ref), sorted)
<1>4. /\ prepared.response = Given(ref).response
      /\ op = "get" /\ ~sorted => prepared = Given(ref)
      /\ op = "paginated" => \A n \in DOMAIN prepared.server : prepared.server[n].type = "vlv" =>
           prepared.server[n].at = 1 /\ prepared.server[n].context = None
  BY <1>3, GivenFacts, PreparedFacts
<1>5. controls'[ref] = prepared /\ \A c \in 0 .. 2 : c # ref => controls'[c] = controls[c]
  BY <1>2 DEF BeginEffect
<1> HIDE DEF prepared
<1>6. /\ frames'[f].op = op /\ frames'[f].ref = ref /\ frames'[f].phase = "ask" /\ frames'[f].page = 1
      /\ frames'[f].out = <<>> /\ frames'[f].msgs = <<>> /\ frames'[f].left = <<>> /\ frames'[f].entry = 0
  BY <1>2 DEF BeginEffect
<1>7. \A g \in 1 .. 2 : g # f => Alike(frames[g], frames'[g])
  BY <1>2 DEF BeginEffect
<1>8. Len(<<>>) = 0 /\ DOMAIN <<>> = {}
  OBVIOUS
<1>9. OneFound'
  BY <1>6, <1>7, <1>8 DEF UniqueInv, OneFound, Alike
<1>10. CASE f = 1
  <2>1. AtFirst(frames'[1], controls'[frames'[1].ref].server)
    BY <1>4, <1>5, <1>6, <1>8, <1>10 DEF AtFirst
  <2>2. FewAhead'
    BY <1>6, <1>10 DEF FewAhead
  <2> QED
    BY <1>9, <2>1, <2>2 DEF UniqueInv
<1>11. CASE f = 2
  <2> DEFINE x == frames[1]
             y == frames'[1]
  <2>1. op = "get" /\ ~sorted /\ ref \in {0, 2} /\ x.phase = "yield"
    BY <1>2, <1>11 DEF Call
  <2>2. Alike(x, y) /\ y.ref \in {0, 1} /\ y.ref = x.ref
    BY <1>7, <1>11 DEF Alike, TypeInv, Roles
  <2>3. controls'[y.ref] = controls[y.ref]
    BY <1>4, <1>5, <2>1, <2>2 DEF Given
  <2>4. ASSUME y.unique, Open(y)
        PROVE  AtFirst(y, controls'[y.ref].server) /\ FewAhead'
    <3>1. Open(x) /\ x.unique
      BY <2>2, <2>4 DEF Open, Alike
    <3>2. AtFirst(x, controls[x.ref].server) /\ FewAhead
      BY <3>1 DEF UniqueInv
    <3>3. AtFirst(y, controls'[y.ref].server)
      BY <2>2, <2>3, <3>2, AtFirstAlike
    <3>4. FewAhead'
      BY <1>6, <1>8, <1>11, <2>2, <2>3, <3>2 DEF FewAhead, Alike
    <3> QED
      BY <3>3, <3>4
  <2> QED
    BY <1>9, <2>4 DEF UniqueInv
<1> QED
  BY <1>10, <1>11

\* The answer to a first page has two entries, or no more than one is there.
LEMMA AskUnique ==
  ASSUME TypeInv, UniqueInv, Asks
  PROVE  UniqueInv'
<1> SUFFICES ASSUME PageSize > 1
             PROVE  UniqueInv'
  BY DEF UniqueInv
<1>1. PICK f \in 1 .. 2 : \E a : AskEffect(f, a)
  BY DEF Asks
<1>2. PICK a : AskEffect(f, a)
  BY <1>1
<1> DEFINE x == frames[1]
           y == frames'[1]
           list == controls[frames[f].ref].server
<1>3. /\ controls' = controls /\ \A g \in 1 .. 2 : g # f => frames'[g] = frames[g]
      /\ \A g \in 1 .. 2 : /\ frames'[g].unique = frames[g].unique /\ frames'[g].out = frames[g].out
                           /\ frames'[g].op = frames[g].op /\ frames'[g].ref = frames[g].ref
                           /\ frames'[g].page = frames[g].page /\ frames'[g].entry = frames[g].entry
                           /\ Open(frames'[g]) => Open(frames[g])
  BY <1>2 DEF AskEffect, Open
<1>4. OneFound'
  BY <1>3 DEF UniqueInv, OneFound
<1>5. /\ Ordered(a) /\ FullPage(a) /\ a \in AnswerType /\ a.found \in Seq(Entries)
      /\ a.resp.vlv # None => \E k \in DOMAIN list : list[k].type = "vlv"
      /\ \A k \in DOMAIN list : list[k].type = "vlv" =>
           InWindow(a, list[k]) /\ NewList(a, list[k], Matches(Base(f)))
      /\ \A k \in DOMAIN frames'[f].msgs :
           frames'[f].msgs[k].resp = a.resp \/ frames'[f].msgs[k].resp = NoResponse
  BY <1>2, AskAnswer, AskViews, AskResponses
<1>6. a.err # "ok" => a.resp.vlv = None
  BY <1>5 DEF Ordered, NoResponse
<1>7. ASSUME y.unique, Open(y)
      PROVE  AtFirst(y, controls'[y.ref].server) /\ FewAhead'
  <2>1. AtFirst(x, controls[x.ref].server) /\ FewAhead
    <3>1. Open(x) /\ x.unique
      BY <1>3, <1>7
    <3> QED
      BY <3>1 DEF UniqueInv
  <2>2. CASE f = 1
    <3>1. /\ y.phase = "poll" /\ y.left = <<>>
          /\ x.op \in Iterates => y.msgs = Messages(a)
          /\ x.op \notin Iterates => y.msgs = Whole(a)
      BY <1>2, <2>2 DEF AskEffect
    <3>2. ASSUME x.op \in Iterates, NEW k \in DOMAIN y.msgs, y.msgs[k].resp.paged # None
          PROVE  y.entry + Len(y.msgs) > PageSize
      <4>1. a.resp.paged # None
        BY <1>5, <2>2, <3>2 DEF NoResponse
      <4>2. Len(a.found) = PageSize
        BY <1>5, <4>1 DEF FullPage
      <4>3. Len(y.msgs) = Len(a.found) + 1
        BY <1>5, <3>1, <3>2, MessagesFacts
      <4>4. y.entry \in Nat /\ PageSize \in Nat
        BY <1>3, FrameFacts, OutLength
      <4> QED
        BY <4>2, <4>3, <4>4
    <3>3. ASSUME x.op = "paginated", NEW k \in DOMAIN y.msgs, y.msgs[k].err = "ok"
          PROVE  Few(y.msgs[k].resp) \/ Len(y.msgs[k].found) > 1
      <4>1. y.msgs = Whole(a)
        BY <3>1, <3>3 DEF Iterates
      <4>2. y.msgs[k].resp = a.resp /\ y.msgs[k].found = a.found /\ y.msgs[k].err = a.err
        BY <1>5, <3>3, <4>1, WholeFacts
      <4>3. CASE a.resp.vlv = None
        BY <4>2, <4>3 DEF Few
      <4>4. CASE a.resp.vlv # None
        <5> DEFINE L == a.resp.vlv.context
        <5>1. PICK n \in DOMAIN list : list[n].type = "vlv"
          BY <1>5, <4>4
        <5>2. list[n].at = 1 /\ list[n].context = None
          BY <2>1, <2>2, <3>3, <5>1 DEF AtFirst
        <5>3. InWindow(a, list[n]) /\ NewList(a, list[n], Matches(Base(1)))
          BY <1>5, <2>2, <5>1
        <5>4. Matches(Base(1)) = dir
          BY DEF Matches, Base
        <5>5. Len(a.found) = IF PageSize < Len(L) THEN PageSize ELSE Len(L)
          BY <3>3, <4>2, <5>2, <5>3, <5>4 DEF NewList
        <5>6. a.resp.vlv.count = Len(L)
          BY <3>3, <4>2, <5>3 DEF InWindow
        <5>7. Len(L) \in Nat
          BY <1>5, <4>4, AnswerNumbers
        <5> DEFINE len == Len(L)
        <5> HIDE DEF len
        <5>8. len \in Nat /\ Len(a.found) = (IF PageSize < len THEN PageSize ELSE len)
              /\ a.resp.vlv.count = len
          BY <5>5, <5>6, <5>7 DEF len
        <5>9. a.resp.vlv.count <= 1 \/ Len(a.found) > 1
          BY <5>8, ConstantsAssumption
        <5> QED
          BY <4>2, <5>9 DEF Few
      <4> QED
        BY <4>3, <4>4
    <3>4. AtFirst(y, controls'[y.ref].server)
      <4> DEFINE now == controls'[y.ref].server
                 before == controls[x.ref].server
      <4>1. now = before
        BY <1>3
      <4>2. x.page = 1 /\ x.entry = Len(x.out)
        BY <2>1 DEF AtFirst
      <4>3. y.page = 1 /\ y.entry = Len(y.out)
        BY <1>3, <4>2
      <4>4. x.op = "paginated" =>
              \A n \in DOMAIN before : before[n].type = "vlv" => before[n].at = 1 /\ before[n].context = None
        BY <2>1 DEF AtFirst
      <4> HIDE DEF now, before
      <4>5. y.op = "paginated" =>
              \A n \in DOMAIN now : now[n].type = "vlv" => now[n].at = 1 /\ now[n].context = None
        BY <1>3, <4>1, <4>4
      <4>6. y.op \in Iterates => \A k \in DOMAIN y.msgs :
              y.msgs[k].resp.paged # None => y.entry + Len(y.msgs) > PageSize
        BY <1>3, <3>2
      <4>7. y.op = "paginated" /\ y.phase = "poll" => \A k \in DOMAIN y.msgs :
              y.msgs[k].err = "ok" => Few(y.msgs[k].resp) \/ Len(y.msgs[k].found) > 1
        BY <1>3, <3>3
      <4>8. AtFirst(y, now)
        BY <3>1, <4>3, <4>5, <4>6, <4>7 DEF AtFirst
      <4> QED
        BY <4>8 DEF now
    <3>5. FewAhead'
      BY <3>1 DEF FewAhead
    <3> QED
      BY <3>4, <3>5
  <2>3. CASE f = 2
    <3>1. y = x
      BY <1>3, <2>3
    <3>2. ASSUME x.op = "paginated", x.phase = "yield", frames[2].ref = x.ref,
                 NEW k \in DOMAIN frames'[2].msgs
          PROVE  Few(frames'[2].msgs[k].resp)
      <4>1. CASE frames'[2].msgs[k].resp.vlv = None
        BY <4>1 DEF Few
      <4>2. CASE frames'[2].msgs[k].resp.vlv # None
        <5> DEFINE L == a.resp.vlv.context
        <5>1. frames'[2].msgs[k].resp = a.resp /\ a.resp.vlv # None
          BY <1>5, <2>3, <3>2, <4>2 DEF NoResponse
        <5>2. PICK n \in DOMAIN list : list[n].type = "vlv"
          BY <1>5, <5>1
        <5>3. list[n].at = 1 /\ list[n].context = None
          BY <2>1, <2>3, <3>2, <5>2 DEF AtFirst
        <5>4. InWindow(a, list[n]) /\ NewList(a, list[n], Matches(1))
          BY <1>5, <2>3, <5>2 DEF Base
        <5>5. a.resp.vlv.count = Len(L) /\ Len(L) = Cardinality(Matches(1))
          BY <1>6, <5>1, <5>3, <5>4 DEF InWindow, NewList
        <5>6. Cardinality(Matches(1)) <= 1
          <6>1. Matches(1) \subseteq {1}
            BY ConstantsAssumption DEF Matches
          <6>2. IsFiniteSet({1}) /\ Cardinality({1}) = 1
            BY FS_Singleton
          <6> QED
            BY <6>1, <6>2, FS_Subset
        <5> QED
          BY <5>1, <5>5, <5>6 DEF Few
      <4> QED
        BY <4>1, <4>2
    <3>3. FewAhead'
      BY <1>3, <2>1, <3>1, <3>2 DEF FewAhead
    <3> QED
      BY <1>3, <2>1, <3>1, <3>3
  <2> QED
    BY <2>2, <2>3
<1> QED
  BY <1>4, <1>7 DEF UniqueInv

\* The results of a call are one, as TooMany has it.
LEMMA ReturnedUnique ==
  ASSUME TypeInv, UniqueInv, Returned
  PROVE  UniqueInv'
<1> SUFFICES ASSUME PageSize > 1
             PROVE  UniqueInv'
  BY DEF UniqueInv
<1>1. PICK f \in 1 .. 2 : ReturnsEffect(f)
  BY DEF Returned
<1> DEFINE x == frames[f]
           y == frames'[f]
           found == Message(f).found
<1>2. /\ x.msgs # <<>> /\ Accepted(f) /\ Controlling(f, Received(f))
      /\ y.phase = "done" /\ y.msgs = <<>> /\ y.ref = x.ref /\ y.unique = x.unique
      /\ y.out = Listed(found) /\ \A g \in 1 .. 2 : g # f => frames'[g] = frames[g]
  BY <1>1 DEF ReturnsEffect
<1>3. Message(f) = x.msgs[1] /\ 1 \in DOMAIN x.msgs /\ Message(f) \in Reply
  BY <1>2, MessageFacts
<1>4. /\ \A c \in 0 .. 2 : controls'[c].server = controls[c].server
      /\ controls'[x.ref].response = Message(f).resp
      /\ \A c \in 0 .. 2 : c # x.ref => controls'[c] = controls[c]
  BY <1>2, ReceivedFacts
<1>5. y.unique => Len(y.out) <= 1
  <2>1. found \in Seq(Entries)
    BY <1>3 DEF Reply
  <2>2. Len(y.out) = Len(found) /\ Len(found) \in Nat
    BY <1>2, <2>1, ListedFacts
  <2>3. x.unique => ~(x.entry + Len(found) > 1)
    BY <1>2 DEF Accepted, TooMany
  <2>4. x.entry \in Nat
    BY FrameFacts, OutLength
  <2> HIDE DEF found
  <2> QED
    BY <1>2, <2>2, <2>3, <2>4
<1>6. OneFound'
  BY <1>2, <1>5 DEF UniqueInv, OneFound
<1>7. CASE f = 1
  BY <1>2, <1>6, <1>7 DEF UniqueInv, Open
<1>8. CASE f = 2
  <2>1. frames'[1] = frames[1] /\ frames[1].ref \in 0 .. 2
    BY <1>2, <1>8, FrameFacts
  <2>2. ASSUME frames[1].unique, Open(frames[1])
        PROVE  AtFirst(frames[1], controls'[frames[1].ref].server) /\ FewAhead'
    <3>1. AtFirst(frames[1], controls[frames[1].ref].server) /\ FewAhead
      BY <2>2 DEF UniqueInv
    <3>2. ASSUME frames[1].op = "paginated", frames[1].phase = "yield"
          PROVE  Few(controls'[frames[1].ref].response)
      <4>1. CASE frames[2].ref = frames[1].ref
        BY <1>3, <1>4, <1>8, <3>1, <3>2, <4>1 DEF FewAhead
      <4>2. CASE frames[2].ref # frames[1].ref
        BY <1>4, <1>8, <2>1, <3>1, <3>2, <4>2 DEF FewAhead
      <4> QED
        BY <4>1, <4>2
    <3>3. frames'[2].msgs = <<>> /\ DOMAIN <<>> = {}
      BY <1>2, <1>8
    <3> QED
      BY <1>4, <2>1, <3>1, <3>2, <3>3 DEF FewAhead
  <2> QED
    BY <1>6, <2>1, <2>2 DEF UniqueInv
<1> QED
  BY <1>7, <1>8

\* search_iter() and search_paged() give one entry.
LEMMA EntryYieldsUnique ==
  ASSUME TypeInv, UniqueInv, EntryYields
  PROVE  UniqueInv'
<1> SUFFICES ASSUME PageSize > 1
             PROVE  UniqueInv'
  BY DEF UniqueInv
<1> DEFINE x == frames[1]
           y == frames'[1]
           s == x.msgs
<1>1. /\ x.phase = "poll" /\ x.op \in Iterates /\ s # <<>> /\ ~Message(1).final /\ Accepted(1)
      /\ y.phase = "yield" /\ Len(y.out) = Len(x.out) + 1 /\ y.entry = x.entry + 1
      /\ y.op = x.op /\ y.ref = x.ref /\ y.unique = x.unique /\ y.page = x.page
      /\ y.msgs = Tail(s) /\ frames'[2] = frames[2]
  BY DEF EntryYields, YieldEffect, YieldedOut
<1>2. x \in Frame /\ FrameOK(x)
  BY FrameFacts
<1>3. Message(1) = s[1] /\ 1 \in DOMAIN s
  BY <1>1, FrameFacts, MessageFacts
<1>4. Len(Message(1).found) = 1
  BY <1>1, <1>2, <1>3 DEF FrameOK, Singles
<1>5. Len(x.out) \in Nat /\ x.entry \in Nat /\ Len(s) \in Nat /\ PageSize \in Nat
  BY <1>2, OutLength
<1>6. /\ Len(Tail(s)) = Len(s) - 1
      /\ \A k \in DOMAIN Tail(s) : k + 1 \in DOMAIN s /\ Tail(s)[k] = s[k + 1]
  <2>1. s \in Seq(Reply)
    BY <1>2 DEF Frame
  <2> HIDE DEF s
  <2>2. /\ Len(Tail(s)) = Len(s) - 1 /\ Tail(s) \in Seq(Reply)
        /\ \A k \in 1 .. Len(Tail(s)) : Tail(s)[k] = s[k + 1]
    BY <1>1, <2>1, HeadTailProperties
  <2> QED
    BY <2>1, <2>2
<1>7. ASSUME x.unique
      PROVE  x.entry = 0 /\ Len(x.out) = 0 /\ AtFirst(x, controls[x.ref].server)
  <2>1. AtFirst(x, controls[x.ref].server)
    BY <1>1, <1>7 DEF UniqueInv, Open
  <2>2. ~(x.entry + 1 > 1)
    BY <1>1, <1>4, <1>7 DEF Accepted, TooMany
  <2>3. x.entry = 0
    BY <1>5, <2>2
  <2>4. x.entry = Len(x.out)
    BY <2>1 DEF AtFirst
  <2> QED
    BY <2>1, <2>3, <2>4
<1>8. y.unique => Len(y.out) = 1 /\ y.entry = 1
  BY <1>1, <1>5, <1>7
<1>9. OneFound'
  BY <1>1, <1>8 DEF UniqueInv, OneFound
<1>10. ASSUME y.unique, NEW list
       PROVE  AtFirst(y, list)
  <2>1. ASSUME NEW k \in DOMAIN y.msgs, y.msgs[k].resp.paged # None
        PROVE  y.entry + Len(y.msgs) > PageSize
    <3>1. k + 1 \in DOMAIN s /\ y.msgs[k] = s[k + 1]
      BY <1>1, <1>6, <2>1
    <3>2. x.entry + Len(s) > PageSize
      BY <1>1, <1>7, <1>10, <2>1, <3>1 DEF AtFirst
    <3> DEFINE len == Len(s)
    <3>3. y.entry = x.entry + 1 /\ Len(y.msgs) = len - 1 /\ x.entry + len > PageSize
          /\ len \in Nat /\ x.entry \in Nat /\ PageSize \in Nat
      BY <1>1, <1>5, <1>6, <3>2
    <3> HIDE DEF len
    <3> QED
      BY <3>3
  <2>2. y.page = 1 /\ y.op # "paginated"
    BY <1>1, <1>7, <1>10 DEF AtFirst, Iterates
  <2> QED
    BY <1>8, <1>10, <2>1, <2>2 DEF AtFirst
<1>11. y.op # "paginated"
  BY <1>1 DEF Iterates
<1> QED
  BY <1>9, <1>10, <1>11 DEF UniqueInv, FewAhead

\* A page of one result has nothing after it.
LEMMA EntryResumesUnique ==
  ASSUME TypeInv, UniqueInv, EntryResumes
  PROVE  UniqueInv'
<1> SUFFICES ASSUME PageSize > 1
             PROVE  UniqueInv'
  BY DEF UniqueInv
<1>1. /\ frames[1].phase = "yield" /\ frames[1].op = "paginated" /\ frames[1].left # <<>>
      /\ frames'[1].unique = frames[1].unique /\ frames'[2] = frames[2]
  BY DEF EntryResumes, YieldEffect
<1>2. ~frames[1].unique
  BY <1>1 DEF UniqueInv, AtFirst, Open
<1> QED
  BY <1>1, <1>2 DEF UniqueInv, OneFound

\* A page with a cookie has two results, so the generator does not get to its end.
LEMMA PageTurnsUnique ==
  ASSUME TypeInv, UniqueInv, PageTurns
  PROVE  UniqueInv'
<1> SUFFICES ASSUME PageSize > 1
             PROVE  UniqueInv'
  BY DEF UniqueInv
<1> DEFINE x == frames[1]
           s == x.msgs
<1>1. /\ x.phase = "poll" /\ x.op = "paged" /\ s # <<>> /\ Message(1).final
      /\ Message(1).resp.paged # None
      /\ frames'[1].unique = x.unique /\ frames'[2] = frames[2]
  BY DEF PageTurns, TurnEffect
<1>2. x \in Frame /\ FrameOK(x)
  BY FrameFacts
<1>3. Message(1) = s[1] /\ 1 \in DOMAIN s
  BY <1>1, FrameFacts, MessageFacts
<1>4. Len(s) = 1
  BY <1>1, <1>2, <1>3 DEF FrameOK, Singles, Iterates
<1>5. Len(x.out) \in Nat /\ x.entry \in Nat /\ PageSize \in Nat
  BY <1>2, OutLength
<1>6. ~x.unique
  <2>1. SUFFICES ASSUME x.unique
                 PROVE  FALSE
    OBVIOUS
  <2>2. AtFirst(x, controls[x.ref].server) /\ Len(x.out) <= 1
    BY <1>1, <2>1 DEF UniqueInv, Open, OneFound
  <2>3. x.entry + 1 > PageSize /\ x.entry <= 1
    BY <1>1, <1>3, <1>4, <2>2 DEF AtFirst, Iterates
  <2> QED
    BY <1>5, <2>3
<1> QED
  BY <1>1, <1>6 DEF UniqueInv, OneFound

\* A page that is accepted has one result, and its list no more.
LEMMA PageYieldsUnique ==
  ASSUME TypeInv, UniqueInv, PageYields
  PROVE  UniqueInv'
<1> SUFFICES ASSUME PageSize > 1
             PROVE  UniqueInv'
  BY DEF UniqueInv
<1> DEFINE x == frames[1]
           y == frames'[1]
           s == Message(1).found
<1>1. /\ x.phase = "poll" /\ x.op = "paginated" /\ x.msgs # <<>> /\ s # <<>> /\ Accepted(1)
      /\ Controlling(1, Received(1))
      /\ y.phase = "yield" /\ Len(y.out) = Len(x.out) + 1 /\ y.entry = x.entry + 1
      /\ y.op = x.op /\ y.ref = x.ref /\ y.unique = x.unique /\ y.page = x.page
      /\ y.msgs = <<>> /\ y.left = Tail(s) /\ frames'[2] = frames[2]
  BY DEF PageYields, YieldEffect, YieldedOut
<1>2. x \in Frame /\ x.ref \in 0 .. 2
  BY FrameFacts
<1>3. Message(1) = x.msgs[1] /\ 1 \in DOMAIN x.msgs /\ Message(1) \in Reply
  BY <1>1, FrameFacts, MessageFacts
<1>4. s \in Seq(Entries)
  BY <1>3 DEF Reply
<1>5. /\ \A c \in 0 .. 2 : controls'[c].server = controls[c].server
      /\ controls'[x.ref].response = x.msgs[1].resp
  BY <1>1, <1>3, ReceivedFacts, FrameFacts
<1>6. frames[2].msgs = <<>> /\ DOMAIN <<>> = {}
  <2>1. ~Working(2)
    BY <1>1, OneWorks DEF Working
  <2>2. frames[2].phase \in {"idle", "done"} /\ FrameOK(frames[2])
    BY <2>1, FrameFacts DEF TypeInv, Roles, Working, Frame
  <2> QED
    BY <2>2 DEF FrameOK
<1>7. Len(x.out) \in Nat /\ x.entry \in Nat /\ PageSize \in Nat
  BY <1>2, OutLength
<1>8. ASSUME x.unique
      PROVE  /\ x.entry = 0 /\ Len(x.out) = 0 /\ Len(s) = 1 /\ Tail(s) = <<>>
             /\ AtFirst(x, controls[x.ref].server)
  <2>1. AtFirst(x, controls[x.ref].server)
    BY <1>1, <1>8 DEF UniqueInv, Open
  <2>2. ~(x.entry + Len(s) > 1)
    BY <1>1, <1>8 DEF Accepted, TooMany
  <2>3. x.entry = Len(x.out)
    BY <2>1 DEF AtFirst
  <2> DEFINE t == s
  <2> HIDE DEF t
  <2>4. t \in Seq(Entries) /\ t # <<>> /\ ~(x.entry + Len(t) > 1)
    BY <1>1, <1>4, <2>2 DEF t
  <2>5. Len(t) \in Nat \ {0} /\ Len(Tail(t)) = Len(t) - 1 /\ Tail(t) \in Seq(Entries)
    BY <2>4, HeadTailProperties
  <2>6. x.entry = 0 /\ Len(t) = 1
    BY <1>7, <2>4, <2>5
  <2>7. Tail(t) = <<>>
    <3>1. Len(Tail(t)) = 0 /\ Tail(t) \in Seq(Entries)
      BY <2>5, <2>6
    <3>2. Tail(t) # <<>> => Len(Tail(t)) \in Nat \ {0}
      BY <3>1, EmptySeq
    <3> QED
      BY <3>1, <3>2
  <2> QED
    BY <2>1, <2>3, <2>6, <2>7 DEF t
<1>9. y.unique => Len(y.out) = 1 /\ y.entry = 1
  BY <1>1, <1>7, <1>8
<1>10. OneFound'
  BY <1>1, <1>9 DEF UniqueInv, OneFound
<1>11. ASSUME y.unique
       PROVE  AtFirst(y, controls'[y.ref].server) /\ FewAhead'
  <2>1. AtFirst(y, controls'[y.ref].server)
    <3> DEFINE now == controls'[y.ref].server
               before == controls[x.ref].server
    <3>1. now = before /\ AtFirst(x, before)
      BY <1>1, <1>2, <1>5, <1>8, <1>11
    <3> HIDE DEF now, before
    <3>2. y.page = 1 /\ y.entry = Len(y.out)
      BY <1>1, <1>9, <1>11, <3>1 DEF AtFirst
    <3>3. y.left = <<>> /\ y.op = "paginated" /\ y.phase = "yield" /\ y.op \notin Iterates
      BY <1>1, <1>8, <1>11 DEF Iterates
    <3>4. \A n \in DOMAIN now : now[n].type = "vlv" => now[n].at = 1 /\ now[n].context = None
      BY <1>1, <3>1 DEF AtFirst
    <3>5. AtFirst(y, now)
      BY <3>2, <3>3, <3>4 DEF AtFirst
    <3> QED
      BY <3>5 DEF now
  <2>2. Few(x.msgs[1].resp)
    <3>1. x.msgs[1].err = "ok" /\ Len(x.msgs[1].found) = 1
      BY <1>1, <1>3, <1>8, <1>11 DEF Accepted
    <3>2. Few(x.msgs[1].resp) \/ Len(x.msgs[1].found) > 1
      BY <1>1, <1>3, <1>8, <1>11, <3>1 DEF AtFirst
    <3> QED
      BY <3>1, <3>2
  <2> QED
    BY <1>1, <1>5, <1>6, <2>1, <2>2 DEF FewAhead
<1> QED
  BY <1>10, <1>11 DEF UniqueInv

\* A list of one entry has one page.
LEMMA WindowTurnsUnique ==
  ASSUME TypeInv, UniqueInv, WindowTurns
  PROVE  UniqueInv'
<1> SUFFICES ASSUME PageSize > 1
             PROVE  UniqueInv'
  BY DEF UniqueInv
<1> DEFINE x == frames[1]
           vlv == controls[x.ref].response.vlv
<1>1. /\ x.phase = "yield" /\ x.op = "paginated" /\ vlv # None
      /\ ~(x.page * PageSize > vlv.count)
      /\ frames'[1].unique = x.unique /\ frames'[1].out = x.out /\ frames'[2] = frames[2]
  BY DEF WindowTurns, TurnEffect, EndReached
<1>2. x \in Frame /\ x.ref \in 0 .. 2
  BY FrameFacts
<1>3. vlv.count \in Nat
  <2>1. vlv \in View
    BY <1>1, <1>2 DEF TypeInv, ControlsOK, ControlsType, ResponseType
  <2> QED
    BY <2>1 DEF View
<1>4. PageSize \in Nat
  BY ConstantsAssumption
<1>5. ~x.unique
  <2>1. SUFFICES ASSUME x.unique
                 PROVE  FALSE
    OBVIOUS
  <2>2. x.page = 1 /\ vlv.count <= 1
    BY <1>1, <2>1 DEF UniqueInv, Open, AtFirst, FewAhead, Few
  <2> HIDE DEF vlv
  <2>3. x.page * PageSize = PageSize
    BY <1>4, <2>2
  <2> QED
    BY <1>1, <1>3, <1>4, <2>2, <2>3
<1> QED
  BY <1>1, <1>5 DEF UniqueInv, OneFound

\* search_paginated() is at its end.
LEMMA EndsUnique ==
  ASSUME TypeInv, UniqueInv, Ends
  PROVE  UniqueInv'
BY DEF UniqueInv, OneFound, Ends, Quiet, Open

\* Every move keeps the invariant.
LEMMA UniqueStep ==
  ASSUME TypeInv, UniqueInv, [Next]_vars
  PROVE  UniqueInv'
<1>1. Moves
  BY NextMoves
<1> QED
  BY <1>1, QuietUnique, CallUnique, AskUnique, ReturnedUnique, EntryYieldsUnique, EntryResumesUnique,
     PageTurnsUnique, PageYieldsUnique, WindowTurnsUnique, EndsUnique DEF Moves, Progress

\* A search with unique=True that ends without an exception has one result at most (_get_unique and
\* the counting over the responses and pages, 528-529, 585-586), if a page can have two.
THEOREM FindsOne == Spec => []UniqueKept
<1>1. Init => TypeInv /\ UniqueInv
  <2> SUFFICES ASSUME Init
               PROVE  UniqueInv
    BY InitType
  <2>1. \A f \in 1 .. 2 : frames[f] = NoFrame
    BY DEF Init
  <2>2. ~NoFrame.unique
    BY DEF NoFrame
  <2> QED
    BY <2>1, <2>2 DEF UniqueInv, OneFound
<1>2. TypeInv /\ UniqueInv /\ [Next]_vars => TypeInv' /\ UniqueInv'
  BY NextMoves, UniqueStep
<1>3. UniqueInv => UniqueKept
  BY DEF UniqueInv, OneFound, UniqueKept
<1> QED
  BY <1>1, <1>2, <1>3, PTL DEF Spec
=============================================================================
