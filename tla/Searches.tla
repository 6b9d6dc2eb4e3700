------------------------------ MODULE Searches ------------------------------
(***************************************************************************)
(* The searches of a Connection: get(), search(), search_iter(),           *)
(* search_paged() and search_paginated(), with the Controls objects that   *)
(* carry paging state between requests, over the synchronous connection,   *)
(* whose _retry also repeats the reading of results.  The searches are the *)
(* same code in both variants of the class.                                *)
(*                                                                         *)
(* Generator 1 is what the program iterates over; while it is suspended    *)
(* at a yield, call 2 reads one entry through the same connection, maybe   *)
(* with the same Controls.  An entry is a number, its place in the order.  *)
(***************************************************************************)
EXTENDS Naturals, Sequences, FiniteSets

CONSTANTS
  Entries,        \* the entries that the base may have below it
  Initially,      \* those at the start
  PageSize,
  Attempts,       \* max_connection_attempts
  None,
  MaxSearches,    \* bound: calls by the program
  MaxOthers       \* bound: changes by another client, and lost connections

ASSUME ConstantsAssumption ==
  /\ Entries \subseteq Nat \ {0} /\ IsFiniteSet(Entries) /\ Initially \subseteq Entries
  /\ None \notin Nat \cup Seq(Entries) \cup [count : Nat, context : Seq(Entries)]
  /\ PageSize \in Nat \ {0} /\ Attempts \in Nat \ {0} /\ MaxSearches \in Nat /\ MaxOthers \in Nat

VARIABLES
  dir,            \* the server's entries
  after, view,    \* the session's state at the server: the cookie and the sorted list
  link,           \* "up", "lost", or "gone" when _l is deleted
  controls,       \* Controls objects: 0 is the program's, the others are made by a call
  frames,         \* the generator and the call
  searches, others

server == <<dir, after, view>>
vars == <<server, link, controls, frames, searches, others>>

(***************************************************************************)
(* Sequences: SortSeq and SelectSeq, in terms that proofs can reason about.*)
(***************************************************************************)
Ascends(s) == \A m, n \in DOMAIN s : m < n => s[m] < s[n]
Sorted(set) ==
  CHOOSE s \in [1 .. Cardinality(set) -> set] : Ascends(s) /\ set = {s[n] : n \in DOMAIN s}

\* What s has at the places ns.
Picked(s, ns) == [n \in 1 .. Cardinality(ns) |-> s[Sorted(ns)[n]]]

(***************************************************************************)
(* Controls.                                                               *)
(***************************************************************************)
NoResponse == [paged |-> None, vlv |-> None]
NoControls == [server |-> <<>>, response |-> NoResponse]
Paged(cookie) == [type |-> "paged", at |-> cookie, context |-> None]
Sorting == [type |-> "sss", at |-> None, context |-> None]
VirtualListView(offset, context) == [type |-> "vlv", at |-> offset, context |-> context]

AppendServer(c, control) == [c EXCEPT !.server = Append(@, control)]

\* Mutant: a control of the same type stays.
SetServerAppending(c, control) == AppendServer(c, control)

SetServer(c, control) ==
  [c EXCEPT !.server = Append(Picked(@, {n \in DOMAIN @ : @[n].type # control.type}), control)]

\* Controls.get, of what the last response had.
Gotten(c, type) == c.response[type]

SetResponse(c, m) == [c EXCEPT !.response = m.resp]

\* pagination.cookie = ...: the last control that was appended, wherever it is in the list.
SetCookie(c, cookie) ==
  LET n == CHOOSE i \in DOMAIN c.server :
             c.server[i].type = "paged" /\ \A j \in DOMAIN c.server : c.server[j].type = "paged" => j <= i
  IN [c EXCEPT !.server[n] = Paged(cookie)]

(***************************************************************************)
(* The server.                                                             *)
(***************************************************************************)
First(n, s) == SubSeq(s, 1, IF n < Len(s) THEN n ELSE Len(s))
OfType(list, type) == Picked(list, {n \in DOMAIN list : list[n].type = type})
Answer(found, resp, err, pos, list) ==
  [found |-> found, resp |-> resp, err |-> err, after |-> pos, view |-> list]
Refusal(err) == Answer(<<>>, NoResponse, err, after, view)

\* A page after the cookie.  The server may give a cookie also with the last page.
PagedAnswers(cookie, matches) ==
  LET rest == Sorted({e \in matches : cookie = None \/ e > cookie})
      page == First(PageSize, rest)
      cookies == IF Len(rest) > PageSize THEN {page[PageSize]}
                 ELSE {None} \cup {page[n] : n \in DOMAIN page \cap {PageSize}}
  IN IF cookie # None /\ cookie # after THEN {Refusal("unwillingToPerform")}
     ELSE {Answer(page, [NoResponse EXCEPT !.paged = c], "ok", c, view) : c \in cookies}

\* A window of the sorted list that the session keeps, which names entries gone meanwhile, too.
ViewAnswers(control, matches) ==
  LET list == IF control.context = None THEN Sorted(matches) ELSE view
      window == First(PageSize, SubSeq(list, control.at, Len(list)))
      there == Picked(window, {n \in DOMAIN window : window[n] \in dir})
  IN IF control.context # None /\ control.context # view THEN {Refusal("unwillingToPerform")}
     ELSE IF list # <<>> /\ control.at > Len(list) THEN {Refusal("vlvError")}
     ELSE {Answer(there, [NoResponse EXCEPT !.vlv = [count |-> Len(list), context |-> list]],
                  "ok", after, list)}

Answers(list, base) ==
  LET matches == IF base = None THEN dir ELSE dir \cap {base}
      paged == OfType(list, "paged")
      vlv == OfType(list, "vlv")
  IN IF Len(paged) + Len(vlv) > 1 THEN {Refusal("protocolError")}
     ELSE IF matches = {} /\ base # None THEN {Refusal("noSuchObject")}
     ELSE IF paged # <<>> THEN PagedAnswers(paged[1].at, matches)
     ELSE IF vlv # <<>> THEN ViewAnswers(vlv[1], matches)
     ELSE {Answer(Sorted(matches), NoResponse, "ok", after, view)}

Response(found, resp, err, final) == [found |-> found, resp |-> resp, err |-> err, final |-> final]
Whole(a) == <<Response(a.found, a.resp, a.err, TRUE)>>
Messages(a) ==
  [n \in 1 .. Len(a.found) |-> Response(<<a.found[n]>>, NoResponse, "ok", FALSE)]
    \o <<Response(<<>>, a.resp, a.err, TRUE)>>

(***************************************************************************)
(* A call.                                                                 *)
(***************************************************************************)
Iterates == {"iter", "paged"}          \* _execute_iter: every response by itself
NoFrame ==
  [op |-> "none", ref |-> 0, unique |-> FALSE, phase |-> "idle", sleeping |-> FALSE, tries |-> 0,
   msgs |-> <<>>, page |-> 1, entry |-> 0, left |-> <<>>, length |-> None, lastPage |-> None,
   out |-> <<>>, res |-> "ok",
   seen |-> {}, stayed |-> {}, calm |-> TRUE, fresh |-> TRUE, meddled |-> {}, hollow |-> FALSE]
Working(f) == frames[f].phase \in {"ask", "poll"}
Free(f) == frames[f].phase \in {"idle", "done"}
Changes(f, frame) == frames' = [frames EXCEPT ![f] = frame]
Controlling(f, c) == controls' = [controls EXCEPT ![frames[f].ref] = c]

Finished(frame, res) ==
  [frame EXCEPT !.phase = "done", !.res = res, !.msgs = <<>>, !.left = <<>>, !.tries = 0]
Finishes(f, res) == Changes(f, Finished(frames[f], res))
Asking(frame) == [frame EXCEPT !.phase = "ask", !.tries = Attempts]
Polling(frame) == [frame EXCEPT !.phase = "poll", !.tries = Attempts]

\* The controls of the first request.
Prepared(op, c, sorted) ==
  LET appended == IF op = "paged" THEN AppendServer(c, Paged(None)) ELSE c
      ordered == IF sorted \/ op = "paginated" THEN SetServer(appended, Sorting) ELSE appended
  IN IF op = "paginated" THEN SetServer(ordered, VirtualListView(1, None)) ELSE ordered

\* What a get() disturbs of the search that is suspended: its Controls, or its place at the server.
Paging(c) == \E n \in DOMAIN c.server : c.server[n].type # "sss"
Meddling(f, ref, c, frame) ==
  {w \in {"controls", "server"} :
     f = 2 /\ (w = "controls" => ref = frame.ref) /\ (w = "server" => Paging(c))}

Begin(f, op, ref, sorted, unique) ==
  /\ Free(f) /\ searches < MaxSearches /\ searches' = searches + 1
  /\ LET given == IF ref = 0 THEN controls[0] ELSE NoControls
         frame == [NoFrame EXCEPT !.op = op, !.ref = ref, !.unique = unique, !.seen = dir,
                                  !.stayed = dir, !.fresh = given.server = <<>>]
     IN /\ controls' = [controls EXCEPT ![ref] = Prepared(op, given, sorted)]
        /\ frames' = [g \in DOMAIN frames |-> IF g = f THEN Asking(frame) ELSE
                        [frames[g] EXCEPT !.meddled = @ \cup Meddling(f, ref, given, frames[g])]]
  /\ UNCHANGED <<server, link, others>>

\* Sorted, unique, or neither.
Options == {<<FALSE, FALSE>>, <<TRUE, FALSE>>, <<FALSE, TRUE>>}
Search(op) == \E ref \in {0, 1}, o \in Options : Begin(1, op, ref, o[1], o[2])
SearchPaginated == \E ref \in {0, 1}, unique \in BOOLEAN : Begin(1, "paginated", ref, TRUE, unique)

\* Also exists() and get_attr().
Get ==
  /\ frames[1].phase = "yield"
  /\ \E ref \in {0, 2} : Begin(2, "get", ref, FALSE, FALSE)

(***************************************************************************)
(* _retry, once around the request and once around each reading of a       *)
(* result: from the second attempt on it reconnects first.                 *)
(***************************************************************************)
\* Mutant: attempts is not counted down by a timeout.
FailedUncounted(frame) == [frame EXCEPT !.sleeping = TRUE]

\* Mutant: the attempts end one later.
FailedLate(frame) ==
  IF frame.tries = 0 THEN Finished(frame, "failed")
  ELSE [frame EXCEPT !.tries = @ - 1, !.sleeping = TRUE]

Failed(frame) ==
  IF frame.tries = 1 THEN Finished(frame, "failed")
  ELSE [frame EXCEPT !.tries = @ - 1, !.sleeping = TRUE]

\* The message ids of the handle before are unknown to the new one.
Replaced(f, frame) ==
  /\ link' = "up" /\ after' = None /\ view' = None
  /\ frames' = [g \in DOMAIN frames |-> [(IF g = f THEN frame ELSE frames[g]) EXCEPT !.msgs = <<>>]]

\* Mutant: the request is made again.
RetryAsking(f) ==
  /\ Working(f) /\ frames[f].sleeping
  /\ Replaced(f, [frames[f] EXCEPT !.sleeping = FALSE, !.phase = "ask"])
  /\ UNCHANGED <<dir, controls, searches, others>>

Retry(f) ==
  /\ Working(f) /\ frames[f].sleeping
  /\ \/ Replaced(f, [frames[f] EXCEPT !.sleeping = FALSE])
     \/ /\ link' = "gone" /\ after' = None /\ view' = None
        /\ Changes(f, Failed([frames[f] EXCEPT !.msgs = <<>>]))
  /\ UNCHANGED <<dir, controls, searches, others>>

Awake(f, phase) == frames[f].phase = phase /\ ~frames[f].sleeping

\* Without a handle AttributeError ends the call at once.
NoHandle(f) ==
  /\ Working(f) /\ ~frames[f].sleeping /\ link = "gone"
  /\ Finishes(f, "failed")
  /\ UNCHANGED <<server, link, controls, searches, others>>

Ask(f) ==
  /\ Awake(f, "ask") /\ link = "up"
  /\ \E a \in Answers(controls[frames[f].ref].server, IF f = 2 THEN 1 ELSE None) :
       /\ Changes(f, [Polling(frames[f]) EXCEPT
                        !.msgs = IF frames[f].op \in Iterates THEN Messages(a) ELSE Whole(a),
                        !.hollow = @ \/ (frames[f].op = "paginated" /\ a.found = <<>>)])
       /\ after' = a.after /\ view' = a.view
  /\ UNCHANGED <<dir, link, controls, searches, others>>

ServerDown(f) ==
  /\ Working(f) /\ ~frames[f].sleeping /\ link = "lost" /\ frames[f].msgs = <<>>
  /\ Changes(f, Failed(frames[f]))
  /\ UNCHANGED <<server, link, controls, searches, others>>

Timeout(f) ==
  /\ Awake(f, "poll") /\ link = "up"
  /\ frames' = [g \in DOMAIN frames |->
                  [(IF g = f THEN Failed(frames[f]) ELSE frames[g]) EXCEPT !.calm = FALSE]]
  /\ UNCHANGED <<server, link, controls, searches, others>>

(***************************************************************************)
(* Results.                                                                *)
(***************************************************************************)
\* Mutant: the entries of all pages are counted.
YieldedInAll(frame, e) ==
  LET n == Len(frame.out) + 1
  IN [frame EXCEPT !.phase = "yield", !.entry = @ + 1,
        !.out = Append(@, [e |-> e, page |-> frame.page, entry |-> n,
                           results |-> frame.length, lastPage |-> frame.lastPage])]

\* result.page = Page(...); yield result
Yielded(frame, e) ==
  [frame EXCEPT !.phase = "yield", !.entry = @ + 1,
     !.out = Append(@, [e |-> e, page |-> frame.page, entry |-> frame.entry + 1,
                        results |-> frame.length, lastPage |-> frame.lastPage])]

\* Mutant: the third result is one too many.
TooManyLate(frame, m) == frame.unique /\ frame.entry + Len(m.found) > 2

TooMany(frame, m) == frame.unique /\ frame.entry + Len(m.found) > 1

Ready(f, op) == Awake(f, "poll") /\ frames[f].msgs # <<>> /\ frames[f].op \in op
Message(f) == Head(frames[f].msgs)
Received(f) == SetResponse(controls[frames[f].ref], Message(f))
Accepted(f) == Message(f).err = "ok" /\ ~TooMany(frames[f], Message(f))

\* errors.LdapError from get_result, or NotUnique.
Raise(f) ==
  /\ Ready(f, {"search", "get", "paginated"} \cup Iterates) /\ ~Accepted(f)
  /\ Finishes(f, IF Message(f).err # "ok" THEN Message(f).err ELSE "notUnique")
  /\ IF Message(f).err = "ok" THEN Controlling(f, Received(f)) ELSE UNCHANGED controls
  /\ UNCHANGED <<server, link, searches, others>>

Returns(f) ==
  /\ Ready(f, {"search", "get"}) /\ Accepted(f)
  /\ Changes(f, Finished([frames[f] EXCEPT !.out = [n \in DOMAIN Message(f).found |->
                            [e |-> Message(f).found[n], page |-> 1, entry |-> n,
                             results |-> None, lastPage |-> None]]], "ok"))
  /\ Controlling(f, Received(f))
  /\ UNCHANGED <<server, link, searches, others>>

YieldEntry(f) ==
  /\ Ready(f, Iterates) /\ Accepted(f) /\ ~Message(f).final
  /\ Changes(f, Yielded([frames[f] EXCEPT !.msgs = Tail(@)], Message(f).found[1]))
  /\ Controlling(f, Received(f))
  /\ UNCHANGED <<server, link, searches, others>>

\* The end of search_iter(), and in search_paged() the step to the next page: the cookie is
\* assigned, also an empty one, which ends the search.
PageEnds(f) ==
  /\ Ready(f, Iterates) /\ Accepted(f) /\ Message(f).final
  /\ LET cookie == Gotten(Received(f), "paged")
     IN IF frames[f].op = "iter" \/ frames[f].entry = 0
        THEN Finishes(f, "ok") /\ Controlling(f, Received(f))
        ELSE /\ Controlling(f, SetCookie(Received(f), cookie))
             /\ IF cookie = None THEN Finishes(f, "ok")
                ELSE Changes(f, Asking([frames[f] EXCEPT !.msgs = <<>>, !.page = @ + 1, !.entry = 0]))
  /\ UNCHANGED <<server, link, searches, others>>

\* math.ceil(length / (page_size or length))
Pages(length) == (length + PageSize - 1) \div PageSize

\* search_paginated() has the page: its first result, or the end if there is none.
PageArrives(f) ==
  /\ Ready(f, {"paginated"}) /\ Accepted(f)
  /\ Controlling(f, Received(f))
  /\ LET found == Message(f).found
         count == Gotten(Received(f), "vlv").count
         known == IF frames[f].lastPage # None THEN frames[f]
                  ELSE [frames[f] EXCEPT !.length = count, !.lastPage = Pages(count)]
     IN IF found = <<>> THEN Finishes(f, "ok")
        ELSE Changes(f, Yielded([known EXCEPT !.msgs = <<>>, !.left = Tail(found)], found[1]))
  /\ UNCHANGED <<server, link, searches, others>>

\* Mutant: a page that is not full is not asked for.
EndReachedEarly(offset, length) == offset + PageSize > length

EndReached(offset, length) == offset > length

\* The program asks for the next result.
ResumeIter(f) ==
  /\ frames[f].phase = "yield" /\ Free(3 - f) /\ frames[f].op \in Iterates
  /\ Changes(f, Polling(frames[f]))
  /\ UNCHANGED <<server, link, controls, searches, others>>

ResumePage(f) ==
  /\ frames[f].phase = "yield" /\ Free(3 - f) /\ frames[f].left # <<>>
  /\ Changes(f, Yielded([frames[f] EXCEPT !.left = Tail(@)], frames[f].left[1]))
  /\ UNCHANGED <<server, link, controls, searches, others>>

NextPage(f) ==
  /\ frames[f].phase = "yield" /\ Free(3 - f) /\ frames[f].op = "paginated" /\ frames[f].left = <<>>
  /\ LET vlv == Gotten(controls[frames[f].ref], "vlv")
         offset == frames[f].page * PageSize
     IN IF vlv = None THEN Finishes(f, "attributeError") /\ UNCHANGED controls
        ELSE /\ Controlling(f, SetServer(controls[frames[f].ref],
                                         VirtualListView(offset + 1, vlv.context)))
             /\ IF EndReached(offset, vlv.count) THEN Finishes(f, "ok")
                ELSE Changes(f, Asking([frames[f] EXCEPT !.page = @ + 1, !.entry = 0,
                                                         !.length = vlv.count]))
  /\ UNCHANGED <<server, link, searches, others>>

\* The program closes the generator: search_iter() cancels its operation, which may reconnect.
Close(f) ==
  /\ frames[f].phase = "yield" /\ Free(3 - f)
  /\ IF frames[f].op \in Iterates /\ link = "lost"
     THEN \/ Replaced(f, Finished(frames[f], "closed"))
          \/ link' = "gone" /\ Finishes(f, "failed") /\ UNCHANGED <<after, view>>
     ELSE Finishes(f, "closed") /\ UNCHANGED <<link, after, view>>
  /\ UNCHANGED <<dir, controls, searches, others>>

(***************************************************************************)
(* The rest of the world.                                                  *)
(***************************************************************************)
Open(frame) == frame.phase \in {"ask", "poll", "yield"}

\* Another client makes the entries new.
Changed(new) ==
  /\ others < MaxOthers /\ others' = others + 1 /\ dir' = new
  /\ frames' = [f \in DOMAIN frames |-> IF ~Open(frames[f]) THEN frames[f] ELSE
                  [frames[f] EXCEPT !.seen = @ \cup new, !.stayed = @ \cap new, !.calm = FALSE]]
  /\ UNCHANGED <<after, view, link, controls, searches>>

\* What libldap has read of the responses is not lost.
ConnectionLost ==
  /\ others < MaxOthers /\ others' = others + 1
  /\ link = "up" /\ link' = "lost" /\ after' = None /\ view' = None
  /\ \E read \in BOOLEAN :
       frames' = [f \in DOMAIN frames |-> IF ~Open(frames[f]) THEN frames[f] ELSE
                    [frames[f] EXCEPT !.calm = FALSE, !.msgs = IF read THEN @ ELSE <<>>]]
  /\ UNCHANGED <<dir, controls, searches>>

Init ==
  /\ dir = Initially /\ after = None /\ view = None /\ link = "up"
  /\ controls = [c \in 0 .. 2 |-> NoControls] /\ frames = [f \in 1 .. 2 |-> NoFrame]
  /\ searches = 0 /\ others = 0

Work(f) ==
  \/ Retry(f) \/ NoHandle(f) \/ Ask(f) \/ ServerDown(f) \/ Timeout(f)
  \/ Raise(f) \/ Returns(f) \/ YieldEntry(f) \/ PageEnds(f) \/ PageArrives(f)

Next ==
  \/ Search("search") \/ Search("iter") \/ Search("paged") \/ SearchPaginated \/ Get
  \/ \E f \in 1 .. 2 : Work(f) \/ ResumeIter(f) \/ ResumePage(f) \/ NextPage(f) \/ Close(f)
  \/ \E e \in Entries : Changed(dir \cup {e}) \/ Changed(dir \ {e})
  \/ ConnectionLost

Spec == Init /\ [][Next]_vars /\ \A f \in 1 .. 2 : WF_vars(Work(f))
-----------------------------------------------------------------------------
(***************************************************************************)
(* Properties.                                                             *)
(***************************************************************************)
Found(frame) == {frame.out[n].e : n \in DOMAIN frame.out}

\* The request of a search that goes from page to page has its control.
Controlled(fr, list) ==
  Open(fr) => /\ fr.op = "paged" => \E n \in DOMAIN list : list[n].type = "paged"
              /\ fr.op = "paginated" => \E n \in DOMAIN list : list[n].type = "vlv"

\* Types; one call at a time works, one that sleeps in _retry has an attempt left, and the controls
\* of a search that goes from page to page still have the control it asks with.
TypeOK ==
  /\ dir \subseteq Entries /\ link \in {"up", "lost", "gone"}
  /\ searches \in 0 .. MaxSearches /\ others \in 0 .. MaxOthers
  /\ ~(Working(1) /\ Working(2))
  /\ \A f \in 1 .. 2 : /\ frames[f].tries \in 0 .. Attempts
                       /\ Working(f) => frames[f].tries > 0
                       /\ Controlled(frames[f], controls[frames[f].ref].server)

\* The results of a search, of all its pages, are entries that were there during the search, each
\* at most once and in order, however often the connection was lost and requests were retried.
InOrder ==
  \A f \in 1 .. 2 :
    /\ Found(frames[f]) \subseteq frames[f].seen
    /\ \A m, n \in DOMAIN frames[f].out : m < n => frames[f].out[m].e < frames[f].out[n].e

\* A search that ends without an exception has found every entry that was there all the time: no
\* reconnect, no change by others and no page boundary (617-717) hides one.  Not so if the Controls
\* object was in a paging search before, or was used during search_paginated(), or if all the
\* entries of a page are gone before it is read.
Complete ==
  \A f \in 1 .. 2 :
    LET s == frames[f]
    IN s.phase = "done" /\ s.res = "ok" /\ s.op # "get" /\ s.fresh /\ ~s.hollow
         /\ (s.op = "paginated" => "controls" \notin s.meddled) => s.stayed \subseteq Found(s)

\* The page and entry numbers (655-668, 701-705) count the results, and the total and the last page
\* are right, if the entries stay as they are.
Numbered ==
  \A f \in 1 .. 2 : frames[f].calm /\ frames[f].fresh /\ "controls" \notin frames[f].meddled =>
    \A n \in DOMAIN frames[f].out :
      LET r == frames[f].out[n]
      IN /\ frames[f].op \in {"paged", "paginated"} =>
              (r.page - 1) * PageSize + r.entry = n /\ r.entry \in 1 .. PageSize
         /\ frames[f].op = "paginated" =>
              /\ r.results = Cardinality(frames[f].seen)
              /\ r.page <= r.lastPage /\ (r.lastPage - 1) * PageSize < r.results

\* A search with unique=True that ends without an exception has one result at most, if a page can
\* have two (528-529, 585-586).
UniqueKept ==
  \A f \in 1 .. 2 :
    frames[f].phase = "done" /\ frames[f].res = "ok" /\ frames[f].unique /\ PageSize > 1 =>
      Len(frames[f].out) <= 1

\* A step of a connection that works, and of a search that nothing has disturbed, ends it with this.
Fails(f, res) ==
  LET s == frames'[f]
  IN /\ frames[f].phase # "done" /\ s.phase = "done" /\ s.res = res /\ link' = "up"
     /\ s.calm /\ s.fresh /\ s.meddled = {}
Raised == {"failed", "attributeError", "notUnique", "unwillingToPerform", "vlvError", "protocolError"}
Full(s) == s.op = "paginated" /\ \E n \in 0 .. Cardinality(s.seen) : n * PageSize = Cardinality(s.seen)

\* Nothing but NotUnique and NoSuchObject is raised by a search (519-717) of a connection that works,
\* with Controls of its own and no get() with used ones in between; search_paginated() with a full
\* last page apart.
EndsWell ==
  [][\A f \in 1 .. 2, res \in Raised : Fails(f, res) =>
       Full(frames'[f]) \/ (res = "notUnique" /\ frames'[f].unique)]_vars

\* The same, of every search.
EveryPageEndsWell ==
  [][\A f \in 1 .. 2, res \in Raised : Fails(f, res) => res = "notUnique" /\ frames'[f].unique]_vars

\* Every request for a result ends, with one or with an exception, if a timeout is set (the default
\* is none): an answer that does not come is a Timeout.
EveryCallEnds == \A f \in 1 .. 2 : Working(f) ~> ~Working(f)
=============================================================================
