------------------------ MODULE SearchesComplete_proofs ------------------------
(***************************************************************************)
(* What the searches find is complete, their results have the right        *)
(* numbers, and they end well: the properties Complete, Numbered and       *)
(* EndsWell of module Searches.  The first argument follows each entry     *)
(* that stays: as long as a search is open, the entry is found already, or *)
(* among what was read, or where the next request will look for it.  The   *)
(* second counts: the results are those of the pages before and of this    *)
(* one, and all pages but the last are full.  The third compares what the  *)
(* next request has with the session at the server: as long as nobody has  *)
(* disturbed the search, its cookie or list is the one that is kept there. *)
(***************************************************************************)
EXTENDS SearchesOrder_proofs

(***************************************************************************)
(* The server's answers, once more: what they cannot leave out.            *)
(***************************************************************************)
Has(a, e) == \E n \in DOMAIN a.found : a.found[n] = e

\* A page has all entries behind its cookie, but those behind the next one.
LEMMA PageHasAll ==
  ASSUME ServerOK, NEW cookie \in Place, NEW matches \in SUBSET dir,
         NEW a \in PagedAnswers(cookie, matches), a.err = "ok"
  PROVE  /\ a.resp.paged # None => a.resp.paged \in Nat
         /\ \A e \in matches : cookie = None \/ e > cookie =>
              Has(a, e) \/ (a.resp.paged # None /\ e > a.resp.paged)
<1> DEFINE later == {e \in matches : cookie = None \/ e > cookie}
           rest == Sorted(later)
           page == First(PageSize, rest)
           cookies == IF Len(rest) > PageSize THEN {page[PageSize]}
                      ELSE {None} \cup {page[n] : n \in DOMAIN page \cap {PageSize}}
<1>1. ~(cookie # None /\ cookie # after)
  <2>1. Refusal("unwillingToPerform").err # "ok"
    BY RefusalFacts DEF Refused
  <2> QED
    BY <2>1 DEF PagedAnswers
<1>2. PICK c \in cookies : a = Answer(page, [NoResponse EXCEPT !.paged = c], "ok", c, view)
  BY <1>1 DEF PagedAnswers
<1>3. a.found = page /\ a.resp.paged = c
  BY <1>2 DEF Answer, NoResponse
<1>4. PageSize \in Nat \ {0} /\ Entries \subseteq Nat /\ None \notin Nat
  BY ConstantsAssumption
<1>5. later \in SUBSET dir /\ later \in SUBSET Nat /\ IsFiniteSet(later)
  BY <1>4, ConstantsAssumption, FS_Subset DEF ServerOK
<1>6. /\ rest \in Seq(Nat) /\ Ascends(rest) /\ Len(rest) \in Nat /\ DOMAIN rest = 1 .. Len(rest)
      /\ \A e \in later : \E n \in 1 .. Len(rest) : rest[n] = e
  <2>1. /\ rest \in Seq(Nat) /\ Ascends(rest) /\ Len(rest) = Cardinality(later) /\ Len(rest) \in Nat
    BY <1>5, ListFacts
  <2>2. \A e \in later : \E n \in 1 .. Cardinality(later) : rest[n] = e
    BY <1>5, SortedFacts
  <2> HIDE DEF rest, later
  <2> QED
    BY <2>1, <2>2
<1>7. \A e : e \in later <=> e \in matches /\ (cookie = None \/ e > cookie)
  OBVIOUS
<1> HIDE DEF later, rest
<1>8. /\ Len(page) = IF PageSize < Len(rest) THEN PageSize ELSE Len(rest)
      /\ DOMAIN page = 1 .. Len(page) /\ Len(page) \in Nat
      /\ \A n \in 1 .. Len(page) : n \in 1 .. Len(rest) /\ page[n] = rest[n] /\ page[n] \in Nat
  <2>1. /\ page \in Seq(Nat)
        /\ Len(page) = IF PageSize < Len(rest) THEN PageSize ELSE Len(rest)
        /\ \A n \in 1 .. Len(page) : n \in 1 .. Len(rest) /\ page[n] = rest[n]
    BY <1>4, <1>6, FirstFacts
  <2> HIDE DEF page
  <2> QED
    BY <2>1
<1> HIDE DEF page
<1>9. c # None => PageSize \in 1 .. Len(page) /\ c = page[PageSize] /\ c \in Nat
  BY <1>4, <1>6, <1>8
<1>10. Len(rest) > PageSize => c = rest[PageSize] /\ c \in Nat
  BY <1>4, <1>6, <1>8
<1>11. \A e \in later : (\E n \in DOMAIN page : page[n] = e) \/ (c # None /\ e > c)
  <2> SUFFICES ASSUME NEW e \in later, \A n \in DOMAIN page : page[n] # e
               PROVE  c # None /\ e > c
    OBVIOUS
  <2>1. PICK n \in 1 .. Len(rest) : rest[n] = e
    BY <1>6
  <2>2. n > Len(page) /\ Len(page) < Len(rest)
    <3>1. n \notin 1 .. Len(page)
      BY <1>8, <2>1
    <3>2. n \in 1 .. Len(rest) /\ Len(rest) \in Nat /\ Len(page) \in Nat
      BY <1>6, <1>8, <2>1
    <3> QED
      BY <3>1, <3>2
  <2>3. PageSize < n /\ Len(rest) > PageSize /\ PageSize \in DOMAIN rest /\ n \in DOMAIN rest
    BY <1>4, <1>6, <1>8, <2>2
  <2>4. rest[PageSize] < rest[n]
    BY <2>3, <1>6 DEF Ascends
  <2>5. rest[PageSize] \in Nat /\ rest[n] \in Nat
    BY <2>3, <1>6
  <2> QED
    BY <1>4, <1>10, <2>1, <2>3, <2>4, <2>5
<1> QED
  BY <1>3, <1>7, <1>9, <1>11 DEF Has

\* A window has what the list has from its start on, as far as the window goes.
LEMMA WindowWhole ==
  ASSUME NEW S, NEW s \in Seq(S), NEW n \in Nat, NEW at \in Nat \ {0},
         NEW i \in DOMAIN s, i >= at, i < at + n
  PROVE  LET w == First(n, SubSeq(s, at, Len(s)))
         IN i - at + 1 \in DOMAIN w /\ w[i - at + 1] = s[i]
<1> DEFINE r == SubSeq(s, at, Len(s))
           w == First(n, r)
           j == i - at + 1
<1>1. Len(s) \in Nat /\ DOMAIN s = 1 .. Len(s) /\ \A k \in at .. Len(s) : s[k] \in S
  OBVIOUS
<1>2. /\ r \in Seq(S)
      /\ Len(r) = IF at <= Len(s) THEN Len(s) - at + 1 ELSE 0
      /\ \A k \in 1 .. Len(s) - at + 1 : r[k] = s[at + k - 1]
  BY <1>1, SubSeqProperties
<1> HIDE DEF r
<1>3. /\ w \in Seq(S)
      /\ Len(w) = IF n < Len(r) THEN n ELSE Len(r)
      /\ \A k \in 1 .. Len(w) : k \in 1 .. Len(r) /\ w[k] = r[k]
  BY <1>2, FirstFacts
<1> HIDE DEF w
<1>4. j \in 1 .. Len(s) - at + 1 /\ j <= n /\ at + j - 1 = i /\ j \in 1 .. Len(r)
  BY <1>1, <1>2
<1>5. j \in 1 .. Len(w) /\ DOMAIN w = 1 .. Len(w)
  BY <1>3, <1>4
<1> QED
  BY <1>2, <1>3, <1>4, <1>5 DEF w, r

\* So has a page of a view, but what is not there any more; a new list has all.
LEMMA ViewHasAll ==
  ASSUME ServerOK, NEW control \in Control, control.at \in Nat \ {0}, NEW matches \in SUBSET dir,
         NEW a \in ViewAnswers(control, matches), a.err = "ok"
  PROVE  LET list == a.resp.vlv.context
         IN /\ list \in Seq(Entries)
            /\ control.context # None => list = control.context
            /\ \A i \in DOMAIN list : i >= control.at /\ i < control.at + PageSize /\ list[i] \in dir =>
                 Has(a, list[i])
            /\ control.context = None => \A e \in matches : \E i \in DOMAIN list : list[i] = e
<1> DEFINE list == IF control.context = None THEN Sorted(matches) ELSE view
           window == First(PageSize, SubSeq(list, control.at, Len(list)))
           kept == {n \in DOMAIN window : window[n] \in dir}
           there == Picked(window, kept)
<1>1. a # Refusal("unwillingToPerform") /\ a # Refusal("vlvError")
  BY RefusalFacts DEF Refused
<1>2. /\ control.context # None => control.context = view
      /\ a = Answer(there, [NoResponse EXCEPT !.vlv = [count |-> Len(list), context |-> list]],
                    "ok", after, list)
  BY <1>1 DEF ViewAnswers
<1>3. a.found = there /\ a.resp.vlv.context = list
  BY <1>2 DEF Answer, NoResponse
<1>4. list \in Seq(Entries)
  BY <1>2, ListFacts DEF ServerOK
<1>5. control.context # None => list = control.context
  BY <1>2
<1>6. control.context = None => \A e \in matches : \E i \in DOMAIN list : list[i] = e
  <2>1. matches \in SUBSET Nat /\ IsFiniteSet(matches)
    BY ConstantsAssumption, FS_Subset DEF ServerOK
  <2>2. \A e \in matches : \E n \in DOMAIN Sorted(matches) : Sorted(matches)[n] = e
    BY <2>1, SortedFacts
  <2> QED
    BY <2>2
<1>7. PageSize \in Nat
  BY ConstantsAssumption
<1> HIDE DEF list
<1>8. \A i \in DOMAIN list : i >= control.at /\ i < control.at + PageSize =>
        i - control.at + 1 \in DOMAIN window /\ window[i - control.at + 1] = list[i]
  BY <1>4, <1>7, WindowWhole
<1>9. window \in Seq(Entries)
  BY <1>4, <1>7, WindowFacts
<1> HIDE DEF window
<1>10. \A k \in kept : \E n \in DOMAIN there : there[n] = window[k]
  <2>1. \A ns \in SUBSET DOMAIN window :
          /\ DOMAIN Picked(window, ns) = 1 .. Cardinality(ns)
          /\ \A k \in ns : \E n \in 1 .. Cardinality(ns) : Picked(window, ns)[n] = window[k]
    BY <1>9, PickedFacts
  <2>2. kept \in SUBSET DOMAIN window
    OBVIOUS
  <2> QED
    BY <2>1, <2>2, Zenon
<1>11. \A i \in DOMAIN list : i >= control.at /\ i < control.at + PageSize /\ list[i] \in dir =>
         Has(a, list[i])
  <2> SUFFICES ASSUME NEW i \in DOMAIN list, i >= control.at, i < control.at + PageSize, list[i] \in dir
               PROVE  Has(a, list[i])
    OBVIOUS
  <2> DEFINE k == i - control.at + 1
  <2>1. k \in DOMAIN window /\ window[k] = list[i]
    BY <1>8
  <2>2. k \in kept
    BY <2>1
  <2> HIDE DEF k, kept
  <2> QED
    BY <1>3, <1>10, <2>1, <2>2 DEF Has
<1> QED
  BY <1>3, <1>4, <1>5, <1>6, <1>11

\* What a request that succeeds gives of each entry that is there, by its controls.
Plain(list) == \A k \in DOMAIN list : list[k].type = "sss"
InPages(a, list) ==
  \A k \in DOMAIN list : list[k].type = "paged" =>
    \A e \in dir : list[k].at = None \/ e > list[k].at =>
      Has(a, e) \/ (a.resp.paged # None /\ e > a.resp.paged)
InViews(a, list) ==
  \A k \in DOMAIN list : list[k].type = "vlv" =>
    /\ list[k].context # None => a.resp.vlv.context = list[k].context
    /\ \A i \in DOMAIN a.resp.vlv.context :
         i >= list[k].at /\ i < list[k].at + PageSize /\ a.resp.vlv.context[i] \in dir =>
           Has(a, a.resp.vlv.context[i])
    /\ list[k].context = None =>
         \A e \in dir : \E i \in DOMAIN a.resp.vlv.context : a.resp.vlv.context[i] = e

LEMMA AnswerHasAll ==
  ASSUME ServerOK, NEW list, Request(list), NEW a \in Answers(list, None), a.err = "ok"
  PROVE  /\ Plain(list) => \A e \in dir : Has(a, e)
         /\ InPages(a, list) /\ InViews(a, list)
<1> DEFINE paged == OfType(list, "paged")
           vlv == OfType(list, "vlv")
<1>1. a \in IF Len(paged) + Len(vlv) > 1 THEN {Refusal("protocolError")}
            ELSE IF paged # <<>> THEN PagedAnswers(paged[1].at, dir)
            ELSE IF vlv # <<>> THEN ViewAnswers(vlv[1], dir)
            ELSE {Answer(Sorted(dir), NoResponse, "ok", after, view)}
  BY DEF Answers
<1>2. /\ paged \in Seq(Control) /\ Len(paged) \in Nat
      /\ \A k \in DOMAIN list : list[k].type = "paged" =>
           paged # <<>> /\ (Len(paged) <= 1 => paged[1] = list[k])
      /\ paged # <<>> => \E k \in DOMAIN list : list[k].type = "paged" /\ paged[1] = list[k]
  BY OfTypeFacts
<1>3. /\ vlv \in Seq(Control) /\ Len(vlv) \in Nat
      /\ \A k \in DOMAIN list : list[k].type = "vlv" =>
           vlv # <<>> /\ (Len(vlv) <= 1 => vlv[1] = list[k])
      /\ vlv # <<>> => \E k \in DOMAIN list : list[k].type = "vlv" /\ vlv[1] = list[k]
  BY OfTypeFacts
<1> HIDE DEF paged, vlv
<1>4. paged # <<>> => Len(paged) > 0 /\ ~Plain(list) /\ paged[1] \in Control
  BY <1>2 DEF Plain, Request
<1>5. vlv # <<>> => Len(vlv) > 0 /\ ~Plain(list) /\ vlv[1] \in Control /\ vlv[1].at \in Nat \ {0}
  BY <1>3 DEF Plain, Request
<1>6. Len(paged) + Len(vlv) <= 1
  <2>1. Refusal("protocolError").err # "ok"
    BY RefusalFacts DEF Refused
  <2> QED
    BY <1>1, <1>2, <1>3, <2>1
<1>7. CASE paged # <<>>
  <2>0. vlv = <<>>
    BY <1>2, <1>3, <1>4, <1>5, <1>6, <1>7
  <2>1. vlv = <<>> /\ a \in PagedAnswers(paged[1].at, dir)
    <3>1. ~(Len(paged) + Len(vlv) > 1)
      BY <1>2, <1>3, <1>6
    <3> QED
      BY <1>1, <1>7, <2>0, <3>1, Zenon
  <2>2. paged[1].at \in Place
    BY <1>4, <1>7 DEF Control
  <2>3. \A k \in DOMAIN list : list[k].type # "vlv"
    BY <1>3, <2>1
  <2>4. \A e \in dir : paged[1].at = None \/ e > paged[1].at =>
          Has(a, e) \/ (a.resp.paged # None /\ e > a.resp.paged)
    BY <2>1, <2>2, PageHasAll
  <2>5. \A k \in DOMAIN list : list[k].type = "paged" => paged[1] = list[k]
    BY <1>2, <1>3, <1>6
  <2> QED
    BY <1>4, <1>7, <2>3, <2>4, <2>5 DEF InPages, InViews
<1>8. CASE paged = <<>> /\ vlv # <<>>
  <2>1. a \in ViewAnswers(vlv[1], dir)
    BY <1>1, <1>2, <1>3, <1>5, <1>6, <1>8
  <2>2. \A k \in DOMAIN list : list[k].type # "paged"
    BY <1>2, <1>8
  <2>3. /\ vlv[1].context # None => a.resp.vlv.context = vlv[1].context
        /\ \A i \in DOMAIN a.resp.vlv.context :
             i >= vlv[1].at /\ i < vlv[1].at + PageSize /\ a.resp.vlv.context[i] \in dir =>
               Has(a, a.resp.vlv.context[i])
        /\ vlv[1].context = None =>
             \A e \in dir : \E i \in DOMAIN a.resp.vlv.context : a.resp.vlv.context[i] = e
    BY <1>5, <1>8, <2>1, ViewHasAll
  <2>4. \A k \in DOMAIN list : list[k].type = "vlv" => vlv[1] = list[k]
    BY <1>2, <1>3, <1>6
  <2> QED
    BY <1>5, <1>8, <2>2, <2>3, <2>4 DEF InPages, InViews
<1>9. CASE paged = <<>> /\ vlv = <<>>
  <2>1. a = Answer(Sorted(dir), NoResponse, "ok", after, view)
    BY <1>1, <1>2, <1>3, <1>6, <1>9
  <2>2. a.found = Sorted(dir)
    BY <2>1 DEF Answer
  <2>3. \A k \in DOMAIN list : list[k].type # "paged" /\ list[k].type # "vlv"
    BY <1>2, <1>3, <1>9
  <2>4. dir \in SUBSET Nat /\ IsFiniteSet(dir)
    BY ConstantsAssumption, FS_Subset DEF ServerOK
  <2>5. \A e \in dir : \E n \in DOMAIN Sorted(dir) : Sorted(dir)[n] = e
    BY <2>4, SortedFacts
  <2> QED
    BY <2>2, <2>3, <2>5 DEF Has, InPages, InViews
<1> QED
  BY <1>7, <1>8, <1>9

(***************************************************************************)
(* What a step does to a frame that it does not begin: its history, its    *)
(* results and its end.                                                    *)
(***************************************************************************)
\* The history of x, its results, and what it says of the list of its pages are those of y.
Kept(x, y) ==
  /\ y.op = x.op /\ y.fresh = x.fresh /\ y.stayed = x.stayed /\ y.calm = x.calm
  /\ y.meddled = x.meddled /\ y.hollow = x.hollow /\ y.seen = x.seen /\ y.unique = x.unique
  /\ y.length = x.length /\ y.lastPage = x.lastPage /\ y.out = x.out /\ y.msgs \in {x.msgs, <<>>}

\* History goes on: fewer entries stay, and what was disturbed is so for good.
Aged(x, y) ==
  /\ y.op = x.op /\ y.fresh = x.fresh /\ y.unique = x.unique
  /\ y.stayed \subseteq x.stayed /\ x.meddled \subseteq y.meddled
  /\ x.hollow => y.hollow
  /\ y.calm => x.calm /\ y.seen = x.seen

\* Without a result of a page, the search is marked.
Marked(x, y) ==
  x.op = "paginated" /\ y.msgs # <<>> => y.msgs = x.msgs \/ y.hollow \/ y.msgs[1].found # <<>>

\* A result of a page has its numbers.
Noted(x, y) ==
  x.op \in {"paged", "paginated"} /\ y.out # x.out =>
    \E e : y.out = Append(x.out, [e |-> e, page |-> x.page, entry |-> x.entry + 1,
                                  results |-> y.length, lastPage |-> y.lastPage])

\* The list of the pages is as long as a response says.
Measured(g, x, y) ==
  \/ /\ y.length = x.length /\ y.lastPage = x.lastPage
     /\ x.op = "paginated" /\ x.phase = "poll" /\ y.phase = "yield" => x.lastPage # None
  \/ /\ x.phase = "poll" /\ x.op = "paginated" /\ x.msgs # <<>> /\ Message(g).err = "ok"
     /\ y.length = Message(g).resp.vlv.count /\ y.lastPage = Pages(y.length)
  \/ LET vlv == controls[x.ref].response.vlv
     IN /\ x.phase = "yield" /\ x.op = "paginated" /\ vlv # None
        /\ y.length = vlv.count /\ y.lastPage = x.lastPage

\* The end without an exception.
Succeeds(g, x, y) ==
  \/ /\ x.phase = "poll" /\ x.op \in {"search", "get"} /\ x.msgs # <<>> /\ Message(g).err = "ok"
     /\ y.out = Listed(Message(g).found)
  \/ /\ x.phase = "poll" /\ x.op \in Iterates /\ x.msgs # <<>> /\ Message(g).err = "ok"
     /\ Message(g).final /\ (x.op = "iter" \/ x.entry = 0 \/ Message(g).resp.paged = None)
  \/ /\ x.phase = "poll" /\ x.op = "paginated" /\ x.msgs # <<>> /\ Message(g).err = "ok"
     /\ Message(g).found = <<>>
  \/ LET vlv == controls[x.ref].response.vlv
     IN /\ x.phase = "yield" /\ x.op = "paginated" /\ x.left = <<>> /\ vlv # None
        /\ EndReached(x.page * PageSize, vlv.count)

\* An end.
EndsSo(g, x, y) ==
  y.phase = "done" =>
    \/ x.phase = "done" /\ y.res = x.res
    \/ y.res = "ok" /\ Succeeds(g, x, y)
    \/ y.res = "closed"
    \/ y.res = "failed" /\ (link' # "up" \/ ~y.calm)
    \/ y.res = "notUnique" /\ x.unique
    \/ /\ y.res = "attributeError" /\ x.phase = "yield" /\ x.op = "paginated"
       /\ controls[x.ref].response.vlv = None
    \/ y.res \in Refused /\ x.phase = "poll" /\ x.msgs # <<>> /\ y.res = Message(g).err

Goes(g, x, y) ==
  Aged(x, y) /\ Marked(x, y) /\ Noted(x, y) /\ Measured(g, x, y) /\ EndsSo(g, x, y)
GoesOn(g) ==
  /\ Goes(g, frames[g], frames'[g])
  /\ dir' = dir \/ (Open(frames'[g]) => frames'[g].stayed \subseteq dir' /\ ~frames'[g].calm)

LEMMA KeptGoes ==
  ASSUME NEW g, NEW x, NEW y, Kept(x, y), EndsSo(g, x, y),
         x.op = "paginated" /\ x.phase = "poll" => y.phase # "yield"
  PROVE  Goes(g, x, y)
BY DEF Kept, Aged, Marked, Noted, Measured, Goes

LEMMA KeptTwice ==
  ASSUME NEW x, NEW y, NEW z, Kept(x, y), Kept(y, z)
  PROVE  Kept(x, z)
BY DEF Kept

\* The end of a frame.
LEMMA FinishedKept ==
  ASSUME NEW fr \in Frame, NEW res \in Results
  PROVE  /\ Kept(fr, Finished(fr, res)) /\ Finished(fr, res).res = res
         /\ Finished(fr, res).phase = "done"
<1> DEFINE new == Finished(fr, res)
<1>1. new = [fr EXCEPT !.phase = "done", !.res = res, !.msgs = <<>>, !.left = <<>>, !.tries = 0]
  BY DEF Finished
<1>2. /\ new.res = res /\ new.fresh = fr.fresh /\ new.stayed = fr.stayed /\ new.calm = fr.calm
      /\ new.meddled = fr.meddled /\ new.hollow = fr.hollow /\ new.seen = fr.seen
      /\ new.length = fr.length /\ new.lastPage = fr.lastPage /\ new.op = fr.op /\ new.out = fr.out
      /\ new.msgs = <<>> /\ new.phase = "done" /\ new.unique = fr.unique
  BY <1>1 DEF Frame
<1> QED
  BY <1>2 DEF Kept

\* An attempt that fails.
LEMMA FailedKept ==
  ASSUME NEW fr \in Frame
  PROVE  /\ Kept(fr, Failed(fr))
         /\ \/ Failed(fr).phase = "done" /\ Failed(fr).res = "failed"
            \/ Failed(fr).phase = fr.phase /\ Failed(fr).res = fr.res
<1>1. CASE fr.tries = 1
  <2>1. "failed" \in Results /\ Failed(fr) = Finished(fr, "failed")
    BY <1>1 DEF Failed, Results
  <2> QED
    BY <2>1, FinishedKept
<1>2. CASE fr.tries # 1
  <2> DEFINE new == [fr EXCEPT !.tries = @ - 1, !.sleeping = TRUE]
  <2>1. Failed(fr) = new
    BY <1>2 DEF Failed
  <2>2. /\ new.phase = fr.phase /\ new.res = fr.res /\ new.fresh = fr.fresh /\ new.stayed = fr.stayed
        /\ new.calm = fr.calm /\ new.meddled = fr.meddled /\ new.hollow = fr.hollow
        /\ new.seen = fr.seen /\ new.length = fr.length /\ new.lastPage = fr.lastPage
        /\ new.op = fr.op /\ new.out = fr.out /\ new.msgs = fr.msgs /\ new.unique = fr.unique
    BY DEF Frame
  <2> QED
    BY <2>1, <2>2 DEF Kept
<1> QED
  BY <1>1, <1>2

\* The single changes that the actions are made of.
LEMMA UpdatedKept ==
  ASSUME NEW fr \in Frame
  PROVE  /\ LET new == [fr EXCEPT !.msgs = <<>>]
            IN new \in Frame /\ Kept(fr, new) /\ new.phase = fr.phase /\ new.res = fr.res
         /\ LET new == [fr EXCEPT !.sleeping = FALSE]
            IN new \in Frame /\ Kept(fr, new) /\ new.phase = fr.phase /\ new.res = fr.res
<1>1. <<>> \in Seq(Reply)
  OBVIOUS
<1>2. LET new == [fr EXCEPT !.msgs = <<>>]
      IN new \in Frame /\ Kept(fr, new) /\ new.phase = fr.phase /\ new.res = fr.res
  BY <1>1 DEF Frame, Kept
<1>3. LET new == [fr EXCEPT !.sleeping = FALSE]
      IN new \in Frame /\ Kept(fr, new) /\ new.phase = fr.phase /\ new.res = fr.res
  BY DEF Frame, Kept
<1> QED
  BY <1>2, <1>3

\* A frame that stays.
LEMMA StayGoes ==
  ASSUME NEW g, NEW x
  PROVE  Goes(g, x, x)
<1>1. Kept(x, x) /\ EndsSo(g, x, x)
  BY DEF Kept, EndsSo
<1>2. x.op = "paginated" /\ x.phase = "poll" => x.phase # "yield"
  OBVIOUS
<1> QED
  BY <1>1, <1>2, KeptGoes

\* A step that changes one frame.
LEMMA ChangeGoesOn ==
  ASSUME TypeInv, NEW f \in 1 .. 2, NEW new, Changes(f, new), dir' = dir,
         Goes(f, frames[f], new), NEW g \in 1 .. 2
  PROVE  GoesOn(g)
<1>1. frames \in [1 .. 2 -> Frame]
  BY DEF TypeInv, FramesOK
<1>2. frames'[g] = IF g = f THEN new ELSE frames[g]
  BY <1>1 DEF Changes
<1>3. Goes(g, frames[g], frames[g])
  BY StayGoes
<1> QED
  BY <1>2, <1>3 DEF GoesOn

\* The steps of _retry.
LEMMA ReplacedGoesOn ==
  ASSUME TypeInv, NEW f \in 1 .. 2, NEW new \in Frame, Kept(frames[f], new), Replaced(f, new),
         EndsSo(f, frames[f], new), frames[f].phase # "poll" \/ new.phase = "poll", dir' = dir,
         NEW g \in 1 .. 2
  PROVE  GoesOn(g)
<1> DEFINE mine == IF g = f THEN new ELSE frames[g]
           bare == [mine EXCEPT !.msgs = <<>>]
<1>1. frames[g] \in Frame /\ Kept(frames[g], frames[g])
  BY FrameFacts DEF Kept
<1>2. mine \in Frame /\ Kept(frames[g], mine)
  BY <1>1
<1>3. EndsSo(g, frames[g], mine) /\ (frames[g].phase # "poll" \/ mine.phase = "poll")
  BY DEF EndsSo
<1>4. frames'[g] = bare
  BY DEF Replaced, TypeInv, FramesOK
<1> HIDE DEF mine
<1>5. Kept(mine, bare) /\ bare.phase = mine.phase /\ bare.res = mine.res /\ bare.calm = mine.calm
  BY <1>2, UpdatedKept DEF Kept
<1> HIDE DEF bare
<1>6. Kept(frames[g], bare)
  BY <1>2, <1>5, KeptTwice
<1>7. EndsSo(g, frames[g], bare)
  BY <1>3, <1>5 DEF EndsSo, Succeeds, Kept
<1>8. frames[g].op = "paginated" /\ frames[g].phase = "poll" => bare.phase # "yield"
  BY <1>3, <1>5
<1>9. Goes(g, frames[g], bare)
  BY <1>6, <1>7, <1>8, KeptGoes
<1> QED
  BY <1>4, <1>9 DEF GoesOn

LEMMA RetryGoesOn ==
  ASSUME TypeInv, NEW f \in 1 .. 2, Retry(f), NEW g \in 1 .. 2
  PROVE  GoesOn(g)
<1> DEFINE x == frames[f]
<1>1. x \in Frame /\ x.phase \in {"ask", "poll"} /\ dir' = dir
  BY FrameFacts DEF Retry, Working
<1>2. CASE Replaced(f, [x EXCEPT !.sleeping = FALSE])
  <2> DEFINE new == [x EXCEPT !.sleeping = FALSE]
  <2>1. new \in Frame /\ Kept(x, new) /\ new.phase = x.phase
    BY <1>1, UpdatedKept
  <2>2. Replaced(f, new)
    BY <1>2
  <2> HIDE DEF new
  <2>3. EndsSo(f, x, new)
    BY <1>1, <2>1 DEF EndsSo
  <2> QED
    BY <1>1, <2>1, <2>2, <2>3, ReplacedGoesOn
<1>3. CASE link' = "gone" /\ Changes(f, Failed([x EXCEPT !.msgs = <<>>]))
  <2> DEFINE bare == [x EXCEPT !.msgs = <<>>]
             new == Failed(bare)
  <2>1. bare \in Frame /\ Kept(x, bare) /\ bare.phase = x.phase
    BY <1>1, UpdatedKept
  <2>2. Changes(f, new)
    BY <1>3
  <2> HIDE DEF bare
  <2>3. Kept(bare, new) /\ ((new.phase = "done" /\ new.res = "failed") \/ new.phase = bare.phase)
    BY <2>1, FailedKept
  <2> HIDE DEF new
  <2>4. Kept(x, new)
    BY <2>1, <2>3, KeptTwice
  <2>5. EndsSo(f, x, new) /\ new.phase # "yield"
    BY <1>1, <1>3, <2>1, <2>3 DEF EndsSo
  <2>6. Goes(f, x, new)
    BY <2>4, <2>5, KeptGoes
  <2> QED
    BY <1>1, <2>2, <2>6, ChangeGoesOn
<1> QED
  BY <1>2, <1>3 DEF Retry

\* A frame that ends.
LEMMA FinishGoesOn ==
  ASSUME TypeInv, NEW f \in 1 .. 2, NEW res \in Results, Finishes(f, res), dir' = dir,
         \A y : y.res = res /\ y.calm = frames[f].calm => EndsSo(f, frames[f], y), NEW g \in 1 .. 2
  PROVE  GoesOn(g)
<1> DEFINE x == frames[f]
           new == Finished(x, res)
<1>1. x \in Frame
  BY FrameFacts
<1>2. Kept(x, new) /\ new.res = res /\ new.phase = "done"
  BY <1>1, FinishedKept
<1>3. Changes(f, new)
  BY DEF Finishes
<1> HIDE DEF new
<1>4. Goes(f, x, new)
  BY <1>2, KeptGoes DEF Kept
<1> QED
  BY <1>3, <1>4, ChangeGoesOn

LEMMA NoHandleGoesOn ==
  ASSUME TypeInv, NEW f \in 1 .. 2, NoHandle(f), NEW g \in 1 .. 2
  PROVE  GoesOn(g)
<1>1. "failed" \in Results /\ Finishes(f, "failed") /\ dir' = dir /\ link' # "up"
  BY DEF NoHandle, Results, server
<1>2. \A y : y.res = "failed" => EndsSo(f, frames[f], y)
  BY <1>1 DEF EndsSo
<1> QED
  BY <1>1, <1>2, FinishGoesOn

LEMMA ServerDownGoesOn ==
  ASSUME TypeInv, NEW f \in 1 .. 2, ServerDown(f), NEW g \in 1 .. 2
  PROVE  GoesOn(g)
<1> DEFINE x == frames[f]
           new == Failed(x)
<1>1. x \in Frame /\ x.phase \in {"ask", "poll"} /\ dir' = dir /\ link' # "up" /\ Changes(f, new)
  BY FrameFacts DEF ServerDown, Working, server
<1>2. Kept(x, new) /\ ((new.phase = "done" /\ new.res = "failed") \/ new.phase = x.phase)
  BY <1>1, FailedKept
<1> HIDE DEF new
<1>3. EndsSo(f, x, new) /\ new.phase # "yield"
  BY <1>1, <1>2 DEF EndsSo
<1>4. Goes(f, x, new)
  BY <1>2, <1>3, KeptGoes
<1> QED
  BY <1>1, <1>4, ChangeGoesOn

\* Frames that are not calm any more.
LEMMA CalmedGoes ==
  ASSUME NEW g, NEW x, NEW z \in Frame, Kept(x, z), z.phase = x.phase \/ (z.phase = "done" /\ z.res = "failed"),
         x.phase = "done" => z.res = x.res
  PROVE  Goes(g, x, [z EXCEPT !.calm = FALSE])
<1> DEFINE y == [z EXCEPT !.calm = FALSE]
<1>1. /\ y.op = z.op /\ y.fresh = z.fresh /\ y.stayed = z.stayed /\ y.calm = FALSE
      /\ y.meddled = z.meddled /\ y.hollow = z.hollow /\ y.unique = z.unique
      /\ y.length = z.length /\ y.lastPage = z.lastPage /\ y.out = z.out /\ y.msgs = z.msgs
      /\ y.phase = z.phase /\ y.res = z.res
  BY DEF Frame
<1> HIDE DEF y
<1>2. Aged(x, y) /\ Marked(x, y) /\ Noted(x, y)
  BY <1>1 DEF Kept, Aged, Marked, Noted
<1>3. Measured(g, x, y) /\ EndsSo(g, x, y)
  BY <1>1 DEF Kept, Measured, EndsSo
<1> QED
  BY <1>2, <1>3 DEF Goes, y

LEMMA TimeoutGoesOn ==
  ASSUME TypeInv, NEW f \in 1 .. 2, Timeout(f), NEW g \in 1 .. 2
  PROVE  GoesOn(g)
<1> DEFINE x == frames[g]
           z == IF g = f THEN Failed(frames[f]) ELSE frames[g]
<1>1. /\ x \in Frame /\ FrameOK(x) /\ frames[f].phase = "poll" /\ dir' = dir
      /\ frames'[g] = [z EXCEPT !.calm = FALSE]
  <2>1. x \in Frame /\ FrameOK(x) /\ frames[f].phase = "poll" /\ dir' = dir
    BY FrameFacts DEF Timeout, Awake, server
  <2>2. frames'[g] = [z EXCEPT !.calm = FALSE]
    BY DEF Timeout, TypeInv, FramesOK
  <2> QED
    BY <2>1, <2>2
<1>2. /\ z \in Frame /\ Kept(x, z)
      /\ \/ z.phase = "done" /\ z.res = "failed" /\ x.phase # "done"
         \/ z.phase = x.phase /\ z.res = x.res
  <2>1. CASE g = f
    <3>1. Failed(x) \in Frame
      BY <1>1, <2>1, FailedFacts DEF FrameOK
    <3> QED
      BY <1>1, <2>1, <3>1, FailedKept
  <2>2. CASE g # f
    BY <1>1, <2>2 DEF Kept
  <2> QED
    BY <2>1, <2>2
<1> HIDE DEF z
<1>3. Goes(g, x, frames'[g])
  BY <1>1, <1>2, CalmedGoes
<1> QED
  BY <1>1, <1>3 DEF GoesOn

\* The request is answered.
LEMMA PollingKept ==
  ASSUME NEW fr \in Frame
  PROVE  Kept(fr, Polling(fr)) /\ Polling(fr) \in Frame /\ Polling(fr).phase = "poll"
<1> DEFINE new == [fr EXCEPT !.phase = "poll", !.tries = Attempts]
<1>1. Polling(fr) = new /\ Attempts \in 0 .. Attempts
  BY ConstantsAssumption DEF Polling
<1>2. Polling(fr) \in Frame
  <2>1. new \in Frame
    BY <1>1, ZenonT(30) DEF Frame
  <2> QED
    BY <1>1, <2>1
<1>3. Kept(fr, Polling(fr)) /\ Polling(fr).phase = "poll"
  BY <1>1 DEF Frame, Kept
<1> QED
  BY <1>2, <1>3

LEMMA AskGoesOn ==
  ASSUME TypeInv, NEW f \in 1 .. 2, Ask(f), NEW g \in 1 .. 2
  PROVE  GoesOn(g)
<1> DEFINE x == frames[f]
           p == Polling(x)
           list == controls[x.ref].server
<1>1. x \in Frame /\ x.phase = "ask" /\ x.ref \in 0 .. 2 /\ dir' = dir
  BY FrameFacts DEF Ask, Awake
<1>2. PICK a \in Answers(list, Base(f)) :
        Changes(f, [p EXCEPT !.msgs = IF x.op \in Iterates THEN Messages(a) ELSE Whole(a),
                             !.hollow = @ \/ (x.op = "paginated" /\ a.found = <<>>)])
  BY DEF Ask, Base
<1> DEFINE msgs == IF x.op \in Iterates THEN Messages(a) ELSE Whole(a)
           hollow == x.hollow \/ (x.op = "paginated" /\ a.found = <<>>)
           new == [p EXCEPT !.msgs = msgs, !.hollow = hollow]
<1>3. Kept(x, p) /\ p \in Frame /\ p.phase = "poll"
  BY <1>1, PollingKept
<1>4. x.op = "paginated" => msgs[1].found = a.found
  BY DEF Iterates, Whole, Response
<1>5. Changes(f, new)
  <2>1. p.hollow = x.hollow
    BY <1>3 DEF Kept
  <2> QED
    BY <1>2, <2>1
<1> HIDE DEF msgs, p
<1>6. hollow = TRUE \/ hollow = x.hollow
  BY <1>1 DEF Frame
<1>7. x.hollow => hollow = TRUE
  BY <1>1 DEF Frame
<1>8. x.op = "paginated" /\ a.found = <<>> => hollow
  OBVIOUS
<1> HIDE DEF hollow
<1>9. /\ new.op = p.op /\ new.fresh = p.fresh /\ new.stayed = p.stayed /\ new.calm = p.calm
      /\ new.meddled = p.meddled /\ new.hollow = hollow /\ new.unique = p.unique /\ new.seen = p.seen
      /\ new.length = p.length /\ new.lastPage = p.lastPage /\ new.out = p.out /\ new.msgs = msgs
      /\ new.phase = p.phase
  BY <1>3 DEF Frame
<1> HIDE DEF new
<1>10. Aged(x, new)
  BY <1>3, <1>7, <1>9 DEF Kept, Aged
<1>11. Marked(x, new)
  BY <1>4, <1>8, <1>9 DEF Marked
<1>12. Noted(x, new) /\ Measured(f, x, new) /\ EndsSo(f, x, new)
  BY <1>1, <1>3, <1>9 DEF Kept, Noted, Measured, EndsSo
<1>13. Goes(f, x, new)
  BY <1>10, <1>11, <1>12 DEF Goes
<1> QED
  BY <1>1, <1>5, <1>13, ChangeGoesOn

\* Results.
LEMMA RaiseGoesOn ==
  ASSUME TypeInv, NEW f \in 1 .. 2, Raise(f), NEW g \in 1 .. 2
  PROVE  GoesOn(g)
<1> DEFINE x == frames[f]
           res == IF Message(f).err # "ok" THEN Message(f).err ELSE "notUnique"
<1>1. /\ x.phase = "poll" /\ x.msgs # <<>> /\ dir' = dir /\ Finishes(f, res)
      /\ Message(f).err = "ok" => x.unique
  BY DEF Raise, Ready, Awake, server, Accepted, TooMany
<1>2. Message(f).err \in Refused \cup {"ok"}
  BY <1>1, MessageFacts DEF Reply
<1>3. res \in Results
  BY <1>2 DEF Results
<1>4. \A y : y.res = res => EndsSo(f, x, y)
  BY <1>1, <1>2 DEF EndsSo
<1> HIDE DEF res
<1> QED
  BY <1>1, <1>3, <1>4, FinishGoesOn

LEMMA ReturnsGoesOn ==
  ASSUME TypeInv, NEW f \in 1 .. 2, Returns(f), NEW g \in 1 .. 2
  PROVE  GoesOn(g)
<1> DEFINE x == frames[f]
           out == Listed(Message(f).found)
           listed == [x EXCEPT !.out = out]
           new == Finished(listed, "ok")
<1>1. /\ x \in Frame /\ x.phase = "poll" /\ x.op \in {"search", "get"} /\ x.msgs # <<>>
      /\ Message(f).err = "ok" /\ dir' = dir /\ Changes(f, new)
  BY FrameFacts DEF Returns, Ready, Awake, Accepted, server, Listed
<1>2. out \in Seq(Out)
  BY <1>1, MessageFacts, ListedFacts DEF Reply
<1> HIDE DEF out
<1>3. /\ listed \in Frame
      /\ listed.op = x.op /\ listed.fresh = x.fresh /\ listed.stayed = x.stayed /\ listed.calm = x.calm
      /\ listed.meddled = x.meddled /\ listed.hollow = x.hollow /\ listed.unique = x.unique
      /\ listed.seen = x.seen /\ listed.length = x.length /\ listed.lastPage = x.lastPage
      /\ listed.msgs = x.msgs /\ listed.out = out
  BY <1>1, <1>2 DEF Frame
<1> HIDE DEF listed
<1>4. Kept(listed, new) /\ new.res = "ok" /\ new.phase = "done"
  BY <1>3, FinishedKept DEF Results
<1> HIDE DEF new
<1>5. Aged(x, new) /\ Marked(x, new) /\ Noted(x, new)
  BY <1>1, <1>3, <1>4 DEF Kept, Aged, Marked, Noted
<1>6. Measured(f, x, new) /\ EndsSo(f, x, new)
  BY <1>1, <1>3, <1>4 DEF Kept, Measured, EndsSo, Succeeds, out
<1>7. Goes(f, x, new)
  BY <1>5, <1>6 DEF Goes
<1> QED
  BY <1>1, <1>7, ChangeGoesOn

\* A result is yielded.
LEMMA YieldedKept ==
  ASSUME NEW fr \in Frame, NEW e
  PROVE  LET new == Yielded(fr, e)
         IN /\ new.op = fr.op /\ new.fresh = fr.fresh /\ new.stayed = fr.stayed /\ new.calm = fr.calm
            /\ new.meddled = fr.meddled /\ new.hollow = fr.hollow /\ new.seen = fr.seen
            /\ new.unique = fr.unique /\ new.length = fr.length /\ new.lastPage = fr.lastPage
            /\ new.msgs = fr.msgs /\ new.phase = "yield"
            /\ new.out = Append(fr.out, [e |-> e, page |-> fr.page, entry |-> fr.entry + 1,
                                         results |-> fr.length, lastPage |-> fr.lastPage])
<1> DEFINE out == Append(fr.out, [e |-> e, page |-> fr.page, entry |-> fr.entry + 1,
                                  results |-> fr.length, lastPage |-> fr.lastPage])
<1>1. Yielded(fr, e) = [fr EXCEPT !.phase = "yield", !.entry = fr.entry + 1, !.out = out]
  BY DEF Yielded
<1> HIDE DEF out
<1>2. LET new == [fr EXCEPT !.phase = "yield", !.entry = fr.entry + 1, !.out = out]
      IN /\ new.op = fr.op /\ new.fresh = fr.fresh /\ new.stayed = fr.stayed /\ new.calm = fr.calm
         /\ new.meddled = fr.meddled /\ new.hollow = fr.hollow /\ new.seen = fr.seen
         /\ new.unique = fr.unique /\ new.length = fr.length /\ new.lastPage = fr.lastPage
         /\ new.msgs = fr.msgs /\ new.phase = "yield" /\ new.out = out
  BY DEF Frame
<1> QED
  BY <1>1, <1>2 DEF out

\* The step that yields z's next result, where z has what x has.
LEMMA YieldGoes ==
  ASSUME NEW g, NEW x, NEW z \in Frame, NEW e, Aged(x, z), z.out = x.out, z.msgs \in {x.msgs, <<>>, Tail(x.msgs)},
         x.op = "paginated" => z.msgs # Tail(x.msgs) \/ z.msgs = <<>>,
         z.page = x.page, z.entry = x.entry,
         Measured(g, x, Yielded(z, e))
  PROVE  Goes(g, x, Yielded(z, e))
<1> DEFINE y == Yielded(z, e)
<1>1. /\ y.op = z.op /\ y.fresh = z.fresh /\ y.stayed = z.stayed /\ y.calm = z.calm
      /\ y.meddled = z.meddled /\ y.hollow = z.hollow /\ y.seen = z.seen
      /\ y.unique = z.unique /\ y.length = z.length /\ y.lastPage = z.lastPage
      /\ y.msgs = z.msgs /\ y.phase = "yield"
      /\ y.out = Append(z.out, [e |-> e, page |-> z.page, entry |-> z.entry + 1,
                                results |-> z.length, lastPage |-> z.lastPage])
  BY YieldedKept
<1> HIDE DEF y
<1>2. Aged(x, y) /\ EndsSo(g, x, y)
  BY <1>1 DEF Aged, EndsSo
<1>3. Marked(x, y)
  BY <1>1 DEF Marked
<1>4. y.out = Append(x.out, [e |-> e, page |-> x.page, entry |-> x.entry + 1,
                             results |-> y.length, lastPage |-> y.lastPage])
  BY <1>1
<1>5. Noted(x, y)
  BY <1>4 DEF Noted
<1> QED
  BY <1>2, <1>3, <1>5 DEF Goes, y

LEMMA YieldEntryGoesOn ==
  ASSUME TypeInv, NEW f \in 1 .. 2, YieldEntry(f), NEW g \in 1 .. 2
  PROVE  GoesOn(g)
<1> DEFINE x == frames[f]
           msgs == Tail(x.msgs)
           z == [x EXCEPT !.msgs = msgs]
           e == Message(f).found[1]
<1>1. /\ x \in Frame /\ x.op \in Iterates /\ x.msgs # <<>> /\ dir' = dir
      /\ Changes(f, Yielded(z, e))
  BY FrameFacts DEF YieldEntry, Ready, server
<1>2. msgs \in Seq(Reply)
  BY <1>1 DEF Frame
<1> HIDE DEF msgs
<1>3. z \in Frame
  BY <1>1, <1>2 DEF Frame
<1>4. /\ z.op = x.op /\ z.fresh = x.fresh /\ z.stayed = x.stayed /\ z.calm = x.calm
      /\ z.meddled = x.meddled /\ z.hollow = x.hollow /\ z.unique = x.unique
      /\ z.seen = x.seen /\ z.length = x.length /\ z.lastPage = x.lastPage
      /\ z.msgs = msgs /\ z.out = x.out /\ z.page = x.page /\ z.entry = x.entry
  BY <1>1 DEF Frame
<1>5. Yielded(z, e).length = z.length /\ Yielded(z, e).lastPage = z.lastPage
  BY <1>3, YieldedKept
<1> HIDE DEF z
<1>6. Aged(x, z)
  BY <1>4 DEF Aged
<1>7. x.op # "paginated"
  BY <1>1 DEF Iterates
<1>8. Measured(f, x, Yielded(z, e))
  BY <1>4, <1>5, <1>7 DEF Measured
<1>9. Goes(f, x, Yielded(z, e))
  BY <1>3, <1>4, <1>6, <1>7, <1>8, YieldGoes DEF msgs
<1> QED
  BY <1>1, <1>9, ChangeGoesOn

LEMMA AskingKept ==
  ASSUME NEW fr \in Frame
  PROVE  Kept(fr, Asking(fr)) /\ Asking(fr).phase = "ask"
<1>1. Asking(fr) = [fr EXCEPT !.phase = "ask", !.tries = Attempts]
  BY DEF Asking
<1> QED
  BY <1>1 DEF Frame, Kept

LEMMA PageEndsGoesOn ==
  ASSUME TypeInv, NEW f \in 1 .. 2, PageEnds(f), NEW g \in 1 .. 2
  PROVE  GoesOn(g)
<1> DEFINE x == frames[f]
           cookie == Gotten(Received(f), "paged")
           z == [x EXCEPT !.msgs = <<>>, !.page = @ + 1, !.entry = 0]
           new == Asking(z)
<1>1. /\ x \in Frame /\ x.phase = "poll" /\ x.op \in Iterates /\ x.msgs # <<>> /\ Message(f).err = "ok"
      /\ Message(f).final /\ dir' = dir
  BY FrameFacts DEF PageEnds, Ready, Awake, Accepted, server
<1>2. cookie = Message(f).resp.paged
  BY <1>1, MessageFacts
<1>3. CASE x.op = "iter" \/ x.entry = 0 \/ cookie = None
  <2>1. Finishes(f, "ok") /\ "ok" \in Results
    BY <1>3 DEF PageEnds, Results
  <2>2. \A y : y.res = "ok" => EndsSo(f, x, y)
    BY <1>1, <1>2, <1>3 DEF EndsSo, Succeeds
  <2> QED
    BY <1>1, <2>1, <2>2, FinishGoesOn
<1>4. CASE ~(x.op = "iter" \/ x.entry = 0 \/ cookie = None)
  <2>1. Changes(f, new)
    BY <1>4 DEF PageEnds
  <2>2. <<>> \in Seq(Reply) /\ x.page + 1 \in Nat \ {0} /\ 0 \in Nat
    BY <1>1 DEF Frame
  <2>3. z \in Frame
    BY <1>1, <2>2, ZenonT(30) DEF Frame
  <2>4. Kept(x, z)
    BY <1>1 DEF Frame, Kept
  <2> HIDE DEF z
  <2>5. Kept(z, new) /\ new.phase = "ask"
    BY <2>3, AskingKept
  <2> HIDE DEF new
  <2>6. Kept(x, new) /\ EndsSo(f, x, new)
    BY <2>4, <2>5, KeptTwice DEF EndsSo
  <2>7. Goes(f, x, new)
    BY <2>5, <2>6, KeptGoes
  <2> QED
    BY <1>1, <2>1, <2>7, ChangeGoesOn
<1> QED
  BY <1>3, <1>4

LEMMA PageArrivesGoesOn ==
  ASSUME TypeInv, NEW f \in 1 .. 2, PageArrives(f), NEW g \in 1 .. 2
  PROVE  GoesOn(g)
<1> DEFINE x == frames[f]
           found == Message(f).found
           vlv == Gotten(Received(f), "vlv")
           count == vlv.count
           last == Pages(count)
           known == IF x.lastPage # None THEN x ELSE [x EXCEPT !.length = count, !.lastPage = last]
           left == Tail(found)
           z == [known EXCEPT !.msgs = <<>>, !.left = left]
<1>1. /\ x \in Frame /\ x.phase = "poll" /\ x.op = "paginated" /\ x.msgs # <<>> /\ Message(f).err = "ok"
      /\ dir' = dir /\ FrameOK(x)
  BY FrameFacts DEF PageArrives, Ready, Awake, Accepted, server
<1>2. /\ Message(f) \in Reply /\ Message(f) = x.msgs[1] /\ 1 \in DOMAIN x.msgs
      /\ vlv = Message(f).resp.vlv
  BY <1>1, MessageFacts
<1>3. CASE found = <<>>
  <2>1. Finishes(f, "ok") /\ "ok" \in Results
    BY <1>3 DEF PageArrives, Results
  <2>2. \A y : y.res = "ok" => EndsSo(f, x, y)
    BY <1>1, <1>3 DEF EndsSo, Succeeds
  <2> QED
    BY <1>1, <2>1, <2>2, FinishGoesOn
<1>4. CASE found # <<>>
  <2>1. Changes(f, Yielded(z, found[1]))
    BY <1>4 DEF PageArrives
  <2>2. <<>> \in Seq(Reply) /\ left \in Seq(Entries)
    BY <1>2, <1>4 DEF Reply
  <2>3. vlv \in View
    BY <1>1, <1>2 DEF FrameOK, Reply, ResponseType
  <2>4. count \in Nat
    BY <2>3 DEF View
  <2>5. count \in Place /\ last \in Int \cup {None}
    BY <2>4, ConstantsAssumption DEF Place, Pages
  <2> HIDE DEF left, last, count
  <2>6. known \in Frame
    BY <1>1, <2>5, ZenonT(30) DEF Frame
  <2>7. /\ known.op = x.op /\ known.fresh = x.fresh /\ known.stayed = x.stayed /\ known.calm = x.calm
        /\ known.meddled = x.meddled /\ known.hollow = x.hollow /\ known.unique = x.unique
        /\ known.seen = x.seen /\ known.out = x.out
        /\ known.page = x.page /\ known.entry = x.entry
        /\ known.length = IF x.lastPage # None THEN x.length ELSE count
        /\ known.lastPage = IF x.lastPage # None THEN x.lastPage ELSE last
    BY <1>1 DEF Frame
  <2> HIDE DEF known
  <2>8. z \in Frame
    BY <2>2, <2>6, ZenonT(30) DEF Frame
  <2>9. /\ z.op = known.op /\ z.fresh = known.fresh /\ z.stayed = known.stayed /\ z.calm = known.calm
        /\ z.meddled = known.meddled /\ z.hollow = known.hollow /\ z.unique = known.unique
        /\ z.seen = known.seen /\ z.length = known.length /\ z.lastPage = known.lastPage
        /\ z.msgs = <<>> /\ z.out = known.out /\ z.page = known.page /\ z.entry = known.entry
    BY <2>6 DEF Frame
  <2> HIDE DEF z
  <2>10. Yielded(z, found[1]).length = z.length /\ Yielded(z, found[1]).lastPage = z.lastPage
    BY <2>8, YieldedKept
  <2>11. Measured(f, x, Yielded(z, found[1]))
    BY <1>1, <1>2, <2>7, <2>9, <2>10 DEF Measured, count, last
  <2>12. Aged(x, z)
    BY <2>7, <2>9 DEF Aged
  <2>13. Goes(f, x, Yielded(z, found[1]))
    BY <2>7, <2>8, <2>9, <2>11, <2>12, YieldGoes
  <2> QED
    BY <1>1, <2>1, <2>13, ChangeGoesOn
<1> QED
  BY <1>3, <1>4

\* The program goes on, or closes the generator.
LEMMA ResumeIterGoesOn ==
  ASSUME TypeInv, NEW f \in 1 .. 2, ResumeIter(f), NEW g \in 1 .. 2
  PROVE  GoesOn(g)
<1> DEFINE x == frames[f]
           new == Polling(x)
<1>1. x \in Frame /\ Changes(f, new) /\ dir' = dir
  BY FrameFacts DEF ResumeIter, server
<1>2. Kept(x, new) /\ new.phase = "poll"
  BY <1>1, PollingKept
<1> HIDE DEF new
<1>3. Goes(f, x, new)
  BY <1>2, KeptGoes DEF EndsSo
<1> QED
  BY <1>1, <1>3, ChangeGoesOn

LEMMA ResumePageGoesOn ==
  ASSUME TypeInv, NEW f \in 1 .. 2, ResumePage(f), NEW g \in 1 .. 2
  PROVE  GoesOn(g)
<1> DEFINE x == frames[f]
           left == Tail(x.left)
           z == [x EXCEPT !.left = left]
           e == x.left[1]
<1>1. /\ x \in Frame /\ FrameOK(x) /\ x.phase = "yield" /\ x.left # <<>> /\ dir' = dir
      /\ Changes(f, Yielded(z, e))
  BY FrameFacts DEF ResumePage, server
<1>2. left \in Seq(Entries) /\ x.op = "paginated" /\ x.msgs = <<>>
  BY <1>1 DEF Frame, FrameOK
<1> HIDE DEF left
<1>3. z \in Frame
  BY <1>1, <1>2 DEF Frame
<1>4. /\ z.op = x.op /\ z.fresh = x.fresh /\ z.stayed = x.stayed /\ z.calm = x.calm
      /\ z.meddled = x.meddled /\ z.hollow = x.hollow /\ z.unique = x.unique
      /\ z.seen = x.seen /\ z.length = x.length /\ z.lastPage = x.lastPage
      /\ z.msgs = x.msgs /\ z.out = x.out /\ z.page = x.page /\ z.entry = x.entry
  BY <1>1 DEF Frame
<1>5. Yielded(z, e).length = z.length /\ Yielded(z, e).lastPage = z.lastPage
  BY <1>3, YieldedKept
<1> HIDE DEF z
<1>6. Aged(x, z)
  BY <1>4 DEF Aged
<1>7. Measured(f, x, Yielded(z, e))
  BY <1>1, <1>4, <1>5 DEF Measured
<1>8. Goes(f, x, Yielded(z, e))
  BY <1>2, <1>3, <1>4, <1>6, <1>7, YieldGoes
<1> QED
  BY <1>1, <1>8, ChangeGoesOn

LEMMA NextPageGoesOn ==
  ASSUME TypeInv, NEW f \in 1 .. 2, NextPage(f), NEW g \in 1 .. 2
  PROVE  GoesOn(g)
<1> DEFINE x == frames[f]
           vlv == Gotten(controls[x.ref], "vlv")
           offset == x.page * PageSize
           count == vlv.count
           z == [x EXCEPT !.page = @ + 1, !.entry = 0, !.length = count]
           new == Asking(z)
<1>1. /\ x \in Frame /\ x.ref \in 0 .. 2 /\ x.phase = "yield" /\ x.op = "paginated" /\ x.left = <<>>
      /\ dir' = dir
  BY FrameFacts DEF NextPage, server
<1>2. vlv = controls[x.ref].response.vlv /\ vlv \in View \cup {None}
  BY <1>1 DEF Gotten, TypeInv, ControlsOK, ControlsType, ResponseType
<1>3. CASE vlv = None
  <2>1. Finishes(f, "attributeError") /\ "attributeError" \in Results
    BY <1>3 DEF NextPage, Results
  <2>2. \A y : y.res = "attributeError" => EndsSo(f, x, y)
    BY <1>1, <1>2, <1>3 DEF EndsSo
  <2> QED
    BY <1>1, <2>1, <2>2, FinishGoesOn
<1>4. CASE vlv # None /\ EndReached(offset, count)
  <2>1. Finishes(f, "ok") /\ "ok" \in Results
    BY <1>4 DEF NextPage, Results
  <2>2. \A y : y.res = "ok" => EndsSo(f, x, y)
    BY <1>1, <1>2, <1>4 DEF EndsSo, Succeeds
  <2> QED
    BY <1>1, <2>1, <2>2, FinishGoesOn
<1>5. CASE vlv # None /\ ~EndReached(offset, count)
  <2>1. Changes(f, new)
    BY <1>5 DEF NextPage
  <2>2. count \in Place /\ x.page + 1 \in Nat \ {0} /\ 0 \in Nat
    <3>1. count \in Place
      BY <1>2, <1>5 DEF View, Place
    <3>2. x.page \in Nat \ {0}
      BY <1>1 DEF Frame
    <3> QED
      BY <3>1, <3>2
  <2>3. count = controls[x.ref].response.vlv.count
    BY <1>2
  <2> HIDE DEF count
  <2>4. z \in Frame
    BY <1>1, <2>2, ZenonT(30) DEF Frame
  <2>5. /\ z.op = x.op /\ z.fresh = x.fresh /\ z.stayed = x.stayed /\ z.calm = x.calm
        /\ z.meddled = x.meddled /\ z.hollow = x.hollow /\ z.unique = x.unique
        /\ z.seen = x.seen /\ z.length = count /\ z.lastPage = x.lastPage
        /\ z.msgs = x.msgs /\ z.out = x.out
    BY <1>1 DEF Frame
  <2> HIDE DEF z
  <2>6. Kept(z, new) /\ new.phase = "ask"
    BY <2>4, AskingKept
  <2> HIDE DEF new
  <2>7. Aged(x, new) /\ Marked(x, new) /\ Noted(x, new)
    BY <2>5, <2>6 DEF Kept, Aged, Marked, Noted
  <2>8. Measured(f, x, new) /\ EndsSo(f, x, new)
    BY <1>1, <1>2, <1>5, <2>3, <2>5, <2>6 DEF Kept, Measured, EndsSo
  <2>9. Goes(f, x, new)
    BY <2>7, <2>8 DEF Goes
  <2> QED
    BY <1>1, <2>1, <2>9, ChangeGoesOn
<1> QED
  BY <1>3, <1>4, <1>5

LEMMA CloseGoesOn ==
  ASSUME TypeInv, NEW f \in 1 .. 2, Close(f), NEW g \in 1 .. 2
  PROVE  GoesOn(g)
<1> DEFINE x == frames[f]
           new == Finished(x, "closed")
<1>1. x \in Frame /\ FrameOK(x) /\ x.phase = "yield" /\ dir' = dir /\ "closed" \in Results /\ "failed" \in Results
  BY FrameFacts DEF Close, server, Results
<1>2. \A y : y.res = "closed" => EndsSo(f, x, y)
  BY DEF EndsSo
<1>3. CASE Replaced(f, new)
  <2>1. Kept(x, new) /\ new.res = "closed" /\ new \in Frame
    BY <1>1, FinishedKept, FinishedFacts
  <2>2. EndsSo(f, x, new)
    BY <1>2, <2>1
  <2> HIDE DEF new
  <2> QED
    BY <1>1, <1>3, <2>1, <2>2, ReplacedGoesOn
<1>4. CASE link' = "gone" /\ Finishes(f, "failed")
  <2>1. \A y : y.res = "failed" => EndsSo(f, x, y)
    BY <1>4 DEF EndsSo
  <2> QED
    BY <1>1, <1>4, <2>1, FinishGoesOn
<1>5. CASE Finishes(f, "closed")
  BY <1>1, <1>2, <1>5, FinishGoesOn
<1> QED
  BY <1>3, <1>4, <1>5 DEF Close

\* The rest of the world.
LEMMA ChangedGoesOn ==
  ASSUME TypeInv, NEW new \in SUBSET Entries, Changed(new), NEW g \in 1 .. 2
  PROVE  GoesOn(g)
<1> DEFINE x == frames[g]
           seen == x.seen \cup new
           stayed == x.stayed \cap new
           all == [x EXCEPT !.seen = seen, !.stayed = stayed, !.calm = FALSE]
<1>1. frames'[g] = IF ~Open(x) THEN x ELSE all
  BY DEF Changed, TypeInv, FramesOK
<1>2. dir' = new /\ x \in Frame
  BY FrameFacts DEF Changed
<1>3. CASE ~Open(x)
  <2>1. Goes(g, x, frames'[g]) /\ ~Open(frames'[g])
    BY <1>1, <1>3, StayGoes
  <2> QED
    BY <2>1 DEF GoesOn
<1>4. CASE Open(x)
  <2> DEFINE y == all
  <2>1. stayed \subseteq x.stayed /\ stayed \subseteq new
    OBVIOUS
  <2> HIDE DEF seen, stayed
  <2>2. /\ y.op = x.op /\ y.fresh = x.fresh /\ y.stayed = stayed /\ y.calm = FALSE
        /\ y.meddled = x.meddled /\ y.hollow = x.hollow /\ y.unique = x.unique
        /\ y.length = x.length /\ y.lastPage = x.lastPage /\ y.out = x.out /\ y.msgs = x.msgs
        /\ y.phase = x.phase /\ y.res = x.res
    BY <1>2 DEF Frame
  <2> HIDE DEF y
  <2>3. Aged(x, y) /\ Marked(x, y) /\ Noted(x, y)
    BY <2>1, <2>2 DEF Aged, Marked, Noted
  <2>4. Measured(g, x, y) /\ EndsSo(g, x, y)
    BY <1>4, <2>2 DEF Measured, EndsSo, Open
  <2>5. frames'[g] = y
    BY <1>1, <1>4 DEF y, seen, stayed
  <2> QED
    BY <1>2, <2>1, <2>2, <2>3, <2>4, <2>5 DEF GoesOn, Goes
<1> QED
  BY <1>3, <1>4

LEMMA ConnectionLostGoesOn ==
  ASSUME TypeInv, ConnectionLost, NEW g \in 1 .. 2
  PROVE  GoesOn(g)
<1> DEFINE x == frames[g]
<1>1. PICK read \in BOOLEAN :
        frames' = [f \in DOMAIN frames |-> IF ~Open(frames[f]) THEN frames[f] ELSE
                     [frames[f] EXCEPT !.calm = FALSE, !.msgs = IF read THEN @ ELSE <<>>]]
  BY DEF ConnectionLost
<1> DEFINE msgs == IF read THEN x.msgs ELSE <<>>
           y == [x EXCEPT !.calm = FALSE, !.msgs = msgs]
<1>2. frames'[g] = IF ~Open(x) THEN x ELSE y
  BY <1>1 DEF TypeInv, FramesOK
<1>3. dir' = dir /\ x \in Frame
  BY FrameFacts DEF ConnectionLost
<1>4. CASE ~Open(x)
  BY <1>2, <1>3, <1>4, StayGoes DEF GoesOn
<1>5. CASE Open(x)
  <2>1. msgs \in {x.msgs, <<>>}
    OBVIOUS
  <2> HIDE DEF msgs
  <2>2. /\ y.op = x.op /\ y.fresh = x.fresh /\ y.stayed = x.stayed /\ y.calm = FALSE
        /\ y.meddled = x.meddled /\ y.hollow = x.hollow /\ y.unique = x.unique
        /\ y.length = x.length /\ y.lastPage = x.lastPage /\ y.out = x.out /\ y.msgs = msgs
        /\ y.phase = x.phase /\ y.res = x.res
    BY <1>3 DEF Frame
  <2> HIDE DEF y
  <2>3. Aged(x, y) /\ Marked(x, y) /\ Noted(x, y)
    BY <2>1, <2>2 DEF Aged, Marked, Noted
  <2>4. Measured(g, x, y) /\ EndsSo(g, x, y)
    BY <1>5, <2>2 DEF Measured, EndsSo, Open
  <2> QED
    BY <1>2, <1>3, <1>5, <2>3, <2>4 DEF GoesOn, Goes
<1> QED
  BY <1>4, <1>5

\* A call that begins: its frame has no history, and the other's is disturbed.
Begun(f, ref) ==
  LET y == frames'[f]
  IN /\ y.fresh = (Given(ref).server = <<>>) /\ y.stayed = dir /\ y.seen = dir /\ y.calm
     /\ y.meddled = {} /\ ~y.hollow /\ y.length = None /\ y.lastPage = None /\ ~y.sleeping

LEMMA BeginGoesOn ==
  ASSUME TypeInv, NEW f \in 1 .. 2, NEW op, NEW ref, NEW sorted \in BOOLEAN, NEW unique \in BOOLEAN,
         Call(f, op, ref, sorted, unique), Begin(f, op, ref, sorted, unique)
  PROVE  /\ Begun(f, ref) /\ dir' = dir
         /\ \A g \in 1 .. 2 : g # f =>
              /\ GoesOn(g)
              /\ frames'[g].meddled = frames[g].meddled \cup Meddling(f, ref, Given(ref), frames[g])
<1> DEFINE fresh == Given(ref).server = <<>>
           frame == [NoFrame EXCEPT !.op = op, !.ref = ref, !.unique = unique, !.seen = dir,
                                    !.stayed = dir, !.fresh = fresh]
           asking == [frame EXCEPT !.phase = "ask", !.tries = Attempts]
           meddled(g) == frames[g].meddled \cup Meddling(f, ref, Given(ref), frames[g])
           other(g) == [frames[g] EXCEPT !.meddled = meddled(g)]
<1>1. \A g \in 1 .. 2 : frames'[g] = IF g = f THEN asking ELSE other(g)
  BY DEF Begin, Given, Asking, TypeInv, FramesOK
<1>2. dir' = dir /\ fresh \in BOOLEAN
  BY DEF Begin, server
<1> HIDE DEF fresh
<1>3. /\ asking.fresh = fresh /\ asking.stayed = dir /\ asking.seen = dir /\ asking.calm = TRUE
      /\ asking.meddled = {} /\ asking.hollow = FALSE /\ asking.length = None
      /\ asking.lastPage = None /\ asking.sleeping = FALSE
  BY DEF NoFrame
<1> HIDE DEF asking
<1>4. Begun(f, ref)
  BY <1>1, <1>3 DEF Begun, fresh
<1>5. ASSUME NEW g \in 1 .. 2, g # f
      PROVE  GoesOn(g) /\ frames'[g].meddled = meddled(g)
  <2> DEFINE x == frames[g]
             y == other(g)
  <2>1. x \in Frame /\ x.meddled \subseteq meddled(g)
    BY FrameFacts
  <2> HIDE DEF meddled
  <2>2. /\ y.op = x.op /\ y.fresh = x.fresh /\ y.stayed = x.stayed /\ y.calm = x.calm
        /\ y.meddled = meddled(g) /\ y.hollow = x.hollow /\ y.unique = x.unique /\ y.seen = x.seen
        /\ y.length = x.length /\ y.lastPage = x.lastPage /\ y.out = x.out /\ y.msgs = x.msgs
        /\ y.phase = x.phase /\ y.res = x.res
    BY <2>1 DEF Frame
  <2>3. frames'[g] = y
    BY <1>1, <1>5
  <2> HIDE DEF y
  <2>4. Aged(x, y) /\ Marked(x, y) /\ Noted(x, y)
    BY <2>1, <2>2 DEF Aged, Marked, Noted
  <2>5. Measured(g, x, y) /\ EndsSo(g, x, y)
    BY <2>2 DEF Measured, EndsSo
  <2> QED
    BY <1>2, <2>2, <2>3, <2>4, <2>5 DEF GoesOn, Goes
<1> QED
  BY <1>2, <1>4, <1>5

\* Every step begins a call, or goes on with both frames.
Starts(f, op, ref, sorted, unique) ==
  /\ Call(f, op, ref, sorted, unique) /\ BeginEffect(f, op, ref, sorted, unique)
  /\ Begun(f, ref) /\ dir' = dir
  /\ \A g \in 1 .. 2 : g # f =>
       /\ GoesOn(g)
       /\ frames'[g].meddled = frames[g].meddled \cup Meddling(f, ref, Given(ref), frames[g])
Started == \E f \in 1 .. 2, sorted \in BOOLEAN, unique \in BOOLEAN : \E op, ref :
             Starts(f, op, ref, sorted, unique)

LEMMA CallStarts ==
  ASSUME TypeInv, NEW f \in 1 .. 2, NEW op, NEW ref, NEW sorted \in BOOLEAN, NEW unique \in BOOLEAN,
         Call(f, op, ref, sorted, unique), Begin(f, op, ref, sorted, unique)
  PROVE  Started
<1>1. Starts(f, op, ref, sorted, unique)
  BY BeginType, BeginGoesOn DEF Starts
<1> QED
  BY <1>1 DEF Started

LEMMA WorkGoesOn ==
  ASSUME TypeInv, NEW f \in 1 .. 2, Work(f), NEW g \in 1 .. 2
  PROVE  GoesOn(g)
BY RetryGoesOn, NoHandleGoesOn, AskGoesOn, ServerDownGoesOn, TimeoutGoesOn, RaiseGoesOn, ReturnsGoesOn,
   YieldEntryGoesOn, PageEndsGoesOn, PageArrivesGoesOn DEF Work

LEMMA ProceedsGoesOn ==
  ASSUME TypeInv, Proceeds, NEW g \in 1 .. 2
  PROVE  GoesOn(g)
<1>1. ASSUME NEW f \in 1 .. 2, Work(f) \/ ResumeIter(f) \/ ResumePage(f) \/ NextPage(f) \/ Close(f)
      PROVE  GoesOn(g)
  BY <1>1, WorkGoesOn, ResumeIterGoesOn, ResumePageGoesOn, NextPageGoesOn, CloseGoesOn
<1>2. ASSUME NEW e \in Entries, Changed(dir \cup {e}) \/ Changed(dir \ {e})
      PROVE  GoesOn(g)
  <2>1. dir \cup {e} \in SUBSET Entries /\ dir \ {e} \in SUBSET Entries
    BY DEF TypeInv, ServerOK
  <2> QED
    BY <1>2, <2>1, ChangedGoesOn
<1>3. ASSUME ConnectionLost
      PROVE  GoesOn(g)
  BY <1>3, ConnectionLostGoesOn
<1>4. ASSUME UNCHANGED vars
      PROVE  GoesOn(g)
  BY <1>4, StayGoes DEF GoesOn, vars, server
<1> QED
  BY <1>1, <1>2, <1>3, <1>4 DEF Proceeds

LEMMA NextGoesOn ==
  ASSUME TypeInv, [Next]_vars
  PROVE  TypeInv' /\ (Started \/ (Progress /\ \A g \in 1 .. 2 : GoesOn(g)))
<1>1. TypeInv' /\ (Begins \/ Proceeds)
  BY NextMoves, BeginsOrProceeds
<1>2. ASSUME Begins
      PROVE  Started
  BY <1>2, CallStarts DEF Begins
<1>3. ASSUME Proceeds
      PROVE  Progress /\ \A g \in 1 .. 2 : GoesOn(g)
  BY <1>3, ProceedsProgress, ProceedsGoesOn
<1> QED
  BY <1>1, <1>2, <1>3

(***************************************************************************)
(* The invariant.                                                          *)
(***************************************************************************)
\* A search that Complete speaks of.
Claims(x) == x.fresh /\ ~x.hollow /\ (x.op = "paginated" => "controls" \notin x.meddled)

\* An entry is read, if it is not found: in the page, or in what libldap has.
Left(x, e) == \E n \in DOMAIN x.left : x.left[n] = e
Read(x, e) == \E k \in DOMAIN x.msgs : \E n \in DOMAIN x.msgs[k].found : x.msgs[k].found[n] = e

\* It is further on in the list than the pages that were asked for.
Further(x, vlv, e) == \E i \in DOMAIN vlv.context : i > Bound(x) /\ vlv.context[i] = e

\* Where the last response leads: behind its cookie, or on in its list.
Last(x) == x.msgs[Len(x.msgs)]
Leads(x, e) ==
  \/ x.op = "paged" /\ Last(x).resp.paged # None /\ e > Last(x).resp.paged
  \/ x.op = "paginated" /\ Further(x, Last(x).resp.vlv, e)

\* What a request will give, if it is made with these controls.
Asked(x, list) ==
  Open(x) /\ Claims(x) =>
    /\ x.op \in {"search", "iter"} => Plain(list)
    /\ x.op = "paged" => \A k \in DOMAIN list : list[k].type = "paged" /\ list[k].at # None =>
         \A e \in x.stayed : e <= list[k].at => e \in Found(x)

\* The same of a list: a new one is asked for from its start, and what is asked for next is in it.
AskedView(x, list) ==
  x.op = "paginated" /\ x.phase = "ask" /\ Claims(x) =>
    \A k \in DOMAIN list : list[k].type = "vlv" =>
      IF list[k].context = None THEN list[k].at = 1
      ELSE \A e \in x.stayed : e \in Found(x) \/ Further(x, list[k], e)

\* What was read, and what is left of a page, do not skip an entry.
Expected(x) ==
  Open(x) /\ Claims(x) /\ x.msgs # <<>> /\ Last(x).err = "ok" =>
    /\ \A e \in x.stayed : e \in Found(x) \/ Read(x, e) \/ Leads(x, e)
    /\ x.op = "paginated" => Last(x).resp.vlv.count = Len(Last(x).resp.vlv.context)
ExpectedView(x, resp) ==
  x.op = "paginated" /\ x.phase = "yield" /\ Claims(x) /\ resp.vlv # None =>
    /\ \A e \in x.stayed : e \in Found(x) \/ Left(x, e) \/ Further(x, resp.vlv, e)
    /\ resp.vlv.count = Len(resp.vlv.context)

\* A page with a cookie is full, a page that is not marked has some; all comes in one message but
\* what is iterated, and search() gives nothing before its end.
Filled(x) ==
  /\ x.op \in Iterates /\ x.msgs # <<>> /\ Last(x).resp.paged # None => x.entry + Len(x.msgs) > PageSize
  /\ x.op = "paginated" /\ x.msgs # <<>> /\ ~x.hollow => x.msgs[1].found # <<>>
  /\ x.op \notin Iterates /\ x.msgs # <<>> => Len(x.msgs) = 1
  /\ Open(x) => x.op # "none" /\ (x.op = "search" => x.out = <<>>)

\* A search that is done found all.
FoundAll(x) ==
  x.phase = "done" /\ x.res = "ok" /\ x.op # "get" /\ Claims(x) => x.stayed \subseteq Found(x)

\* A call with the generator's controls has disturbed them.
Disturbed == Working(2) /\ frames[2].ref = frames[1].ref => "controls" \in frames[1].meddled

GeneratorComplete ==
  LET x == frames[1]
      c == controls[x.ref]
  IN /\ Open(x) => x.stayed \subseteq dir
     /\ Asked(x, c.server) /\ AskedView(x, c.server)
     /\ Expected(x) /\ ExpectedView(x, c.response)
     /\ Filled(x) /\ FoundAll(x)

CompleteInv ==
  /\ GeneratorComplete /\ Disturbed
  /\ frames[2].phase = "done" /\ frames[2].res = "ok" => frames[2].op # "none"

\* What the steps say of the results: of one that stays as it is, and of one that is longer.
LEMMA FoundSame ==
  ASSUME NEW x, NEW y, y.out = x.out
  PROVE  Found(y) = Found(x)
BY DEF Found

LEMMA FoundMore ==
  ASSUME NEW x \in Frame, NEW y, NEW e, YieldedOut(x, y, e)
  PROVE  /\ e \in Found(y) /\ Found(x) \subseteq Found(y)
<1> DEFINE len == Len(x.out)
<1>1. /\ y.out \in Seq(Out) /\ Len(y.out) = len + 1 /\ len \in Nat
      /\ \A n \in 1 .. len : y.out[n] = x.out[n]
      /\ y.out[len + 1].e = e /\ DOMAIN x.out = 1 .. len
  BY DEF YieldedOut, Frame
<1> HIDE DEF len
<1>2. DOMAIN y.out = 1 .. (len + 1)
  BY <1>1
<1>3. len + 1 \in DOMAIN y.out /\ \A n \in DOMAIN x.out : n \in DOMAIN y.out /\ y.out[n].e = x.out[n].e
  BY <1>1, <1>2
<1> QED
  BY <1>1, <1>3 DEF Found

\* A search that is claimed was claimed before, of more entries.
LEMMA ClaimsBefore ==
  ASSUME NEW g, NEW x, NEW y, Goes(g, x, y)
  PROVE  /\ Claims(y) => Claims(x)
         /\ y.stayed \subseteq x.stayed /\ y.op = x.op /\ (~y.hollow => ~x.hollow)
BY DEF Goes, Aged, Claims

\* What stays is there.
LEMMA StayedThere ==
  ASSUME GoesOn(1), GeneratorComplete, Open(frames'[1]) => Open(frames[1])
  PROVE  Open(frames'[1]) => frames'[1].stayed \subseteq dir'
BY DEF GoesOn, Goes, Aged, GeneratorComplete

\* The last message of an operation is the one that ends it.
LEMMA LastMessage ==
  ASSUME TypeInv, Filled(frames[1]), frames[1].msgs # <<>>,
         frames[1].op \in Iterates => Message(1).final
  PROVE  LET x == frames[1]
         IN /\ Last(x) = Message(1) /\ Message(1) = x.msgs[1] /\ DOMAIN x.msgs = {1} /\ Len(x.msgs) = 1
            /\ x.op \in Iterates => Message(1).found = <<>>
<1> DEFINE x == frames[1]
<1>1. Message(1) = x.msgs[1] /\ 1 \in DOMAIN x.msgs
  BY FrameFacts, MessageFacts
<1>2. x.msgs \in Seq(Reply) /\ FrameOK(x)
  BY FrameFacts DEF Frame
<1>3. CASE x.op \in Iterates
  <2>1. x.msgs[1].final
    BY <1>1, <1>3
  <2>2. Singles(x.msgs)
    BY <1>2, <1>3 DEF FrameOK
  <2>3. Len(x.msgs) = 1 /\ Message(1).found = <<>>
    BY <1>1, <2>1, <2>2 DEF Singles
  <2> QED
    BY <1>1, <1>2, <2>3 DEF Last
<1>4. CASE x.op \notin Iterates
  <2>1. Len(x.msgs) = 1
    BY <1>4 DEF Filled
  <2> QED
    BY <1>1, <1>2, <1>4, <2>1 DEF Last
<1> QED
  BY <1>3, <1>4

\* A search that ends well has found all.
LEMMA DoneFoundAll ==
  ASSUME TypeInv, GeneratorComplete, GoesOn(1), frames'[1].phase = "done",
         frames'[1].out = frames[1].out \/ (frames[1].op = "search" /\ frames[1].phase = "poll")
  PROVE  FoundAll(frames'[1])
<1> DEFINE x == frames[1]
           y == frames'[1]
<1> SUFFICES ASSUME y.res = "ok", y.op # "get", Claims(y), NEW e \in y.stayed
             PROVE  e \in Found(y)
  BY DEF FoundAll
<1>1. Goes(1, x, y)
  BY DEF GoesOn
<1>2. Claims(x) /\ e \in x.stayed /\ y.op = x.op /\ ~x.hollow
  BY <1>1, ClaimsBefore DEF Claims
<1>3. EndsSo(1, x, y)
  BY <1>1 DEF Goes
<1>4. \/ x.phase = "done" /\ x.res = "ok"
      \/ Succeeds(1, x, y)
  BY <1>3 DEF EndsSo, Refused
<1>5. x.op \in Iterates \cup {"paginated"} => x.op # "search" /\ Found(y) = Found(x)
  BY FoundSame DEF Iterates
<1>6. Expected(x) /\ Filled(x) /\ FoundAll(x) /\ ExpectedView(x, controls[x.ref].response)
  BY DEF GeneratorComplete
<1>7. CASE x.phase = "done" /\ x.res = "ok"
  <2>1. Found(y) = Found(x)
    BY <1>7, FoundSame
  <2> QED
    BY <1>2, <1>6, <1>7, <2>1 DEF FoundAll
<1>8. ASSUME x.phase = "poll", x.op \in Iterates \cup {"search"}, x.msgs # <<>>, Message(1).err = "ok",
             x.op \in Iterates => Message(1).final
      PROVE  /\ Message(1) = x.msgs[1] /\ Last(x) = Message(1)
             /\ e \in Found(x) \/ (\E n \in DOMAIN Message(1).found : Message(1).found[n] = e)
                  \/ (x.op = "paged" /\ Message(1).resp.paged # None /\ e > Message(1).resp.paged)
             /\ x.op \in Iterates => Message(1).found = <<>>
             /\ x.op \in Iterates /\ Message(1).resp.paged # None => x.entry + 1 > PageSize
  <2>1. /\ Last(x) = Message(1) /\ Message(1) = x.msgs[1] /\ DOMAIN x.msgs = {1} /\ Len(x.msgs) = 1
        /\ x.op \in Iterates => Message(1).found = <<>>
    BY <1>6, <1>8, LastMessage
  <2>2. Open(x) /\ x.op # "paginated"
    BY <1>8 DEF Open, Iterates
  <2>3. e \in Found(x) \/ Read(x, e) \/ Leads(x, e)
    BY <1>2, <1>6, <1>8, <2>1, <2>2 DEF Expected
  <2>4. x.op \in Iterates /\ Message(1).resp.paged # None => x.entry + 1 > PageSize
    BY <1>6, <1>8, <2>1 DEF Filled
  <2> QED
    BY <2>1, <2>2, <2>3, <2>4 DEF Read, Leads
<1>9. CASE /\ x.phase = "poll" /\ x.op \in {"search", "get"} /\ x.msgs # <<>> /\ Message(1).err = "ok"
           /\ y.out = Listed(Message(1).found)
  <2>1. x.op = "search" /\ x.op \notin Iterates
    BY <1>2, <1>9 DEF Iterates
  <2>2. Found(x) = {}
    <3>1. x.out = <<>> /\ DOMAIN <<>> = {}
      BY <1>6, <1>9, <2>1 DEF Filled, Open
    <3> QED
      BY <3>1 DEF Found
  <2>3. PICK n \in DOMAIN Message(1).found : Message(1).found[n] = e
    BY <1>8, <1>9, <2>1, <2>2
  <2>4. n \in DOMAIN y.out /\ y.out[n].e = e
    BY <1>9, <2>3 DEF Listed
  <2> QED
    BY <2>4 DEF Found
<1>10. CASE /\ x.phase = "poll" /\ x.op \in Iterates /\ x.msgs # <<>> /\ Message(1).err = "ok"
            /\ Message(1).final /\ (x.op = "iter" \/ x.entry = 0 \/ Message(1).resp.paged = None)
  <2>1. DOMAIN <<>> = {} /\ PageSize \in Nat \ {0}
    BY ConstantsAssumption
  <2>2. x.entry = 0 => ~(x.entry + 1 > PageSize)
    BY <2>1
  <2>3. e \in Found(x)
    BY <1>8, <1>10, <2>1, <2>2
  <2> QED
    BY <1>5, <1>10, <2>3
<1>11. CASE /\ x.phase = "poll" /\ x.op = "paginated" /\ x.msgs # <<>> /\ Message(1).err = "ok"
            /\ Message(1).found = <<>>
  <2>1. Message(1) = x.msgs[1]
    BY <1>11, FrameFacts, MessageFacts
  <2> QED
    BY <1>2, <1>6, <1>11, <2>1 DEF Filled
<1>12. CASE LET vlv == controls[x.ref].response.vlv
            IN /\ x.phase = "yield" /\ x.op = "paginated" /\ x.left = <<>> /\ vlv # None
               /\ EndReached(x.page * PageSize, vlv.count)
  <2> DEFINE vlv == controls[x.ref].response.vlv
             list == vlv.context
             offset == x.page * PageSize
  <2>1. e \in Found(x) \/ Left(x, e) \/ Further(x, vlv, e)
    BY <1>2, <1>6, <1>12 DEF ExpectedView
  <2>2. vlv.count = Len(list) /\ Bound(x) = offset
    BY <1>2, <1>6, <1>12 DEF ExpectedView, Bound
  <2>2a. EndReached(offset, vlv.count)
    BY <1>12
  <2>2b. offset > Len(list)
    BY <2>2, <2>2a DEF EndReached
  <2>3. list \in Seq(Entries)
    <3>1. x.ref \in 0 .. 2
      BY FrameFacts
    <3>2. vlv \in View
      BY <1>12, <3>1 DEF TypeInv, ControlsOK, ControlsType, ResponseType
    <3> QED
      BY <3>2 DEF View
  <2>4. ~Further(x, vlv, e)
    <3> DEFINE k == Bound(x)
               len == Len(list)
    <3>1. DOMAIN list = 1 .. len /\ len \in Nat /\ offset \in Nat /\ k = offset /\ k > len
      <4>1. x.page \in Nat /\ PageSize \in Nat
        BY FrameFacts, FrameNumbers
      <4>2. offset \in Nat
        BY <4>1
      <4> HIDE DEF list, offset
      <4>3. DOMAIN list = 1 .. len /\ len \in Nat
        BY <2>3
      <4> QED
        BY <2>2, <2>2b, <4>2, <4>3
    <3> HIDE DEF k, len, list, offset
    <3>2. \A i \in DOMAIN list : ~(i > k)
      BY <3>1
    <3> QED
      BY <3>2 DEF Further, k, list
  <2>5. DOMAIN <<>> = {}
    OBVIOUS
  <2>6. ~Left(x, e)
    BY <1>12, <2>5 DEF Left
  <2> QED
    BY <1>5, <1>12, <2>1, <2>4, <2>6
<1> QED
  BY <1>4, <1>7, <1>9, <1>10, <1>11, <1>12 DEF Succeeds

\* The generator finds nothing, and its controls stay or are marked.
GeneratorStill ==
  LET c == controls[frames[1].ref]
      d == controls'[frames[1].ref]
  IN /\ GoesOn(1) /\ Quiet(frames[1], frames'[1])
     /\ d.server = c.server
     /\ \/ d.response = c.response \/ frames'[1].phase # "yield"
        \/ "controls" \in frames'[1].meddled

\* That is so of a quiet step,
LEMMA QuietStill ==
  ASSUME TypeInv, Disturbed, QuietStep, GoesOn(1)
  PROVE  GeneratorStill
<1>1. /\ Quiet(frames[1], frames'[1]) /\ ControlsKept /\ frames[1].ref \in 0 .. 2
  BY FrameFacts DEF QuietStep
<1>2. frames[2].msgs # <<>> => Working(2)
  <2>1. FrameOK(frames[2]) /\ frames[2].phase # "yield" /\ frames[2] \in Frame
    BY FrameFacts DEF TypeInv, Roles
  <2> QED
    BY <2>1 DEF FrameOK, Working, Frame
<1>3. frames[1].meddled \subseteq frames'[1].meddled
  BY DEF GoesOn, Goes, Aged
<1>4. DOMAIN <<>> = {}
  OBVIOUS
<1> QED
  BY <1>1, <1>2, <1>3, <1>4 DEF ControlsKept, Disturbed, GeneratorStill

\* of a call that begins,
LEMMA CallStill ==
  ASSUME TypeInv, NEW op, NEW ref, NEW sorted \in BOOLEAN, NEW unique \in BOOLEAN,
         Starts(2, op, ref, sorted, unique)
  PROVE  GeneratorStill
<1> DEFINE x == frames[1]
           y == frames'[1]
<1>1. /\ Call(2, op, ref, sorted, unique) /\ BeginEffect(2, op, ref, sorted, unique)
      /\ 1 \in 1 .. 2 /\ 1 # 2 /\ GoesOn(1)
  BY DEF Starts
<1>2. op = "get" /\ ~sorted /\ ref \in {0, 2} /\ x.ref \in {0, 1}
  BY <1>1 DEF Call, TypeInv, Roles
<1>3. Prepared(op, Given(ref), sorted) = Given(ref)
  BY <1>2, GivenFacts, PreparedFacts
<1>4. controls'[x.ref] = controls[x.ref]
  BY <1>1, <1>2, <1>3 DEF BeginEffect, Given
<1>5. Quiet(x, y)
  BY <1>1, AlikeQuiet DEF BeginEffect
<1> QED
  BY <1>1, <1>4, <1>5 DEF GeneratorStill

\* of its request,
LEMMA AskStill ==
  ASSUME NEW a, AskEffect(2, a), GoesOn(1)
  PROVE  GeneratorStill
<1>1. frames'[1] = frames[1] /\ controls' = controls
  BY DEF AskEffect
<1> QED
  BY <1>1 DEF GeneratorStill, Quiet

\* and of its result.
LEMMA ReturnsStill ==
  ASSUME TypeInv, Disturbed, ReturnsEffect(2), GoesOn(1)
  PROVE  GeneratorStill
<1>1. /\ frames[2].phase = "poll" /\ frames[2].msgs # <<>> /\ Controlling(2, Received(2))
      /\ frames'[1] = frames[1] /\ frames[1].ref \in 0 .. 2
  BY FrameFacts DEF ReturnsEffect
<1>2. /\ \A c \in 0 .. 2 : controls'[c].server = controls[c].server
      /\ \A c \in 0 .. 2 : c # frames[2].ref => controls'[c] = controls[c]
  BY <1>1, ReceivedFacts
<1>3. frames[1].ref = frames[2].ref => "controls" \in frames'[1].meddled
  BY <1>1 DEF Disturbed, Working
<1> QED
  BY <1>1, <1>2, <1>3 DEF GeneratorStill, Quiet

\* Such a step keeps the invariant of the generator.
LEMMA StillComplete ==
  ASSUME TypeInv, GeneratorComplete, GeneratorStill
  PROVE  GeneratorComplete'
<1> DEFINE x == frames[1]
           y == frames'[1]
           list == controls[x.ref].server
           resp == controls[x.ref].response
<1>0. /\ GoesOn(1) /\ Quiet(x, y) /\ controls'[x.ref].server = list
      /\ \/ controls'[x.ref].response = resp \/ y.phase # "yield" \/ "controls" \in y.meddled
  BY DEF GeneratorStill
<1>1. /\ y.op = x.op /\ y.ref = x.ref /\ y.out = x.out /\ y.msgs \in {x.msgs, <<>>}
      /\ y.phase # "done" => /\ y.page = x.page /\ y.entry = x.entry /\ y.left = x.left
                             /\ y.phase = x.phase \/ (x.phase = "yield" /\ y.phase = "poll"
                                                      /\ x.op \in Iterates)
  BY <1>0 DEF Quiet
<1>2. y.phase = "done" => y.msgs = <<>>
  <2>1. x.phase = "done" => x.msgs = <<>>
    BY FrameFacts DEF FrameOK
  <2> QED
    BY <1>0, <2>1 DEF Quiet
<1>3. (Claims(y) => Claims(x)) /\ y.stayed \subseteq x.stayed /\ (~y.hollow => ~x.hollow)
  BY <1>0, ClaimsBefore DEF GoesOn
<1>4. Open(y) => Open(x) /\ y.phase # "done"
  BY <1>1 DEF Open
<1>5. Found(y) = Found(x)
  BY <1>1, FoundSame
<1>6. /\ Asked(x, list) /\ AskedView(x, list) /\ Expected(x) /\ ExpectedView(x, resp) /\ Filled(x)
      /\ FoundAll(x)
  BY DEF GeneratorComplete
<1>7. x.op = "paginated" /\ Open(y) => y.phase = x.phase /\ Bound(y) = Bound(x)
  BY <1>1, <1>4 DEF Bound, Iterates
<1>8. Open(y) => y.stayed \subseteq dir'
  BY <1>0, <1>4, StayedThere
<1>9. Asked(y, list)
  BY <1>1, <1>3, <1>4, <1>5, <1>6 DEF Asked
<1>10. AskedView(y, list)
  <2> SUFFICES ASSUME y.op = "paginated", y.phase = "ask", Claims(y)
               PROVE  AskedView(y, list)
    BY DEF AskedView
  <2>1. Open(y)
    BY DEF Open
  <2>2. x.phase = "ask" /\ Bound(y) = Bound(x) /\ x.op = "paginated" /\ Claims(x)
    BY <1>1, <1>3, <1>7, <2>1
  <2> QED
    BY <1>3, <1>5, <1>6, <2>2 DEF AskedView, Further
<1>11. Expected(y)
  <2> SUFFICES ASSUME Open(y), Claims(y), y.msgs # <<>>, Last(y).err = "ok"
               PROVE  Expected(y)
    BY DEF Expected
  <2>1. y.msgs = x.msgs /\ Last(y) = Last(x) /\ Open(x) /\ Claims(x)
    BY <1>1, <1>3, <1>4 DEF Last
  <2>2. /\ \A e \in x.stayed : e \in Found(x) \/ Read(x, e) \/ Leads(x, e)
        /\ x.op = "paginated" => Last(x).resp.vlv.count = Len(Last(x).resp.vlv.context)
    BY <1>6, <2>1 DEF Expected
  <2>3. \A e : (Read(x, e) => Read(y, e)) /\ (Leads(x, e) => Leads(y, e))
    BY <1>1, <1>7, <2>1 DEF Read, Leads, Further
  <2> QED
    BY <1>1, <1>3, <1>5, <2>1, <2>2, <2>3 DEF Expected
<1>12. ExpectedView(y, controls'[x.ref].response)
  <2> SUFFICES ASSUME y.op = "paginated", y.phase = "yield", Claims(y)
               PROVE  ExpectedView(y, controls'[x.ref].response)
    BY DEF ExpectedView
  <2>1. controls'[x.ref].response = resp
    BY <1>0 DEF Claims
  <2>2. Open(y)
    BY DEF Open
  <2>3. x.phase = "yield" /\ Bound(y) = Bound(x) /\ x.op = "paginated" /\ Claims(x) /\ y.left = x.left
    BY <1>1, <1>3, <1>4, <1>7, <2>2
  <2>4. \A e : (Left(x, e) => Left(y, e)) /\ (Further(x, resp.vlv, e) => Further(y, resp.vlv, e))
    BY <2>3 DEF Left, Further
  <2> QED
    BY <1>3, <1>5, <1>6, <2>1, <2>3, <2>4 DEF ExpectedView
<1>13. Filled(y)
  <2>1. CASE y.msgs = <<>>
    BY <1>1, <1>4, <1>6, <2>1 DEF Filled
  <2>2. CASE y.msgs # <<>>
    <3>1. y.msgs = x.msgs /\ y.entry = x.entry /\ Last(y) = Last(x)
      BY <1>1, <1>2, <2>2 DEF Last
    <3> QED
      BY <1>1, <1>3, <1>4, <1>6, <3>1 DEF Filled
  <2> QED
    BY <2>1, <2>2
<1>14. FoundAll(y)
  <2>1. y.phase # "done" => FoundAll(y)
    BY DEF FoundAll
  <2> QED
    BY <1>0, <1>1, <2>1, DoneFoundAll
<1> QED
  BY <1>0, <1>1, <1>8, <1>9, <1>10, <1>11, <1>12, <1>13, <1>14 DEF GeneratorComplete

\* What is no get() is done only if it was done before.
LEMMA CallDone ==
  ASSUME GoesOn(2), frames[2].phase = "done" /\ frames[2].res = "ok" => frames[2].op # "none"
  PROVE  frames'[2].phase = "done" /\ frames'[2].res = "ok" => frames'[2].op # "none"
<1>1. Aged(frames[2], frames'[2]) /\ EndsSo(2, frames[2], frames'[2])
  BY DEF GoesOn, Goes
<1>2. frames'[2].op = frames[2].op
  BY <1>1 DEF Aged
<1>3. frames'[2].phase = "done" /\ frames'[2].res = "ok" =>
        (frames[2].phase = "done" /\ frames[2].res = "ok") \/ Succeeds(2, frames[2], frames'[2])
  BY <1>1 DEF EndsSo, Refused
<1>4. Succeeds(2, frames[2], frames'[2]) => frames[2].op # "none"
  BY DEF Succeeds, Iterates
<1> QED
  BY <1>2, <1>3, <1>4

\* What is disturbed stays so.
LEMMA StillDisturbed ==
  ASSUME Disturbed, GoesOn(1), Working(2)' => Working(2),
         frames'[2].ref = frames[2].ref, frames'[1].ref = frames[1].ref
  PROVE  Disturbed'
BY DEF Disturbed, GoesOn, Goes, Aged

\* A quiet step.
LEMMA QuietComplete ==
  ASSUME TypeInv, CompleteInv, QuietStep, \A g \in 1 .. 2 : GoesOn(g)
  PROVE  CompleteInv'
<1>1. /\ Quiet(frames[1], frames'[1]) /\ Quiet(frames[2], frames'[2]) /\ ControlsKept
      /\ frames[1].ref \in 0 .. 2 /\ GoesOn(1) /\ GoesOn(2)
  BY FrameFacts DEF QuietStep
<1>2. GeneratorComplete /\ Disturbed
      /\ (frames[2].phase = "done" /\ frames[2].res = "ok" => frames[2].op # "none")
  BY DEF CompleteInv
<1>3. frames'[1].ref = frames[1].ref /\ frames'[2].ref = frames[2].ref
  BY <1>1 DEF Quiet
<1>4. Working(2)' => Working(2)
  BY <1>1 DEF Quiet, Working, TypeInv, Roles
<1>5. GeneratorComplete'
  BY <1>1, <1>2, QuietStill, StillComplete
<1>6. Disturbed'
  BY <1>1, <1>2, <1>3, <1>4, StillDisturbed
<1> QED
  BY <1>1, <1>2, <1>5, <1>6, CallDone DEF CompleteInv

\* The controls of a new search that is given none: no place to go on from.
LEMMA PreparedFresh ==
  ASSUME NEW c \in ControlsType, c.server = <<>>, NEW op, NEW sorted \in BOOLEAN
  PROVE  LET new == Prepared(op, c, sorted)
         IN /\ op \in {"search", "iter"} => Plain(new.server)
            /\ op = "paged" => \A n \in DOMAIN new.server : new.server[n].type = "paged" =>
                 new.server[n].at = None
<1> DEFINE appended == IF op = "paged" THEN AppendServer(c, Paged(None)) ELSE c
           ordered == IF sorted \/ op = "paginated" THEN SetServer(appended, Sorting) ELSE appended
<1>1. op # "paginated" => Prepared(op, c, sorted) = ordered
  BY DEF Prepared
<1>2. /\ Paged(None) \in Control /\ Paged(None).type = "paged" /\ Paged(None).at = None
      /\ Sorting \in Control /\ Sorting.type = "sss" /\ Sorting.at = None
  BY DEF Paged, Sorting, Control, Place
<1>3. Request(c.server) /\ DOMAIN c.server = {}
  BY DEF Request
<1>4. /\ appended \in ControlsType /\ Request(appended.server)
      /\ \A n \in DOMAIN appended.server : op = "paged" /\ appended.server[n].at = None
  <2>1. CASE op = "paged"
    BY <1>2, <1>3, <2>1, AppendServerFacts
  <2>2. CASE op # "paged"
    BY <1>3, <2>2
  <2> QED
    BY <2>1, <2>2
<1> HIDE DEF appended
<1>5. /\ \A n \in DOMAIN ordered.server : ordered.server[n].at = None
      /\ op # "paged" => Plain(ordered.server)
  <2> DEFINE o == SetServer(appended, Sorting)
  <2>1. \A n \in DOMAIN o.server :
          o.server[n] = Sorting \/ \E k \in DOMAIN appended.server : o.server[n] = appended.server[k]
    BY <1>2, <1>4, SetServerFacts
  <2> HIDE DEF o
  <2>2. \A n \in DOMAIN o.server : o.server[n].at = None /\ (op # "paged" => o.server[n].type = "sss")
    BY <1>2, <1>4, <2>1
  <2>3. ordered = o \/ ordered = appended
    BY DEF o
  <2> HIDE DEF ordered
  <2> QED
    BY <1>4, <2>2, <2>3 DEF Plain
<1> QED
  BY <1>1, <1>5

\* A call of the program keeps the invariant.
LEMMA StartedComplete ==
  ASSUME TypeInv, CompleteInv, Started, TypeInv'
  PROVE  CompleteInv'
<1>1. PICK f \in 1 .. 2, sorted \in BOOLEAN, unique \in BOOLEAN : \E op, ref :
        Starts(f, op, ref, sorted, unique)
  BY DEF Started
<1>2. PICK op, ref : Starts(f, op, ref, sorted, unique)
  BY <1>1
<1>3. /\ Call(f, op, ref, sorted, unique) /\ BeginEffect(f, op, ref, sorted, unique)
      /\ Begun(f, ref) /\ dir' = dir
      /\ \A g \in 1 .. 2 : g # f =>
           /\ GoesOn(g)
           /\ frames'[g].meddled = frames[g].meddled \cup Meddling(f, ref, Given(ref), frames[g])
  BY <1>2 DEF Starts
<1>4. ref \in 0 .. 2 /\ 1 \in 1 .. 2 /\ 2 \in 1 .. 2
  BY <1>3 DEF Call
<1> DEFINE prepared == Prepared(op, Given(ref), sorted)
<1>5. /\ op = "get" /\ ~sorted => prepared = Given(ref)
      /\ op = "paginated" => \A n \in DOMAIN prepared.server : prepared.server[n].type = "vlv" =>
           prepared.server[n].at = 1 /\ prepared.server[n].context = None
  BY <1>4, GivenFacts, PreparedFacts
<1>6. Given(ref).server = <<>> =>
        /\ op \in {"search", "iter"} => Plain(prepared.server)
        /\ op = "paged" => \A n \in DOMAIN prepared.server : prepared.server[n].type = "paged" =>
             prepared.server[n].at = None
  BY <1>4, GivenFacts, PreparedFresh
<1>7. controls'[ref] = prepared /\ \A c \in 0 .. 2 : c # ref => controls'[c] = controls[c]
  BY <1>3 DEF BeginEffect
<1> HIDE DEF prepared
<1>8. /\ frames'[f].op = op /\ frames'[f].ref = ref /\ frames'[f].phase = "ask"
      /\ frames'[f].out = <<>> /\ frames'[f].msgs = <<>>
  BY <1>3 DEF BeginEffect
<1>9. GeneratorComplete /\ Disturbed
      /\ (frames[2].phase = "done" /\ frames[2].res = "ok" => frames[2].op # "none")
  BY DEF CompleteInv
<1>10. CASE f = 1
  <2> DEFINE y == frames'[1]
  <2>1. /\ y.fresh => Given(ref).server = <<>>
        /\ y.stayed = dir' /\ op \in {"search", "iter", "paged", "paginated"}
    <3>1. Begun(1, ref) /\ Call(1, op, ref, sorted, unique) /\ dir' = dir
      BY <1>3, <1>10
    <3>2. y.fresh = (Given(ref).server = <<>>) /\ y.stayed = dir
      BY <3>1 DEF Begun
    <3>3. y.fresh => Given(ref).server = <<>>
      BY <3>2, Zenon
    <3>4. op \in {"search", "iter", "paged", "paginated"}
      BY <3>1 DEF Call
    <3> QED
      BY <3>1, <3>2, <3>3, <3>4
  <2>2. /\ y.op = op /\ y.ref = ref /\ y.phase = "ask" /\ y.msgs = <<>> /\ y.out = <<>>
    BY <1>8, <1>10
  <2>3. Asked(y, controls'[ref].server)
    BY <1>6, <1>7, <2>1, <2>2 DEF Asked, Claims
  <2>4. AskedView(y, controls'[ref].server)
    BY <1>5, <1>7, <2>2 DEF AskedView
  <2>5. Expected(y) /\ ExpectedView(y, controls'[ref].response) /\ Filled(y) /\ FoundAll(y)
    BY <2>1, <2>2 DEF Expected, ExpectedView, Filled, FoundAll
  <2>6. GeneratorComplete'
    BY <2>1, <2>2, <2>3, <2>4, <2>5 DEF GeneratorComplete
  <2>7. Disturbed'
    BY <2>2 DEF Disturbed, TypeInv, Roles
  <2>8. GoesOn(2)
    BY <1>3, <1>4, <1>10
  <2> QED
    BY <1>9, <2>6, <2>7, <2>8, CallDone DEF CompleteInv
<1>11. CASE f = 2
  <2> DEFINE x == frames[1]
             y == frames'[1]
  <2>1. Alike(x, y) /\ y.meddled = x.meddled \cup Meddling(2, ref, Given(ref), x)
    BY <1>3, <1>4, <1>11 DEF BeginEffect
  <2>2. GeneratorComplete'
    BY <1>2, <1>9, <1>11, CallStill, StillComplete
  <2>3. y.ref = x.ref
    BY <2>1 DEF Alike
  <2>4. ref = x.ref => "controls" \in y.meddled
    BY <2>1 DEF Meddling
  <2>5. Disturbed'
    BY <1>8, <1>11, <2>3, <2>4 DEF Disturbed
  <2>6. frames'[2].phase # "done"
    BY <1>8, <1>11
  <2> QED
    BY <2>2, <2>5, <2>6 DEF CompleteInv
<1> QED
  BY <1>10, <1>11

(***************************************************************************)
(* Answers.                                                                *)
(***************************************************************************)
\* The messages have all of the answer, in the last one its response.
LEMMA AskReads ==
  ASSUME TypeInv, NEW a, AskEffect(1, a)
  PROVE  LET y == frames'[1]
         IN /\ \A e : Has(a, e) => Read(y, e)
            /\ Last(y).resp = a.resp /\ Last(y).err = a.err
            /\ Len(y.msgs) = IF y.op \in Iterates THEN Len(a.found) + 1 ELSE 1
<1> DEFINE y == frames'[1]
           msgs == y.msgs
           k == Len(a.found)
           each(n) == [found |-> <<a.found[n]>>, resp |-> NoResponse, err |-> "ok", final |-> FALSE]
           last == [found |-> <<>>, resp |-> a.resp, err |-> a.err, final |-> TRUE]
<1>1. a \in AnswerType /\ a.found \in Seq(Entries) /\ k \in Nat /\ DOMAIN a.found = 1 .. k
  BY AskAnswer
<1>2. y.op = frames[1].op /\ msgs = IF y.op \in Iterates THEN Messages(a) ELSE Whole(a)
  BY DEF AskEffect
<1>3. CASE y.op \in Iterates
  <2>1. msgs = Messages(a)
    BY <1>2, <1>3
  <2>2. /\ msgs \in Seq(Reply) /\ Len(msgs) = k + 1
        /\ \A n \in 1 .. k : msgs[n] = each(n)
        /\ msgs[k + 1] = last
    BY <1>1, <2>1, MessagesFacts
  <2>7. \A n \in 1 .. k : each(n).found = <<a.found[n]>>
    OBVIOUS
  <2>8. last.resp = a.resp /\ last.err = a.err
    OBVIOUS
  <2> HIDE DEF msgs, k, each, last
  <2>3. \A n \in 1 .. k : n \in DOMAIN msgs /\ msgs[n].found = <<a.found[n]>>
    <3>1. DOMAIN msgs = 1 .. k + 1 /\ \A n \in 1 .. k : n \in 1 .. k + 1
      BY <1>1, <2>2
    <3> QED
      BY <2>2, <2>7, <3>1
  <2>4. \A n \in 1 .. k : 1 \in DOMAIN msgs[n].found /\ msgs[n].found[1] = a.found[n]
    BY <2>3
  <2>5. \A e : Has(a, e) => Read(y, e)
    BY <1>1, <2>3, <2>4 DEF Has, Read, msgs
  <2>6. msgs[Len(msgs)].resp = a.resp /\ msgs[Len(msgs)].err = a.err
    BY <2>2, <2>8
  <2> QED
    BY <1>3, <2>2, <2>5, <2>6 DEF Last, msgs, k
<1>4. CASE y.op \notin Iterates
  <2>1. msgs = Whole(a)
    BY <1>2, <1>4
  <2>2. /\ msgs \in Seq(Reply) /\ DOMAIN msgs = {1}
        /\ msgs[1].found = a.found /\ msgs[1].resp = a.resp /\ msgs[1].err = a.err
    BY <1>1, <2>1, WholeFacts
  <2>3. Len(msgs) = 1
    BY <2>1 DEF Whole
  <2>4. \A e : Has(a, e) => Read(y, e)
    BY <2>2 DEF Has, Read
  <2> QED
    BY <1>4, <2>2, <2>3, <2>4 DEF Last
<1> QED
  BY <1>3, <1>4

\* An answer that succeeds has what the request did not skip, and leads to the rest.
LEMMA AskExpected ==
  ASSUME TypeInv, OrderInv, GeneratorComplete, NEW a, AskEffect(1, a), GoesOn(1), a.err = "ok",
         Claims(frames'[1]), NEW e \in frames'[1].stayed
  PROVE  LET x == frames[1]
             y == frames'[1]
         IN e \in Found(x) \/ Has(a, e) \/ (x.op = "paged" /\ a.resp.paged # None /\ e > a.resp.paged)
              \/ (x.op = "paginated" /\ Further(y, a.resp.vlv, e))
<1> DEFINE x == frames[1]
           y == frames'[1]
           list == controls[x.ref].server
<1>1. /\ x.phase = "ask" /\ y.phase = "poll" /\ y.op = x.op /\ y.page = x.page
      /\ y.out = x.out /\ dir' = dir
  BY DEF AskEffect
<1>2. Open(x) /\ Open(y)
  BY <1>1 DEF Open
<1>3. Claims(x) /\ e \in x.stayed
  BY ClaimsBefore DEF GoesOn
<1>4. e \in dir /\ e \in Nat
  <2>1. e \in dir
    BY <1>2, <1>3 DEF GeneratorComplete
  <2> QED
    BY <2>1, ConstantsAssumption DEF TypeInv, ServerOK
<1>5. /\ Plain(list) => Has(a, e)
      /\ InPages(a, list) /\ InViews(a, list)
  <2>1. ServerOK /\ Request(list) /\ a \in Answers(list, None)
    BY AskRequest DEF Base
  <2> HIDE DEF list
  <2> QED
    BY <1>4, <2>1, AnswerHasAll
<1>6. Asked(x, list) /\ AskedView(x, list)
  BY DEF GeneratorComplete
<1>7. Controlled(x, list) /\ ControlAhead(x, list)
  BY DEF TypeInv, OrderInv
<1>8. \A k \in DOMAIN list : list[k].at \in Place
  BY AskPlaces
<1>9. x.op \in {"search", "iter", "paged", "paginated"}
  <2>1. x \in Frame /\ FrameOK(x)
    BY FrameFacts
  <2>2. x.op # "none"
    BY <1>2 DEF GeneratorComplete, Filled
  <2> QED
    BY <2>1, <2>2 DEF Frame, TypeInv, Roles
<1> HIDE DEF list
<1>10. CASE x.op \in {"search", "iter"}
  BY <1>2, <1>3, <1>5, <1>6, <1>10 DEF Asked
<1>11. CASE x.op = "paged"
  <2>1. PICK k \in DOMAIN list : list[k].type = "paged"
    BY <1>2, <1>7, <1>11 DEF Controlled
  <2>2. list[k].at = None \/ list[k].at \in Nat
    BY <1>8 DEF Place
  <2>3. CASE list[k].at = None \/ e > list[k].at
    BY <1>4, <1>5, <1>11, <2>1, <2>3 DEF InPages
  <2>4. CASE list[k].at # None /\ ~(e > list[k].at)
    <3>1. e <= list[k].at
      BY <1>4, <2>2, <2>4
    <3> QED
      BY <1>2, <1>3, <1>6, <1>11, <2>1, <2>4, <3>1 DEF Asked
  <2> QED
    BY <2>3, <2>4
<1>12. CASE x.op = "paginated"
  <2>1. PICK k \in DOMAIN list : list[k].type = "vlv"
    BY <1>2, <1>7, <1>12 DEF Controlled
  <2> DEFINE L == a.resp.vlv.context
             before == (x.page - 1) * PageSize
             all == x.page * PageSize
  <2>2. list[k].at = before + 1 /\ Bound(x) = before /\ Bound(y) = all
    BY <1>1, <1>2, <1>7, <1>12, <2>1 DEF ControlAhead, Bound
  <2>3. before \in Nat /\ PageSize \in Nat \ {0} /\ all = before + PageSize
    <3>1. x.page \in Nat \ {0} /\ PageSize \in Nat \ {0}
      BY FrameFacts, FrameNumbers
    <3> DEFINE p == x.page
    <3> HIDE DEF p
    <3>2. p \in Nat \ {0}
      BY <3>1 DEF p
    <3>3. (p - 1) * PageSize \in Nat /\ p * PageSize = (p - 1) * PageSize + PageSize
      BY <3>1, <3>2
    <3> QED
      BY <3>1, <3>3 DEF p
  <2> HIDE DEF before, all
  <2>4. /\ list[k].context # None => L = list[k].context
        /\ \A i \in DOMAIN L : i >= list[k].at /\ i < list[k].at + PageSize /\ L[i] \in dir => Has(a, L[i])
        /\ list[k].context = None => \E i \in DOMAIN L : L[i] = e
    BY <1>4, <1>5, <2>1 DEF InViews
  <2>5. IF list[k].context = None THEN list[k].at = 1
        ELSE e \in Found(x) \/ Further(x, list[k], e)
    BY <1>1, <1>3, <1>6, <1>12, <2>1 DEF AskedView
  <2>6. \A i \in DOMAIN L : i \in Nat \ {0}
    <3>1. InWindow(a, list[k])
      BY <2>1, AskViews DEF list
    <3>2. a.resp.vlv # None /\ a \in AnswerType
      BY <3>1, AskAnswer DEF InWindow
    <3> QED
      BY <3>2, AnswerNumbers
  <2>7. e \in Found(x) \/ \E i \in DOMAIN L : i > before /\ L[i] = e
    <3>1. CASE list[k].context = None
      <4>1. before = 0
        BY <2>2, <2>3, <2>5, <3>1
      <4>2. PICK i \in DOMAIN L : L[i] = e
        BY <2>4, <3>1
      <4>3. i > before
        BY <2>6, <4>1
      <4> QED
        BY <4>2, <4>3
    <3>2. CASE list[k].context # None
      BY <2>2, <2>4, <2>5, <3>2 DEF Further
    <3> QED
      BY <3>1, <3>2
  <2>8. ASSUME NEW i \in DOMAIN L, i > before, L[i] = e
        PROVE  Has(a, e) \/ Further(y, a.resp.vlv, e)
    <3>1. i \in Nat
      BY <2>6
    <3>2. CASE i > all
      BY <2>2, <2>8, <3>2 DEF Further
    <3>3. CASE ~(i > all)
      <4>1. i >= list[k].at /\ i < list[k].at + PageSize
        BY <2>2, <2>3, <2>8, <3>1, <3>3
      <4> QED
        BY <1>4, <2>4, <2>8, <4>1
    <3> QED
      BY <3>2, <3>3
  <2> QED
    BY <1>12, <2>7, <2>8
<1> QED
  BY <1>9, <1>10, <1>11, <1>12

\* An answer to the generator keeps the invariant.
LEMMA GeneratorAskComplete ==
  ASSUME TypeInv, OrderInv, GeneratorComplete, NEW a, AskEffect(1, a), GoesOn(1)
  PROVE  GeneratorComplete'
<1> DEFINE x == frames[1]
           y == frames'[1]
           list == controls[x.ref].server
<1>1. /\ x.phase = "ask" /\ y.phase = "poll" /\ y.op = x.op /\ y.ref = x.ref /\ y.out = x.out
      /\ y.entry = x.entry /\ controls' = controls
  BY DEF AskEffect
<1>2. Open(x) /\ Open(y)
  BY <1>1 DEF Open
<1>3. (Claims(y) => Claims(x)) /\ y.stayed \subseteq x.stayed /\ (~y.hollow => ~x.hollow)
  BY ClaimsBefore DEF GoesOn
<1>4. Found(y) = Found(x)
  BY <1>1, FoundSame
<1>5. Asked(x, list) /\ Filled(x)
  BY DEF GeneratorComplete
<1>6. /\ \A e : Has(a, e) => Read(y, e)
      /\ Last(y).resp = a.resp /\ Last(y).err = a.err
      /\ Len(y.msgs) = IF y.op \in Iterates THEN Len(a.found) + 1 ELSE 1
  BY AskReads
<1>7. y.stayed \subseteq dir'
  BY <1>2, StayedThere
<1>8. Asked(y, list)
  BY <1>1, <1>2, <1>3, <1>4, <1>5 DEF Asked
<1>9. Expected(y)
  <2> SUFFICES ASSUME Claims(y), Last(y).err = "ok"
               PROVE  /\ \A e \in y.stayed : e \in Found(y) \/ Read(y, e) \/ Leads(y, e)
                      /\ y.op = "paginated" => Last(y).resp.vlv.count = Len(Last(y).resp.vlv.context)
    BY DEF Expected
  <2>1. a.err = "ok"
    BY <1>6
  <2>2. ASSUME NEW e \in y.stayed
        PROVE  e \in Found(y) \/ Read(y, e) \/ Leads(y, e)
    <3>1. e \in Found(x) \/ Has(a, e) \/ (x.op = "paged" /\ a.resp.paged # None /\ e > a.resp.paged)
            \/ (x.op = "paginated" /\ Further(y, a.resp.vlv, e))
      BY <2>1, <2>2, AskExpected
    <3> QED
      BY <1>1, <1>4, <1>6, <3>1 DEF Leads
  <2>3. ASSUME y.op = "paginated"
        PROVE  a.resp.vlv.count = Len(a.resp.vlv.context)
    <3>1. PICK k \in DOMAIN list : list[k].type = "vlv"
      BY <1>1, <1>2, <2>3 DEF TypeInv, Controlled
    <3>2. InWindow(a, list[k])
      BY <3>1, AskViews
    <3> QED
      BY <2>1, <3>2 DEF InWindow
  <2> QED
    BY <1>6, <2>2, <2>3
<1>10. Filled(y)
  <2>1. ASSUME y.op \in Iterates, Last(y).resp.paged # None
        PROVE  y.entry + Len(y.msgs) > PageSize
    <3>1. Len(a.found) = PageSize
      BY <1>6, <2>1, AskAnswer DEF FullPage
    <3>2. y.entry \in Nat /\ PageSize \in Nat
      BY <1>1, FrameFacts, ConstantsAssumption DEF Frame
    <3> QED
      BY <1>6, <2>1, <3>1, <3>2
  <2>2. ASSUME y.op = "paginated", y.msgs # <<>>, ~y.hollow
        PROVE  y.msgs[1].found # <<>>
    <3>1. y.msgs = x.msgs \/ y.msgs[1].found # <<>>
      BY <1>1, <2>2 DEF GoesOn, Goes, Marked
    <3> QED
      BY <1>1, <1>3, <1>5, <2>2, <3>1 DEF Filled
  <2>3. x.op # "none" /\ (x.op = "search" => x.out = <<>>)
    BY <1>2, <1>5 DEF Filled
  <2> QED
    BY <1>1, <1>6, <2>1, <2>2, <2>3 DEF Filled
<1>11. AskedView(y, list) /\ ExpectedView(y, controls[x.ref].response) /\ FoundAll(y)
  BY <1>1 DEF AskedView, ExpectedView, FoundAll
<1> QED
  BY <1>1, <1>7, <1>8, <1>9, <1>10, <1>11 DEF GeneratorComplete

\* The same of one to the call, which disturbs nothing.
LEMMA AskComplete ==
  ASSUME TypeInv, OrderInv, CompleteInv, Asks, \A g \in 1 .. 2 : GoesOn(g)
  PROVE  CompleteInv'
<1>1. PICK f \in 1 .. 2 : \E a : AskEffect(f, a)
  BY DEF Asks
<1>2. PICK a : AskEffect(f, a)
  BY <1>1
<1>3. GoesOn(1) /\ GoesOn(2)
  OBVIOUS
<1>4. GeneratorComplete /\ Disturbed
      /\ (frames[2].phase = "done" /\ frames[2].res = "ok" => frames[2].op # "none")
  BY DEF CompleteInv
<1>5. /\ frames'[f].ref = frames[f].ref /\ frames[f].phase = "ask" /\ controls' = controls
      /\ \A g \in 1 .. 2 : g # f => frames'[g] = frames[g]
  BY <1>2 DEF AskEffect
<1>6. GeneratorComplete'
  <2>1. CASE f = 1
    BY <1>2, <1>3, <1>4, <2>1, GeneratorAskComplete
  <2>2. CASE f = 2
    BY <1>2, <1>3, <1>4, <2>2, AskStill, StillComplete
  <2> QED
    BY <2>1, <2>2
<1>7. /\ Working(2)' => Working(2)
      /\ frames'[1].ref = frames[1].ref /\ frames'[2].ref = frames[2].ref
  <2>1. CASE f = 1
    BY <1>5, <2>1 DEF Working
  <2>2. CASE f = 2
    BY <1>5, <2>2 DEF Working
  <2> QED
    BY <2>1, <2>2
<1>8. Disturbed'
  BY <1>3, <1>4, <1>7, StillDisturbed
<1> QED
  BY <1>3, <1>4, <1>6, <1>8, CallDone DEF CompleteInv

(***************************************************************************)
(* Results and pages.                                                      *)
(***************************************************************************)
\* A step of the generator alone keeps the invariant if it does so of the generator.
LEMMA AloneComplete ==
  ASSUME CompleteInv, \A g \in 1 .. 2 : GoesOn(g), frames'[2] = frames[2],
         frames'[1].ref = frames[1].ref, GeneratorComplete'
  PROVE  CompleteInv'
<1>1. GoesOn(1) /\ GoesOn(2) /\ (Working(2)' => Working(2))
  BY DEF Working
<1>2. Disturbed /\ (frames[2].phase = "done" /\ frames[2].res = "ok" => frames[2].op # "none")
  BY DEF CompleteInv
<1>3. Disturbed'
  BY <1>1, <1>2, StillDisturbed
<1> QED
  BY <1>1, <1>2, <1>3, CallDone DEF CompleteInv

\* The end of the generator keeps it.
LEMMA EndComplete ==
  ASSUME TypeInv, GeneratorComplete, GoesOn(1), frames'[1].phase = "done", frames'[1].msgs = <<>>,
         frames'[1].out = frames[1].out \/ (frames[1].op = "search" /\ frames[1].phase = "poll")
  PROVE  GeneratorComplete'
<1>1. FoundAll(frames'[1])
  BY DoneFoundAll
<1> QED
  BY <1>1 DEF GeneratorComplete, Open, Asked, AskedView, Expected, ExpectedView, Filled

LEMMA EndsComplete ==
  ASSUME TypeInv, CompleteInv, Ends, \A g \in 1 .. 2 : GoesOn(g)
  PROVE  CompleteInv'
<1>1. GoesOn(1) /\ GeneratorComplete
  BY DEF CompleteInv
<1>2. /\ frames'[1].phase = "done" /\ frames'[2] = frames[2] /\ frames'[1].ref = frames[1].ref
      /\ frames'[1].out = frames[1].out
  BY DEF Ends, Quiet
<1>3. frames'[1].msgs = <<>>
  <2>1. frames[1].phase = "done" => frames[1].msgs = <<>>
    BY FrameFacts DEF FrameOK
  <2> QED
    BY <2>1 DEF Ends, Quiet
<1> QED
  BY <1>1, <1>2, <1>3, EndComplete, AloneComplete

\* search() returns what it found; what get() gives the controls disturbs them.
LEMMA ReturnedComplete ==
  ASSUME TypeInv, CompleteInv, Returned, \A g \in 1 .. 2 : GoesOn(g)
  PROVE  CompleteInv'
<1>1. PICK f \in 1 .. 2 : ReturnsEffect(f)
  BY DEF Returned
<1>2. /\ frames[f].phase = "poll" /\ frames[f].op \in {"search", "get"} /\ frames[f].msgs # <<>>
      /\ Controlling(f, Received(f))
      /\ frames'[f].phase = "done" /\ frames'[f].msgs = <<>> /\ frames'[f].ref = frames[f].ref
      /\ \A g \in 1 .. 2 : g # f => frames'[g] = frames[g]
  BY <1>1 DEF ReturnsEffect
<1>3. GoesOn(1) /\ GoesOn(2) /\ GeneratorComplete /\ Disturbed
      /\ (frames[2].phase = "done" /\ frames[2].res = "ok" => frames[2].op # "none")
  BY DEF CompleteInv
<1>4. CASE f = 1
  <2>1. frames[1].op = "search" /\ frames'[2] = frames[2]
    BY <1>2, <1>4 DEF TypeInv, Roles
  <2> QED
    BY <1>2, <1>3, <1>4, <2>1, EndComplete, AloneComplete
<1>5. CASE f = 2
  <2>1. GeneratorComplete'
    BY <1>1, <1>3, <1>5, ReturnsStill, StillComplete
  <2>2. Disturbed'
    BY <1>2, <1>5 DEF Disturbed, Working
  <2> QED
    BY <1>3, <2>1, <2>2, CallDone DEF CompleteInv
<1> QED
  BY <1>4, <1>5

\* What the tail of a list has, by the list's places.
LEMMA TailPlaces ==
  ASSUME NEW S, NEW s \in Seq(S), s # <<>>
  PROVE  \A k \in DOMAIN s : k # 1 => k - 1 \in DOMAIN Tail(s) /\ Tail(s)[k - 1] = s[k]
<1> DEFINE t == Tail(s)
<1>1. t \in Seq(S) /\ Len(t) = Len(s) - 1 /\ \A k \in 1 .. Len(t) : t[k] = s[k + 1]
  BY HeadTailProperties
<1> HIDE DEF t
<1>2. \A k \in DOMAIN s : k # 1 => k - 1 \in 1 .. Len(t) /\ (k - 1) + 1 = k
  BY <1>1
<1>3. DOMAIN t = 1 .. Len(t)
  BY <1>1
<1> QED
  BY <1>1, <1>2, <1>3 DEF t

\* The messages that a frame has left.
LEMMA TailMessages ==
  ASSUME NEW x \in Frame, NEW y, x.msgs # <<>>, y.msgs = Tail(x.msgs)
  PROVE  /\ Len(y.msgs) = Len(x.msgs) - 1 /\ Len(x.msgs) \in Nat \ {0}
         /\ \A k \in DOMAIN x.msgs : k # 1 => k - 1 \in DOMAIN y.msgs /\ y.msgs[k - 1] = x.msgs[k]
         /\ y.msgs # <<>> => Last(y) = Last(x)
<1> DEFINE s == x.msgs
           t == y.msgs
<1>1. s \in Seq(Reply) /\ s # <<>> /\ t = Tail(s)
  BY DEF Frame
<1> HIDE DEF s, t
<1>2. t \in Seq(Reply) /\ Len(t) = Len(s) - 1 /\ \A k \in 1 .. Len(t) : t[k] = s[k + 1]
  BY <1>1, HeadTailProperties
<1>3. Len(s) \in Nat \ {0} /\ DOMAIN s = 1 .. Len(s) /\ DOMAIN t = 1 .. Len(t)
  BY <1>1, <1>2
<1>4. \A k \in DOMAIN s : k # 1 => k - 1 \in 1 .. Len(t) /\ (k - 1) + 1 = k
  BY <1>2, <1>3
<1>5. t # <<>> => t[Len(t)] = s[Len(s)]
  <2>1. t # <<>> => Len(t) \in 1 .. Len(t)
    BY <1>2
  <2>2. Len(t) + 1 = Len(s)
    BY <1>2, <1>3
  <2> QED
    BY <1>2, <2>1, <2>2
<1> QED
  BY <1>2, <1>3, <1>4, <1>5 DEF s, t, Last

\* search_iter() and search_paged() give an entry.
LEMMA EntryYieldsComplete ==
  ASSUME TypeInv, CompleteInv, EntryYields, TypeInv', \A g \in 1 .. 2 : GoesOn(g)
  PROVE  CompleteInv'
<1> DEFINE x == frames[1]
           y == frames'[1]
           list == controls[x.ref].server
           e0 == Message(1).found[1]
<1>1. /\ x.phase = "poll" /\ x.op \in Iterates /\ x.msgs # <<>> /\ ~Message(1).final
      /\ Controlling(1, Received(1))
      /\ y.phase = "yield" /\ y.entry = x.entry + 1 /\ YieldedOut(x, y, e0) /\ y.op = x.op
      /\ y.ref = x.ref /\ y.msgs = Tail(x.msgs) /\ frames'[2] = frames[2]
  BY DEF EntryYields, YieldEffect
<1>2. x \in Frame /\ FrameOK(x) /\ x.ref \in 0 .. 2 /\ GoesOn(1) /\ GeneratorComplete
  BY FrameFacts DEF CompleteInv
<1>3. Message(1) = x.msgs[1] /\ 1 \in DOMAIN x.msgs
  BY <1>1, FrameFacts, MessageFacts
<1>4. controls'[x.ref].server = list
  BY <1>1, <1>2, ReceivedFacts
<1>5. Open(x) /\ Open(y) /\ x.op # "paginated" /\ x.op # "search"
  BY <1>1 DEF Open, Iterates
<1>6. e0 \in Found(y) /\ Found(x) \subseteq Found(y)
  BY <1>1, <1>2, FoundMore
<1>7. (Claims(y) => Claims(x)) /\ y.stayed \subseteq x.stayed
  BY <1>2, ClaimsBefore DEF GoesOn
<1>8. Asked(x, list) /\ Expected(x) /\ Filled(x)
  BY <1>2 DEF GeneratorComplete
<1>9. /\ Len(y.msgs) = Len(x.msgs) - 1 /\ Len(x.msgs) \in Nat \ {0}
      /\ \A k \in DOMAIN x.msgs : k # 1 => k - 1 \in DOMAIN y.msgs /\ y.msgs[k - 1] = x.msgs[k]
      /\ y.msgs # <<>> => Last(y) = Last(x)
  BY <1>1, <1>2, TailMessages
<1>10. Asked(y, list)
  BY <1>1, <1>5, <1>6, <1>7, <1>8 DEF Asked
<1>11. Expected(y)
  <2> SUFFICES ASSUME Claims(y), y.msgs # <<>>, Last(y).err = "ok", NEW e \in y.stayed
               PROVE  e \in Found(y) \/ Read(y, e) \/ Leads(y, e)
    BY <1>1, <1>5 DEF Expected
  <2>1. e \in Found(x) \/ Read(x, e) \/ Leads(x, e)
    BY <1>1, <1>5, <1>7, <1>8, <1>9 DEF Expected
  <2>2. Leads(x, e) => Leads(y, e)
    BY <1>1, <1>5, <1>9 DEF Leads
  <2>3. ASSUME Read(x, e)
        PROVE  e = e0 \/ Read(y, e)
    <3>1. PICK k \in DOMAIN x.msgs : \E n \in DOMAIN x.msgs[k].found : x.msgs[k].found[n] = e
      BY <2>3 DEF Read
    <3>2. CASE k = 1
      <4>1. Len(x.msgs[1].found) = 1 /\ x.msgs[1].found \in Seq(Entries)
        <5>1. Singles(x.msgs) /\ ~x.msgs[1].final
          BY <1>1, <1>2, <1>3 DEF FrameOK
        <5>2. x.msgs[1] \in Reply
          BY <1>1, <1>3, FrameFacts, MessageFacts
        <5> QED
          BY <1>3, <5>1, <5>2 DEF Singles, Reply
      <4>2. DOMAIN x.msgs[1].found = {1}
        BY <4>1
      <4> QED
        BY <1>3, <3>1, <3>2, <4>2
    <3>3. CASE k # 1
      BY <1>9, <3>1, <3>3 DEF Read
    <3> QED
      BY <3>2, <3>3
  <2> QED
    BY <1>6, <2>1, <2>2, <2>3
<1>12. Filled(y)
  <2>1. x.entry \in Nat /\ PageSize \in Nat /\ x.op # "none"
    BY <1>1, <1>2, ConstantsAssumption DEF Frame, Iterates
  <2>2. y.entry + Len(y.msgs) = x.entry + Len(x.msgs)
    BY <1>1, <1>9, <2>1
  <2> QED
    BY <1>1, <1>5, <1>8, <1>9, <2>1, <2>2 DEF Filled
<1>13. Open(y) => y.stayed \subseteq dir'
  BY <1>2, <1>5, StayedThere
<1>14. GeneratorComplete'
  BY <1>1, <1>4, <1>5, <1>10, <1>11, <1>12, <1>13 DEF GeneratorComplete, AskedView, ExpectedView, FoundAll
<1> QED
  BY <1>1, <1>14, AloneComplete

\* search_paginated() gives an entry of its page.
LEMMA EntryResumesComplete ==
  ASSUME TypeInv, CompleteInv, EntryResumes, \A g \in 1 .. 2 : GoesOn(g)
  PROVE  CompleteInv'
<1> DEFINE x == frames[1]
           y == frames'[1]
           resp == controls[x.ref].response
           s == x.left
<1>1. /\ x.phase = "yield" /\ x.op = "paginated" /\ x.msgs = <<>> /\ s # <<>>
      /\ y.phase = "yield" /\ YieldedOut(x, y, s[1]) /\ y.op = x.op /\ y.ref = x.ref
      /\ y.msgs = <<>> /\ y.left = Tail(s) /\ y.page = x.page /\ frames'[2] = frames[2]
      /\ controls' = controls
  BY DEF EntryResumes, YieldEffect
<1>2. x \in Frame /\ s \in Seq(Entries) /\ GoesOn(1) /\ GeneratorComplete
  <2>1. x \in Frame
    BY FrameFacts
  <2>2. s \in Seq(Entries)
    BY <2>1 DEF Frame
  <2>3. GoesOn(1) /\ GeneratorComplete
    BY DEF CompleteInv
  <2> QED
    BY <2>1, <2>2, <2>3
<1>3. s[1] \in Found(y) /\ Found(x) \subseteq Found(y)
  BY <1>1, <1>2, FoundMore
<1>4. \A k \in DOMAIN s : k # 1 => k - 1 \in DOMAIN y.left /\ y.left[k - 1] = s[k]
  <2>1. \A k \in DOMAIN s : k # 1 => k - 1 \in DOMAIN Tail(s) /\ Tail(s)[k - 1] = s[k]
    <3> HIDE DEF s
    <3> QED
      BY <1>1, <1>2, TailPlaces
  <2>2. y.left = Tail(s)
    BY <1>1
  <2> HIDE DEF s, y
  <2> QED
    BY <2>1, <2>2
<1>5. (Claims(y) => Claims(x)) /\ y.stayed \subseteq x.stayed
  BY <1>2, ClaimsBefore DEF GoesOn
<1>6. ExpectedView(y, resp)
  <2> SUFFICES ASSUME Claims(y), resp.vlv # None
               PROVE  /\ \A e \in y.stayed : e \in Found(y) \/ Left(y, e) \/ Further(y, resp.vlv, e)
                      /\ resp.vlv.count = Len(resp.vlv.context)
    BY DEF ExpectedView
  <2>1. /\ \A e \in x.stayed : e \in Found(x) \/ Left(x, e) \/ Further(x, resp.vlv, e)
        /\ resp.vlv.count = Len(resp.vlv.context)
    BY <1>1, <1>2, <1>5 DEF GeneratorComplete, ExpectedView
  <2>2. \A e : Left(x, e) => e = s[1] \/ Left(y, e)
    BY <1>4 DEF Left
  <2>3. \A e : Further(x, resp.vlv, e) => Further(y, resp.vlv, e)
    BY <1>1 DEF Further, Bound
  <2> QED
    BY <1>3, <1>5, <2>1, <2>2, <2>3
<1>7. Open(y) => y.stayed \subseteq dir'
  BY <1>1, <1>2, StayedThere DEF Open
<1>8. GeneratorComplete'
  BY <1>1, <1>6, <1>7 DEF GeneratorComplete, Asked, AskedView, Expected, Filled, FoundAll, Iterates
<1> QED
  BY <1>1, <1>8, AloneComplete

\* The first of a page.
LEMMA PageYieldsComplete ==
  ASSUME TypeInv, CompleteInv, PageYields, \A g \in 1 .. 2 : GoesOn(g)
  PROVE  CompleteInv'
<1> DEFINE x == frames[1]
           y == frames'[1]
           resp == Message(1).resp
           s == Message(1).found
<1>1. /\ x.phase = "poll" /\ x.op = "paginated" /\ x.msgs # <<>> /\ s # <<>> /\ Message(1).err = "ok"
      /\ Controlling(1, Received(1))
      /\ y.phase = "yield" /\ YieldedOut(x, y, s[1]) /\ y.op = x.op /\ y.ref = x.ref
      /\ y.msgs = <<>> /\ y.left = Tail(s) /\ y.page = x.page /\ frames'[2] = frames[2]
  BY DEF PageYields, YieldEffect, Accepted
<1>2. x \in Frame /\ x.ref \in 0 .. 2 /\ GoesOn(1) /\ GeneratorComplete
  BY FrameFacts DEF CompleteInv
<1>3. s \in Seq(Entries)
  BY <1>1, FrameFacts, MessageFacts DEF Reply
<1>4. s[1] \in Found(y) /\ Found(x) \subseteq Found(y)
  BY <1>1, <1>2, FoundMore
<1>5. \A k \in DOMAIN s : k # 1 => k - 1 \in DOMAIN y.left /\ y.left[k - 1] = s[k]
  <2>1. \A k \in DOMAIN s : k # 1 => k - 1 \in DOMAIN Tail(s) /\ Tail(s)[k - 1] = s[k]
    <3> HIDE DEF s
    <3> QED
      BY <1>1, <1>3, TailPlaces
  <2>2. y.left = Tail(s)
    BY <1>1
  <2> HIDE DEF s, y
  <2> QED
    BY <2>1, <2>2
<1>6. (Claims(y) => Claims(x)) /\ y.stayed \subseteq x.stayed
  BY <1>2, ClaimsBefore DEF GoesOn
<1>7. Last(x) = Message(1) /\ Message(1) = x.msgs[1] /\ DOMAIN x.msgs = {1}
  BY <1>1, <1>2, LastMessage DEF GeneratorComplete, Iterates
<1>8. controls'[x.ref].response = resp
  BY <1>1, <1>2, FrameFacts, ReceivedFacts
<1>9. ExpectedView(y, resp)
  <2> SUFFICES ASSUME Claims(y)
               PROVE  /\ \A e \in y.stayed : e \in Found(y) \/ Left(y, e) \/ Further(y, resp.vlv, e)
                      /\ resp.vlv.count = Len(resp.vlv.context)
    BY DEF ExpectedView
  <2>1. /\ \A e \in x.stayed : e \in Found(x) \/ Read(x, e) \/ Leads(x, e)
        /\ resp.vlv.count = Len(resp.vlv.context)
    BY <1>1, <1>2, <1>6, <1>7 DEF GeneratorComplete, Expected, Open
  <2>2. \A e : Read(x, e) => e = s[1] \/ Left(y, e)
    BY <1>5, <1>7 DEF Read, Left
  <2>3. \A e : Leads(x, e) => Further(y, resp.vlv, e)
    BY <1>1, <1>7 DEF Leads, Further, Bound
  <2> QED
    BY <1>4, <1>6, <2>1, <2>2, <2>3
<1>10. Open(y) => y.stayed \subseteq dir'
  BY <1>1, <1>2, StayedThere DEF Open
<1>11. GeneratorComplete'
  BY <1>1, <1>8, <1>9, <1>10 DEF GeneratorComplete, Asked, AskedView, Expected, Filled, FoundAll, Iterates
<1> QED
  BY <1>1, <1>11, AloneComplete

\* search_paged() asks for its next page.
LEMMA PageTurnsComplete ==
  ASSUME TypeInv, CompleteInv, PageTurns, \A g \in 1 .. 2 : GoesOn(g)
  PROVE  CompleteInv'
<1> DEFINE x == frames[1]
           y == frames'[1]
           list == controls[x.ref].server
           new == controls'[x.ref].server
           cookie == Message(1).resp.paged
<1>1. /\ x.phase = "poll" /\ x.op = "paged" /\ x.msgs # <<>> /\ Message(1).err = "ok" /\ Message(1).final
      /\ y.phase = "ask" /\ y.msgs = <<>> /\ y.out = x.out /\ y.op = x.op /\ y.ref = x.ref
      /\ frames'[2] = frames[2] /\ cookie # None
      /\ \A n \in DOMAIN new : new[n].at = cookie \/ (n \in DOMAIN list /\ new[n] = list[n])
  BY DEF PageTurns, TurnEffect, Accepted
<1>2. GoesOn(1) /\ GeneratorComplete /\ Open(x)
  BY <1>1 DEF CompleteInv, Open
<1>3. (Claims(y) => Claims(x)) /\ y.stayed \subseteq x.stayed
  BY <1>2, ClaimsBefore DEF GoesOn
<1>4. /\ Last(x) = Message(1) /\ Message(1) = x.msgs[1] /\ DOMAIN x.msgs = {1}
      /\ Message(1).found = <<>>
  BY <1>1, <1>2, LastMessage DEF GeneratorComplete, Iterates
<1>5. Found(y) = Found(x)
  BY <1>1, FoundSame
<1>6. cookie \in Nat
  <2>1. Message(1) \in Reply
    BY <1>1, FrameFacts, MessageFacts
  <2> QED
    BY <1>1, <2>1 DEF Reply, ResponseType, Place
<1> HIDE DEF cookie
<1>7. ASSUME Claims(x), NEW e \in x.stayed, e <= cookie
      PROVE  e \in Found(x)
  <2>1. e \in Found(x) \/ Read(x, e) \/ Leads(x, e)
    BY <1>1, <1>2, <1>4, <1>7 DEF GeneratorComplete, Expected
  <2>2. e \in Nat
    BY <1>2, <1>7, ConstantsAssumption DEF GeneratorComplete, TypeInv, ServerOK
  <2>3. DOMAIN <<>> = {}
    OBVIOUS
  <2>4. ~Read(x, e)
    BY <1>4, <2>3 DEF Read
  <2>5. ~Leads(x, e)
    BY <1>1, <1>4, <1>6, <1>7, <2>2 DEF Leads, cookie
  <2> QED
    BY <2>1, <2>4, <2>5
<1>8. Asked(y, new)
  <2> SUFFICES ASSUME Claims(y), NEW n \in DOMAIN new, new[n].type = "paged", new[n].at # None,
                      NEW e \in y.stayed, e <= new[n].at
               PROVE  e \in Found(y)
    BY <1>1 DEF Asked
  <2>1. Claims(x) /\ e \in x.stayed
    BY <1>3
  <2>2. CASE new[n].at = cookie
    BY <1>5, <1>7, <2>1, <2>2
  <2>3. CASE n \in DOMAIN list /\ new[n] = list[n]
    BY <1>1, <1>2, <1>5, <2>1, <2>3 DEF GeneratorComplete, Asked
  <2> QED
    BY <1>1, <2>2, <2>3
<1>9. Open(y) => y.stayed \subseteq dir'
  BY <1>2, StayedThere
<1>10. GeneratorComplete'
  BY <1>1, <1>8, <1>9 DEF GeneratorComplete, AskedView, Expected, ExpectedView, Filled, FoundAll
<1> QED
  BY <1>1, <1>10, AloneComplete

\* So does search_paginated().
LEMMA WindowTurnsComplete ==
  ASSUME TypeInv, CompleteInv, WindowTurns, \A g \in 1 .. 2 : GoesOn(g)
  PROVE  CompleteInv'
<1> DEFINE x == frames[1]
           y == frames'[1]
           new == controls'[x.ref].server
           vlv == controls[x.ref].response.vlv
<1>1. /\ x.phase = "yield" /\ x.op = "paginated" /\ x.left = <<>> /\ vlv # None
      /\ y.phase = "ask" /\ y.msgs = <<>> /\ y.out = x.out /\ y.op = x.op /\ y.ref = x.ref
      /\ y.page = x.page + 1 /\ frames'[2] = frames[2]
      /\ \A n \in DOMAIN new : new[n].type = "vlv" => new[n].context = vlv.context
  BY DEF WindowTurns, TurnEffect
<1>2. GoesOn(1) /\ GeneratorComplete /\ Open(x)
  BY <1>1 DEF CompleteInv, Open
<1>3. (Claims(y) => Claims(x)) /\ y.stayed \subseteq x.stayed
  BY <1>2, ClaimsBefore DEF GoesOn
<1>4. Found(y) = Found(x)
  BY <1>1, FoundSame
<1>5. vlv.context # None
  <2>1. vlv \in View
    <3>1. x.ref \in 0 .. 2
      BY FrameFacts
    <3> QED
      BY <1>1, <3>1 DEF TypeInv, ControlsOK, ControlsType, ResponseType
  <2>2. vlv.context \in Seq(Entries)
    BY <2>1 DEF View
  <2> QED
    BY <2>2, ConstantsAssumption
<1>6. Bound(y) = Bound(x)
  <2>1. x.page \in Nat
    BY FrameFacts, FrameNumbers
  <2>2. y.page - 1 = x.page
    BY <1>1, <2>1
  <2> QED
    BY <1>1, <2>2 DEF Bound
<1>7. AskedView(y, new)
  <2> SUFFICES ASSUME Claims(y), NEW n \in DOMAIN new, new[n].type = "vlv", NEW e \in y.stayed
               PROVE  e \in Found(y) \/ Further(y, new[n], e)
    BY <1>1, <1>5 DEF AskedView
  <2>1. e \in Found(x) \/ Left(x, e) \/ Further(x, vlv, e)
    BY <1>1, <1>2, <1>3 DEF GeneratorComplete, ExpectedView
  <2>2. ~Left(x, e)
    <3>1. DOMAIN <<>> = {}
      OBVIOUS
    <3> QED
      BY <1>1, <3>1 DEF Left
  <2>3. Further(x, vlv, e) => Further(y, new[n], e)
    BY <1>1, <1>6 DEF Further
  <2> QED
    BY <1>4, <2>1, <2>2, <2>3
<1>8. Open(y) => y.stayed \subseteq dir'
  BY <1>2, StayedThere
<1>9. GeneratorComplete'
  BY <1>1, <1>7, <1>8 DEF GeneratorComplete, Asked, Expected, ExpectedView, Filled, FoundAll, Iterates
<1> QED
  BY <1>1, <1>9, AloneComplete

\* Every step keeps the invariant.
LEMMA CompleteStep ==
  ASSUME TypeInv, OrderInv, CompleteInv, [Next]_vars
  PROVE  CompleteInv'
<1>1. TypeInv' /\ (Started \/ (Progress /\ \A g \in 1 .. 2 : GoesOn(g)))
  BY NextGoesOn
<1>2. CASE Started
  BY <1>1, <1>2, StartedComplete
<1>3. ASSUME Progress, \A g \in 1 .. 2 : GoesOn(g)
      PROVE  CompleteInv'
  <2>1. CASE QuietStep
    BY <1>3, <2>1, QuietComplete
  <2>2. CASE Asks
    BY <1>3, <2>2, AskComplete
  <2>3. CASE Returned
    BY <1>3, <2>3, ReturnedComplete
  <2>4. CASE EntryYields
    BY <1>1, <1>3, <2>4, EntryYieldsComplete
  <2>5. CASE EntryResumes
    BY <1>3, <2>5, EntryResumesComplete
  <2>6. CASE PageTurns
    BY <1>3, <2>6, PageTurnsComplete
  <2>7. CASE PageYields
    BY <1>3, <2>7, PageYieldsComplete
  <2>8. CASE WindowTurns
    BY <1>3, <2>8, WindowTurnsComplete
  <2>9. CASE Ends
    BY <1>3, <2>9, EndsComplete
  <2> QED
    BY <1>3, <2>1, <2>2, <2>3, <2>4, <2>5, <2>6, <2>7, <2>8, <2>9 DEF Progress
<1> QED
  BY <1>1, <1>2, <1>3

\* At the start there is no search.
LEMMA InitComplete ==
  ASSUME Init
  PROVE  CompleteInv
<1>1. frames[1] = NoFrame /\ frames[2] = NoFrame
  BY DEF Init
<1>2. NoFrame.msgs = <<>> /\ NoFrame.op = "none" /\ NoFrame.phase = "idle"
  BY DEF NoFrame
<1>3. GeneratorComplete
  BY <1>1, <1>2 DEF GeneratorComplete, Open, Asked, AskedView, Expected, ExpectedView, Filled, FoundAll
<1> QED
  BY <1>1, <1>2, <1>3 DEF CompleteInv, Disturbed, Working

\* A search that ends without an exception (search(), search_iter(), search_paged(),
\* search_paginated(), 519-717) has found every entry that was there all the time: whatever
\* connections are lost, requests repeated and entries added or deleted meanwhile.  Not so if its
\* Controls were used before, or by a get() during search_paginated(), or if all entries of a page
\* are gone before it is read.
THEOREM FindsAll == Spec => []Complete
<1>1. Init => TypeInv /\ OrderInv /\ CompleteInv
  BY InitType, InitOrder, InitComplete
<1>2. TypeInv /\ OrderInv /\ CompleteInv /\ [Next]_vars => TypeInv' /\ OrderInv' /\ CompleteInv'
  BY NextMoves, OrderStep, CompleteStep
<1>3. TypeInv /\ CompleteInv => Complete
  <2> SUFFICES ASSUME TypeInv, CompleteInv
               PROVE  Complete
    OBVIOUS
  <2>1. FoundAll(frames[1])
    BY DEF CompleteInv, GeneratorComplete
  <2>2. frames[2].phase = "done" /\ frames[2].res = "ok" => frames[2].op = "get"
    BY DEF CompleteInv, TypeInv, Roles
  <2> QED
    BY <2>1, <2>2 DEF Complete, FoundAll, Claims
<1> QED
  BY <1>1, <1>2, <1>3, PTL DEF Spec

(***************************************************************************)
(* The numbers of the results.                                             *)
(***************************************************************************)
\* A search that Numbered speaks of: the entries stay as they are, and no other call has its controls.
Numbering(x) ==
  x.op \in {"paged", "paginated"} /\ x.calm /\ x.fresh /\ "controls" \notin x.meddled

\* The entries of all pages, of the pages before, and of a page.
Total(x) == Cardinality(x.seen)
Before(x) == (x.page - 1) * PageSize
Share(total, before) ==
  IF PageSize < total - before THEN PageSize ELSE IF before < total THEN total - before ELSE 0

\* The n-th result has the right numbers.
Row(x, r, n) ==
  /\ (r.page - 1) * PageSize + r.entry = n /\ r.entry \in 1 .. PageSize
  /\ x.op = "paginated" => /\ r.results = Total(x)
                           /\ r.page <= r.lastPage /\ (r.lastPage - 1) * PageSize < r.results
Rows(x) == \A n \in DOMAIN x.out : Row(x, x.out[n], n)

\* The results are those of the pages before and of this one, which is not longer than a page.
Tallied(x) ==
  /\ Len(x.out) = Before(x) + x.entry
  /\ x.entry <= PageSize
  /\ x.phase = "ask" => x.entry = 0
  /\ x.op = "paged" /\ x.msgs # <<>> => Last(x).final /\ x.entry + Len(x.msgs) <= PageSize + 1

\* A list of all entries.
ListsAll(x, list) == Len(list) = Total(x) /\ \A i \in DOMAIN list : list[i] \in x.seen
Viewed(x, vlv) == vlv.count = Total(x) /\ ListsAll(x, vlv.context)

\* A page of a list has its share, and what is known of the list is right.
Known(x) == x.length = Total(x) /\ x.lastPage = Pages(Total(x))
ViewTallied(x) ==
  x.op = "paginated" =>
    /\ x.phase # "yield" => x.entry = 0
    /\ x.phase = "yield" => x.entry > 0 /\ x.entry + Len(x.left) = Share(Total(x), Before(x))
    /\ x.phase = "yield" \/ x.lastPage # None => Known(x)
    /\ x.msgs # <<>> /\ x.msgs[1].err = "ok" =>
         Viewed(x, x.msgs[1].resp.vlv) /\ Len(x.msgs[1].found) = Share(Total(x), Before(x))

\* The next request, or the response that it will be made of, is of such a list.
ViewAsked(x, list) ==
  x.op = "paginated" /\ x.phase = "ask" =>
    \A k \in DOMAIN list : list[k].type = "vlv" /\ list[k].context # None => ListsAll(x, list[k].context)
ViewGiven(x, resp) ==
  x.op = "paginated" /\ x.phase = "yield" /\ resp.vlv # None => Viewed(x, resp.vlv)

GeneratorNumbered ==
  LET x == frames[1]
      c == controls[x.ref]
  IN Numbering(x) =>
       /\ Rows(x)
       /\ Open(x) => /\ x.seen = dir /\ Tallied(x) /\ ViewTallied(x)
                     /\ ViewAsked(x, c.server) /\ ViewGiven(x, c.response)

\* The shares of the pages.
LEMMA ShareFacts ==
  ASSUME NEW total \in Nat, NEW before \in Nat
  PROVE  /\ Share(total, before) \in Nat /\ Share(total, before) <= PageSize
         /\ Share(total, before) > 0 => before < total
         /\ before + PageSize <= total => Share(total, before) = PageSize
BY ConstantsAssumption DEF Share

\* The number of pages: a page that begins before the end is one of them, and so does the last one.
LEMMA PagesFacts ==
  ASSUME NEW total \in Nat, NEW page \in Nat \ {0}, (page - 1) * PageSize < total
  PROVE  /\ Pages(total) \in Int /\ page <= Pages(total)
         /\ (Pages(total) - 1) * PageSize < total
<1> DEFINE size == PageSize
           last == Pages(total)
           d == last + 1 - page
<1>1. size \in Nat \ {0}
  BY ConstantsAssumption
<1>2. last = (total + size - 1) \div size
  BY DEF Pages
<1> HIDE DEF size, last
<1>3. last \in Int /\ size * last <= total + size - 1 /\ total + size - 1 < size * last + size
  BY <1>1, <1>2
<1>4. (last - 1) * size = size * last - size
  BY <1>1, <1>3
<1>5. (last - 1) * size < total
  BY <1>1, <1>3, <1>4
<1>6. d \in Int /\ page = last + 1 - d
  BY <1>3
<1> HIDE DEF d
<1>7. (page - 1) * size = size * last - d * size
  <2>1. (page - 1) * size = (last - d) * size
    BY <1>3, <1>6
  <2> QED
    BY <1>1, <1>3, <1>6, <2>1
<1>8. d > 0
  <2> SUFFICES ASSUME d <= 0
               PROVE  FALSE
    BY <1>6
  <2>1. d * size <= 0 /\ d * size \in Int
    BY <1>1, <1>6
  <2> DEFINE m == size * last
             n == d * size
             b == (page - 1) * size
  <2>2. m \in Int /\ n \in Int /\ n <= 0 /\ b = m - n /\ b < total /\ total + size - 1 < m + size
    BY <1>1, <1>3, <1>7, <2>1 DEF size
  <2> HIDE DEF m, n, b
  <2> QED
    BY <1>1, <2>2
<1> QED
  BY <1>3, <1>5, <1>6, <1>8 DEF size, last

\* The entries that a frame has seen can be counted.
LEMMA TotalFacts ==
  ASSUME NEW x \in Frame
  PROVE  Total(x) \in Nat
<1>1. x.seen \in SUBSET Entries
  BY DEF Frame
<1>2. IsFiniteSet(x.seen)
  BY <1>1, ConstantsAssumption, FS_Subset
<1> QED
  BY <1>2, FS_CardinalityType DEF Total

\* So can those of the pages before.
LEMMA BeforeFacts ==
  ASSUME NEW x \in Frame
  PROVE  /\ Before(x) \in Nat
         /\ \A y : y.page = x.page + 1 => Before(y) = Before(x) + PageSize
<1> DEFINE p == x.page
           size == PageSize
<1>1. p \in Nat \ {0} /\ size \in Nat
  BY FrameNumbers
<1> HIDE DEF p, size
<1>2. (p - 1) * size \in Nat /\ ((p + 1) - 1) * size = (p - 1) * size + size
  BY <1>1
<1> QED
  BY <1>2 DEF Before, p, size

\* A page is not longer than a page.
LEMMA PageShort ==
  ASSUME ServerOK, NEW cookie \in Place, NEW matches \in SUBSET dir,
         NEW a \in PagedAnswers(cookie, matches)
  PROVE  Len(a.found) <= PageSize
<1> DEFINE later == {e \in matches : cookie = None \/ e > cookie}
           rest == Sorted(later)
           page == First(PageSize, rest)
           cookies == IF Len(rest) > PageSize THEN {page[PageSize]}
                      ELSE {None} \cup {page[n] : n \in DOMAIN page \cap {PageSize}}
<1>1. PageSize \in Nat
  BY ConstantsAssumption
<1>2. CASE cookie # None /\ cookie # after
  <2>1. a.found = <<>>
    BY <1>2, RefusalFacts DEF PagedAnswers, Refused
  <2> QED
    BY <1>1, <2>1
<1>3. CASE ~(cookie # None /\ cookie # after)
  <2>1. PICK c \in cookies : a = Answer(page, [NoResponse EXCEPT !.paged = c], "ok", c, view)
    BY <1>3 DEF PagedAnswers
  <2>2. a.found = page
    BY <2>1 DEF Answer
  <2>3. later \in SUBSET dir
    OBVIOUS
  <2> HIDE DEF later
  <2>4. rest \in Seq(Nat)
    BY <2>3, ListFacts
  <2> HIDE DEF rest
  <2>5. page \in Seq(Nat) /\ Len(page) = IF PageSize < Len(rest) THEN PageSize ELSE Len(rest)
    BY <1>1, <2>4, FirstFacts
  <2> QED
    BY <1>1, <2>2, <2>4, <2>5
<1> QED
  BY <1>2, <1>3

\* A window of a list whose entries are all there has its share.
LEMMA ViewShare ==
  ASSUME ServerOK, NEW control \in Control, control.at \in Nat \ {0},
         NEW a \in ViewAnswers(control, dir), a.err = "ok",
         \A i \in DOMAIN a.resp.vlv.context : a.resp.vlv.context[i] \in dir
  PROVE  Len(a.found) = Share(Len(a.resp.vlv.context), control.at - 1)
<1> DEFINE list == IF control.context = None THEN Sorted(dir) ELSE view
           at == control.at
           rest == SubSeq(list, at, Len(list))
           window == First(PageSize, rest)
           kept == {n \in DOMAIN window : window[n] \in dir}
           there == Picked(window, kept)
<1>1. a # Refusal("unwillingToPerform") /\ a # Refusal("vlvError")
  BY RefusalFacts DEF Refused
<1>2. /\ control.context # None => control.context = view
      /\ a = Answer(there, [NoResponse EXCEPT !.vlv = [count |-> Len(list), context |-> list]],
                    "ok", after, list)
  BY <1>1 DEF ViewAnswers
<1>3. a.found = there /\ a.resp.vlv.context = list
  BY <1>2 DEF Answer, NoResponse
<1>4. list \in Seq(Entries)
  BY <1>2, ListFacts DEF ServerOK
<1>5. PageSize \in Nat /\ at \in Nat \ {0}
  BY ConstantsAssumption
<1> HIDE DEF list, at
<1>6. Len(list) \in Nat /\ DOMAIN list = 1 .. Len(list) /\ \A k \in at .. Len(list) : list[k] \in Entries
  BY <1>4, <1>5
<1>7. /\ rest \in Seq(Entries)
      /\ Len(rest) = IF at <= Len(list) THEN Len(list) - at + 1 ELSE 0
  BY <1>5, <1>6, SubSeqProperties
<1>8. /\ window \in Seq(Entries) /\ Len(window) \in Nat
      /\ \A i \in 1 .. Len(window) :
           i <= PageSize /\ at + i - 1 \in 1 .. Len(list) /\ window[i] = list[at + i - 1]
  BY <1>4, <1>5, WindowFacts
<1> HIDE DEF rest
<1>9. Len(window) = IF PageSize < Len(rest) THEN PageSize ELSE Len(rest)
  BY <1>5, <1>7, FirstFacts
<1> HIDE DEF window
<1>10. Len(there) = Len(window)
  <2>1. \A n \in 1 .. Len(window) : window[n] \in dir
    BY <1>3, <1>6, <1>8
  <2>2. DOMAIN window = 1 .. Len(window)
    BY <1>8
  <2>3. kept = 1 .. Len(window)
    <3>1. DOMAIN window \subseteq kept
      BY <2>1, <2>2
    <3> QED
      BY <2>2, <3>1, Zenon
  <2>4. Cardinality(1 .. Len(window)) = Len(window)
    <3> DEFINE k == Len(window)
    <3>1. k \in Nat
      BY <1>8
    <3> HIDE DEF k
    <3>2. Cardinality(1 .. k) = IF 1 > k THEN 0 ELSE k - 1 + 1
      BY <3>1, FS_Interval
    <3> QED
      BY <3>1, <3>2 DEF k
  <2>5. \A ns \in SUBSET DOMAIN window : Len(Picked(window, ns)) = Cardinality(ns)
    BY <1>8, PickedFacts
  <2>6. kept \in SUBSET DOMAIN window
    OBVIOUS
  <2> QED
    BY <2>3, <2>4, <2>5, <2>6, Zenon
<1> HIDE DEF there
<1>11. Len(there) = Share(Len(list), at - 1)
  <2> DEFINE n == Len(list)
             k == Len(rest)
             w == Len(window)
  <2>1. n \in Nat /\ k = (IF at <= n THEN n - at + 1 ELSE 0) /\ w = IF PageSize < k THEN PageSize ELSE k
    BY <1>6, <1>7, <1>9
  <2> HIDE DEF n, k, w
  <2>2. w = Share(n, at - 1)
    BY <1>5, <2>1 DEF Share
  <2> QED
    BY <1>10, <2>2 DEF n, w
<1> QED
  BY <1>3, <1>11 DEF at

\* Both of an answer, by the controls of the request.
LEMMA AnswerCounts ==
  ASSUME ServerOK, NEW list, Request(list), NEW a \in Answers(list, None)
  PROVE  /\ (\E k \in DOMAIN list : list[k].type = "paged") => Len(a.found) <= PageSize
         /\ \A k \in DOMAIN list : list[k].type = "vlv" /\ a.err = "ok"
                /\ (\A i \in DOMAIN a.resp.vlv.context : a.resp.vlv.context[i] \in dir) =>
              Len(a.found) = Share(Len(a.resp.vlv.context), list[k].at - 1)
<1> DEFINE paged == OfType(list, "paged")
           vlv == OfType(list, "vlv")
<1>1. a \in IF Len(paged) + Len(vlv) > 1 THEN {Refusal("protocolError")}
            ELSE IF paged # <<>> THEN PagedAnswers(paged[1].at, dir)
            ELSE IF vlv # <<>> THEN ViewAnswers(vlv[1], dir)
            ELSE {Answer(Sorted(dir), NoResponse, "ok", after, view)}
  BY DEF Answers
<1>2. /\ paged \in Seq(Control) /\ Len(paged) \in Nat
      /\ \A k \in DOMAIN list : list[k].type = "paged" => paged # <<>>
      /\ paged # <<>> => paged[1] \in Control
  BY OfTypeFacts DEF Request
<1>3. /\ vlv \in Seq(Control) /\ Len(vlv) \in Nat
      /\ \A k \in DOMAIN list : list[k].type = "vlv" =>
           vlv # <<>> /\ (Len(vlv) <= 1 => vlv[1] = list[k])
      /\ vlv # <<>> => vlv[1] \in Control /\ vlv[1].at \in Nat \ {0}
  BY OfTypeFacts DEF Request
<1> HIDE DEF paged, vlv
<1>4. PageSize \in Nat
  BY ConstantsAssumption
<1>5. CASE a = Refusal("protocolError")
  <2>1. a.found = <<>> /\ a.err # "ok"
    BY <1>5, RefusalFacts DEF Refused
  <2> QED
    BY <1>4, <2>1
<1>6. CASE a # Refusal("protocolError") /\ paged # <<>>
  <2>1. Len(paged) + Len(vlv) <= 1 /\ vlv = <<>> /\ a \in PagedAnswers(paged[1].at, dir)
    BY <1>1, <1>2, <1>3, <1>6
  <2>2. paged[1].at \in Place
    BY <1>2, <1>6 DEF Control
  <2>3. Len(a.found) <= PageSize
    BY <2>1, <2>2, PageShort
  <2> QED
    BY <1>3, <2>1, <2>3
<1>7. CASE a # Refusal("protocolError") /\ paged = <<>>
  <2> SUFFICES ASSUME NEW k \in DOMAIN list, list[k].type = "vlv", a.err = "ok",
                      \A i \in DOMAIN a.resp.vlv.context : a.resp.vlv.context[i] \in dir
               PROVE  Len(a.found) = Share(Len(a.resp.vlv.context), list[k].at - 1)
    BY <1>2, <1>7
  <2>1. vlv # <<>> /\ ~(Len(paged) + Len(vlv) > 1)
    BY <1>1, <1>3, <1>7
  <2>2. a \in ViewAnswers(vlv[1], dir) /\ vlv[1] = list[k]
    BY <1>1, <1>2, <1>3, <1>7, <2>1
  <2> QED
    BY <1>3, <2>1, <2>2, ViewShare
<1> QED
  BY <1>5, <1>6, <1>7

\* What a search was before a step, if its numbers are right after it.
LEMMA NumberingBefore ==
  ASSUME NEW g, NEW x, NEW y, Goes(g, x, y), Numbering(y)
  PROVE  Numbering(x) /\ y.op = x.op /\ y.seen = x.seen /\ Total(y) = Total(x)
BY DEF Goes, Aged, Numbering, Total

\* The results that were there keep their numbers.
LEMMA RowsKept ==
  ASSUME NEW g, NEW x, NEW y, Goes(g, x, y), Numbering(y), Rows(x), y.out = x.out
  PROVE  Rows(y)
BY NumberingBefore DEF Rows, Row

\* One more result has the next number.
LEMMA RowsMore ==
  ASSUME NEW g, NEW x \in Frame, NEW y, NEW e, Goes(g, x, y), Numbering(y), Rows(x),
         YieldedOut(x, y, e), Len(x.out) = Before(x) + x.entry, x.entry + 1 <= PageSize,
         x.op = "paginated" => Known(y) /\ Before(x) < Total(x)
  PROVE  Rows(y)
<1> DEFINE len == Len(x.out)
           result(e1) == [e |-> e1, page |-> x.page, entry |-> x.entry + 1,
                          results |-> y.length, lastPage |-> y.lastPage]
           r == y.out[len + 1]
<1>1. y.op = x.op /\ Total(y) = Total(x) /\ x.op \in {"paged", "paginated"}
  BY NumberingBefore DEF Numbering
<1>2. /\ y.out \in Seq(Out) /\ Len(y.out) = len + 1 /\ len \in Nat
      /\ \A n \in 1 .. len : y.out[n] = x.out[n]
      /\ x.entry \in Nat /\ DOMAIN x.out = 1 .. len
  BY DEF YieldedOut, Frame
<1>3. r.page = x.page /\ r.entry = x.entry + 1 /\ r.results = y.length /\ r.lastPage = y.lastPage
  <2>1. y.out # x.out
    BY <1>2
  <2>2. PICK e1 : y.out = Append(x.out, result(e1))
    BY <1>1, <2>1 DEF Goes, Noted
  <2>3. r = result(e1)
    <3> DEFINE s == x.out
               new == result(e1)
    <3>1. s \in Seq(Out) /\ y.out = Append(s, new)
      BY <2>2 DEF Frame
    <3> HIDE DEF s, new
    <3>2. Append(s, new)[Len(s) + 1] = new
      BY <3>1
    <3> QED
      BY <3>1, <3>2 DEF s, new
  <2> QED
    BY <2>3
<1> HIDE DEF r, result
<1>4. Row(y, r, len + 1)
  <2> DEFINE before == Before(x)
             total == Total(x)
  <2>1. before \in Nat /\ before = (x.page - 1) * PageSize /\ total \in Nat /\ x.page \in Nat \ {0}
    BY BeforeFacts, TotalFacts, FrameNumbers DEF Before
  <2>2. /\ (r.page - 1) * PageSize + r.entry = len + 1
        /\ r.entry \in 1 .. PageSize
    <3> DEFINE pages == (r.page - 1) * PageSize
    <3>1. pages = before
      BY <1>3, <2>1
    <3>2. len = before + x.entry /\ r.entry = x.entry + 1
      BY <1>3
    <3>3. before \in Nat /\ x.entry \in Nat /\ PageSize \in Nat
      BY <1>2, <2>1, ConstantsAssumption
    <3> HIDE DEF before, len, pages
    <3>4. pages + r.entry = len + 1 /\ r.entry \in 1 .. PageSize
      BY <3>1, <3>2, <3>3
    <3> QED
      BY <3>4 DEF pages
  <2>3. ASSUME x.op = "paginated"
        PROVE  /\ r.results = total
               /\ r.page <= r.lastPage /\ (r.lastPage - 1) * PageSize < r.results
    <3>1. y.length = total /\ y.lastPage = Pages(total) /\ (x.page - 1) * PageSize < total
      BY <1>1, <2>1, <2>3 DEF Known
    <3> HIDE DEF total
    <3>2. x.page <= Pages(total) /\ (Pages(total) - 1) * PageSize < total
      BY <2>1, <3>1, PagesFacts
    <3> QED
      BY <1>3, <3>1, <3>2
  <2> QED
    BY <1>1, <2>2, <2>3 DEF Row
<1>5. \A n \in 1 .. len : Row(y, y.out[n], n)
  <2>1. \A n \in 1 .. len : Row(x, x.out[n], n)
    BY <1>2 DEF Rows
  <2> QED
    BY <1>1, <1>2, <2>1 DEF Row
<1> HIDE DEF len
<1>6. DOMAIN y.out = 1 .. len + 1 /\ \A n \in 1 .. len + 1 : n = len + 1 \/ n \in 1 .. len
  BY <1>2
<1> QED
  BY <1>4, <1>5, <1>6 DEF Rows, r

\* What the pages say of their list is right.
LEMMA MeasuredRight ==
  ASSUME TypeInv, GeneratorNumbered, GoesOn(1), Open(frames[1]), Numbering(frames'[1]),
         frames'[1].op = "paginated",
         frames'[1].lastPage # None
           \/ (frames'[1].phase = "yield" /\ frames[1].phase \in {"poll", "yield"})
  PROVE  Known(frames'[1])
<1> DEFINE x == frames[1]
           y == frames'[1]
           vlv == controls[x.ref].response.vlv
<1>1. Goes(1, x, y)
  BY DEF GoesOn
<1>2. Numbering(x) /\ y.op = x.op /\ Total(y) = Total(x)
  BY <1>1, NumberingBefore
<1>3. ViewTallied(x) /\ ViewGiven(x, controls[x.ref].response)
  BY <1>2 DEF GeneratorNumbered
<1>4. \/ /\ y.length = x.length /\ y.lastPage = x.lastPage
         /\ x.phase = "poll" /\ y.phase = "yield" => x.lastPage # None
      \/ /\ x.phase = "poll" /\ x.msgs # <<>> /\ Message(1).err = "ok"
         /\ y.length = Message(1).resp.vlv.count /\ y.lastPage = Pages(y.length)
      \/ x.phase = "yield" /\ vlv # None /\ y.length = vlv.count /\ y.lastPage = x.lastPage
  BY <1>1, <1>2 DEF Goes, Measured
<1>5. ASSUME y.length = x.length, y.lastPage = x.lastPage,
             x.phase = "poll" /\ y.phase = "yield" => x.lastPage # None
      PROVE  Known(y)
  <2>1. x.phase = "yield" \/ x.lastPage # None
    BY <1>5
  <2> QED
    BY <1>2, <1>3, <1>5, <2>1 DEF ViewTallied, Known
<1>6. ASSUME x.phase = "poll", x.msgs # <<>>, Message(1).err = "ok",
             y.length = Message(1).resp.vlv.count, y.lastPage = Pages(y.length)
      PROVE  Known(y)
  <2>1. Message(1) = x.msgs[1]
    BY <1>6, FrameFacts, MessageFacts
  <2> QED
    BY <1>2, <1>3, <1>6, <2>1 DEF ViewTallied, Viewed, Known
<1>7. ASSUME x.phase = "yield", vlv # None, y.length = vlv.count, y.lastPage = x.lastPage
      PROVE  Known(y)
  BY <1>2, <1>3, <1>7 DEF ViewTallied, ViewGiven, Viewed, Known
<1> QED
  BY <1>4, <1>5, <1>6, <1>7

\* A new list has entries that are there.
LEMMA NewListThere ==
  ASSUME ServerOK, NEW list, Request(list), NEW a \in Answers(list, None), a.err = "ok",
         NEW k \in DOMAIN list, list[k].type = "vlv", list[k].context = None
  PROVE  \A i \in DOMAIN a.resp.vlv.context : a.resp.vlv.context[i] \in dir
<1> DEFINE paged == OfType(list, "paged")
           vlv == OfType(list, "vlv")
           new == Sorted(dir)
<1>1. a \in IF Len(paged) + Len(vlv) > 1 THEN {Refusal("protocolError")}
            ELSE IF paged # <<>> THEN PagedAnswers(paged[1].at, dir)
            ELSE IF vlv # <<>> THEN ViewAnswers(vlv[1], dir)
            ELSE {Answer(Sorted(dir), NoResponse, "ok", after, view)}
  BY DEF Answers
<1>2. paged \in Seq(Control) /\ Len(paged) \in Nat
  BY OfTypeFacts
<1>3. vlv \in Seq(Control) /\ Len(vlv) \in Nat /\ vlv # <<>> /\ (Len(vlv) <= 1 => vlv[1] = list[k])
  BY OfTypeFacts
<1> HIDE DEF paged, vlv
<1>4. a # Refusal("protocolError") /\ a # Refusal("unwillingToPerform") /\ a # Refusal("vlvError")
  BY RefusalFacts DEF Refused
<1>5. ~(Len(paged) + Len(vlv) > 1)
  BY <1>1, <1>4
<1>6. paged = <<>> /\ vlv[1] = list[k]
  BY <1>2, <1>3, <1>5
<1>7. a \in ViewAnswers(list[k], dir)
  BY <1>1, <1>3, <1>5, <1>6
<1>8. \E there : a = Answer(there, [NoResponse EXCEPT !.vlv = [count |-> Len(new), context |-> new]],
                            "ok", after, new)
  BY <1>4, <1>7 DEF ViewAnswers
<1>9. a.resp.vlv.context = new
  BY <1>8 DEF Answer, NoResponse
<1>10. \A i \in DOMAIN new : new[i] \in dir
  <2>1. dir \in SUBSET dir
    OBVIOUS
  <2> QED
    BY <2>1, ListFacts
<1> QED
  BY <1>9, <1>10

\* A step that finds nothing keeps the numbers.
LEMMA StillNumbered ==
  ASSUME TypeInv, GeneratorNumbered, GeneratorStill
  PROVE  GeneratorNumbered'
<1> DEFINE x == frames[1]
           y == frames'[1]
           c == controls[x.ref]
           d == controls'[x.ref]
<1>1. /\ GoesOn(1) /\ Quiet(x, y) /\ d.server = c.server
      /\ \/ d.response = c.response \/ y.phase # "yield" \/ "controls" \in y.meddled
  BY DEF GeneratorStill
<1>2. /\ y.op = x.op /\ y.ref = x.ref /\ y.out = x.out
      /\ y.phase # "done" => /\ y.page = x.page /\ y.entry = x.entry /\ y.left = x.left
                             /\ y.msgs \in {x.msgs, <<>>}
                             /\ y.phase = x.phase \/ (x.phase = "yield" /\ y.phase = "poll"
                                                      /\ x.op \in Iterates)
  BY <1>1 DEF Quiet
<1> SUFFICES ASSUME Numbering(y)
             PROVE  /\ Rows(y)
                    /\ Open(y) => /\ y.seen = dir' /\ Tallied(y) /\ ViewTallied(y)
                                  /\ ViewAsked(y, d.server) /\ ViewGiven(y, d.response)
  BY <1>2 DEF GeneratorNumbered
<1>3. Goes(1, x, y) /\ (Open(y) => dir' = dir)
  BY <1>1 DEF GoesOn, Numbering
<1>4. Numbering(x) /\ y.seen = x.seen /\ Total(y) = Total(x)
  BY <1>3, NumberingBefore
<1>5. Rows(x) /\ (Open(x) => /\ x.seen = dir /\ Tallied(x) /\ ViewTallied(x)
                             /\ ViewAsked(x, c.server) /\ ViewGiven(x, c.response))
  BY <1>4 DEF GeneratorNumbered
<1>6. Rows(y)
  BY <1>2, <1>3, <1>5, RowsKept
<1>7. ASSUME Open(y)
      PROVE  /\ y.seen = dir' /\ Tallied(y) /\ ViewTallied(y)
             /\ ViewAsked(y, d.server) /\ ViewGiven(y, d.response)
  <2>1. /\ y.phase # "done" /\ Open(x) /\ Before(y) = Before(x)
        /\ x.op = "paginated" => y.phase = x.phase
    BY <1>2, <1>7 DEF Open, Before, Iterates
  <2>2. Tallied(y)
    BY <1>2, <1>5, <2>1 DEF Tallied, Last
  <2>3. ViewTallied(y)
    <3>1. y.op = "paginated" /\ (y.phase = "yield" \/ y.lastPage # None) => Known(y)
      BY <1>1, <1>2, <2>1, MeasuredRight
    <3>2. x.msgs # <<>> /\ y.msgs # <<>> => y.msgs = x.msgs
      BY <1>2, <2>1
    <3>3. \A vlv : Viewed(x, vlv) => Viewed(y, vlv)
      BY <1>4 DEF Viewed, ListsAll
    <3> QED
      BY <1>2, <1>4, <1>5, <2>1, <3>1, <3>2, <3>3 DEF ViewTallied
  <2>4. ViewAsked(y, d.server)
    BY <1>1, <1>2, <1>4, <1>5, <2>1 DEF ViewAsked, ListsAll
  <2>5. ViewGiven(y, d.response)
    BY <1>1, <1>2, <1>4, <1>5, <2>1 DEF ViewGiven, Viewed, ListsAll, Numbering
  <2> QED
    BY <1>3, <1>4, <1>5, <1>7, <2>1, <2>2, <2>3, <2>4, <2>5
<1> QED
  BY <1>6, <1>7

\* So does a call that begins, which has no numbers yet.
LEMMA StartedNumbered ==
  ASSUME TypeInv, GeneratorNumbered, Started
  PROVE  GeneratorNumbered'
<1>1. PICK f \in 1 .. 2, sorted \in BOOLEAN, unique \in BOOLEAN : \E op, ref :
        Starts(f, op, ref, sorted, unique)
  BY DEF Started
<1>2. PICK op, ref : Starts(f, op, ref, sorted, unique)
  BY <1>1
<1>3. CASE f = 1
  <2> DEFINE y == frames'[1]
             prepared == Prepared(op, Given(ref), sorted)
  <2>1. /\ Call(1, op, ref, sorted, unique) /\ BeginEffect(1, op, ref, sorted, unique)
        /\ Begun(1, ref) /\ dir' = dir
    BY <1>2, <1>3 DEF Starts
  <2>2. /\ y.op = op /\ y.ref = ref /\ y.phase = "ask" /\ y.out = <<>> /\ y.msgs = <<>>
        /\ y.page = 1 /\ y.entry = 0 /\ controls'[ref] = prepared
    BY <2>1 DEF BeginEffect
  <2>3. y.seen = dir /\ y.lastPage = None
    BY <2>1 DEF Begun
  <2>4. ref \in 0 .. 2
    BY <2>1 DEF Call
  <2>5. op = "paginated" => \A n \in DOMAIN prepared.server : prepared.server[n].type = "vlv" =>
          prepared.server[n].context = None
    BY <2>4, GivenFacts, PreparedFacts
  <2> HIDE DEF prepared
  <2>6. Rows(y)
    <3>1. DOMAIN <<>> = {}
      OBVIOUS
    <3> QED
      BY <2>2, <3>1 DEF Rows
  <2>7. Tallied(y)
    <3>1. Len(y.out) = Before(y) + y.entry
      <4>1. PageSize \in Nat /\ Len(<<>>) = 0
        BY ConstantsAssumption
      <4> QED
        BY <2>2, <4>1 DEF Before
    <3>2. y.entry <= PageSize
      BY <2>2, ConstantsAssumption
    <3> QED
      BY <2>2, <3>1, <3>2 DEF Tallied
  <2>8. ViewTallied(y) /\ ViewAsked(y, prepared.server) /\ ViewGiven(y, prepared.response)
    BY <2>2, <2>3, <2>5 DEF ViewTallied, ViewAsked, ViewGiven
  <2> QED
    BY <2>1, <2>2, <2>3, <2>6, <2>7, <2>8 DEF GeneratorNumbered
<1>4. CASE f = 2
  BY <1>2, <1>4, CallStill, StillNumbered
<1> QED
  BY <1>3, <1>4

\* What was read for a page is no longer than the page, and ends with the last message.
LEMMA AskPage ==
  ASSUME TypeInv, NEW a, AskEffect(1, a), frames[1].op = "paged"
  PROVE  LET y == frames'[1]
         IN Len(y.msgs) <= PageSize + 1 /\ Last(y).final
<1> DEFINE x == frames[1]
           y == frames'[1]
           list == controls[x.ref].server
           last == [found |-> <<>>, resp |-> a.resp, err |-> a.err, final |-> TRUE]
<1>1. x.phase = "ask" /\ y.msgs = Messages(a)
  BY DEF AskEffect, Iterates
<1>2. \E k \in DOMAIN list : list[k].type = "paged"
  BY <1>1 DEF TypeInv, Controlled, Open
<1>3. ServerOK /\ Request(list) /\ a \in Answers(list, None)
  BY AskRequest DEF Base
<1> HIDE DEF list
<1>4. Len(a.found) <= PageSize
  BY <1>2, <1>3, AnswerCounts
<1>5. a \in AnswerType
  BY AskAnswer
<1>6. /\ Len(y.msgs) = Len(a.found) + 1 /\ Len(a.found) \in Nat
      /\ y.msgs[Len(a.found) + 1] = last
  BY <1>1, <1>5, MessagesFacts
<1>7. last.final = TRUE
  OBVIOUS
<1> HIDE DEF last
<1> QED
  BY <1>4, <1>6, <1>7, ConstantsAssumption DEF Last

\* A page of the list has its share, and the list has all.
LEMMA AskShare ==
  ASSUME TypeInv, OrderInv, NEW a, AskEffect(1, a), a.err = "ok", frames[1].op = "paginated",
         frames[1].seen = dir, ViewAsked(frames[1], controls[frames[1].ref].server)
  PROVE  LET x == frames[1]
         IN Viewed(x, a.resp.vlv) /\ Len(a.found) = Share(Total(x), Before(x))
<1> DEFINE x == frames[1]
           list == controls[x.ref].server
           context == a.resp.vlv.context
<1>1. x.phase = "ask" /\ Open(x)
  BY DEF AskEffect, Open
<1>2. PICK k \in DOMAIN list : list[k].type = "vlv"
  BY <1>1 DEF TypeInv, Controlled
<1>3. list[k].at = Before(x) + 1
  <2>1. ControlAhead(x, list)
    BY DEF OrderInv
  <2> HIDE DEF list
  <2> QED
    BY <1>1, <1>2, <2>1 DEF ControlAhead, Before
<1>4. InWindow(a, list[k]) /\ NewList(a, list[k], dir)
  <2>1. Matches(Base(1)) = dir
    BY DEF Matches, Base
  <2>2. InWindow(a, list[k]) /\ NewList(a, list[k], Matches(Base(1)))
    BY <1>2, AskViews
  <2> QED
    BY <2>1, <2>2
<1>5. ServerOK /\ Request(list) /\ a \in Answers(list, None)
  BY AskRequest DEF Base
<1>6. list[k].context # None => ListsAll(x, list[k].context)
  BY <1>1, <1>2 DEF ViewAsked
<1> HIDE DEF list
<1>7. ListsAll(x, context)
  <2>1. CASE list[k].context # None
    BY <1>4, <1>6, <2>1 DEF InWindow
  <2>2. CASE list[k].context = None
    <3>1. Len(context) = Total(x)
      BY <1>4, <2>2 DEF NewList, Total
    <3>2. \A i \in DOMAIN context : context[i] \in dir
      BY <1>2, <1>5, <2>2, NewListThere
    <3> QED
      BY <3>1, <3>2 DEF ListsAll
  <2> QED
    BY <2>1, <2>2
<1>8. a.resp.vlv.count = Total(x)
  BY <1>4, <1>7 DEF InWindow, ListsAll
<1>9. Len(a.found) = Share(Total(x), Before(x))
  <2>1. Len(a.found) = Share(Len(context), list[k].at - 1)
    BY <1>2, <1>5, <1>7, AnswerCounts DEF ListsAll
  <2>2. list[k].at - 1 = Before(x)
    BY <1>3, FrameFacts, BeforeFacts
  <2> QED
    BY <1>7, <2>1, <2>2 DEF ListsAll
<1> QED
  BY <1>7, <1>8, <1>9 DEF Viewed

\* An answer to the generator keeps the numbers.
LEMMA GeneratorAskNumbered ==
  ASSUME TypeInv, OrderInv, GeneratorNumbered, NEW a, AskEffect(1, a), GoesOn(1)
  PROVE  GeneratorNumbered'
<1> DEFINE x == frames[1]
           y == frames'[1]
           c == controls[x.ref]
<1>1. /\ x.phase = "ask" /\ y.phase = "poll" /\ y.op = x.op /\ y.ref = x.ref /\ y.out = x.out
      /\ y.page = x.page /\ y.entry = x.entry /\ controls' = controls /\ dir' = dir
      /\ y.msgs = IF x.op \in Iterates THEN Messages(a) ELSE Whole(a)
  BY DEF AskEffect
<1> SUFFICES ASSUME Numbering(y)
             PROVE  Rows(y) /\ y.seen = dir /\ Tallied(y) /\ ViewTallied(y)
  BY <1>1 DEF GeneratorNumbered, ViewAsked, ViewGiven
<1>2. Goes(1, x, y) /\ Open(x)
  BY <1>1 DEF GoesOn, Open
<1>3. Numbering(x) /\ y.seen = x.seen /\ Total(y) = Total(x) /\ Before(y) = Before(x)
  BY <1>1, <1>2, NumberingBefore DEF Before
<1>4. Rows(x) /\ x.seen = dir /\ Tallied(x) /\ ViewAsked(x, c.server)
  BY <1>2, <1>3 DEF GeneratorNumbered
<1>5. Rows(y)
  BY <1>1, <1>2, <1>3, <1>4, RowsKept
<1>6. x.entry = 0
  BY <1>1, <1>4 DEF Tallied
<1>7. Tallied(y)
  <2>1. Len(y.out) = Before(y) + y.entry /\ y.entry <= PageSize
    BY <1>1, <1>3, <1>4 DEF Tallied
  <2>2. ASSUME y.op = "paged"
        PROVE  Last(y).final /\ y.entry + Len(y.msgs) <= PageSize + 1
    <3>1. Len(y.msgs) <= PageSize + 1 /\ Last(y).final
      BY <1>1, <2>2, AskPage
    <3>2. y.entry + Len(y.msgs) = Len(y.msgs)
      <4>1. Len(y.msgs) \in Nat
        <5>1. a \in AnswerType
          BY AskAnswer
        <5>2. y.msgs \in Seq(Reply)
          BY <1>1, <5>1, MessagesFacts, WholeFacts
        <5> QED
          BY <5>2
      <4> QED
        BY <1>1, <1>6, <4>1
    <3> QED
      BY <3>1, <3>2
  <2> QED
    BY <1>1, <2>1, <2>2 DEF Tallied
<1>8. ViewTallied(y)
  <2> SUFFICES ASSUME y.op = "paginated"
               PROVE  /\ y.entry = 0
                      /\ y.lastPage # None => Known(y)
                      /\ y.msgs # <<>> /\ y.msgs[1].err = "ok" =>
                           Viewed(y, y.msgs[1].resp.vlv)
                           /\ Len(y.msgs[1].found) = Share(Total(y), Before(y))
    BY <1>1 DEF ViewTallied
  <2>1. y.lastPage # None => Known(y)
    BY <1>2, MeasuredRight
  <2>2. y.msgs[1].found = a.found /\ y.msgs[1].resp = a.resp /\ y.msgs[1].err = a.err
    <3>1. y.msgs = Whole(a)
      BY <1>1 DEF Iterates
    <3> QED
      BY <3>1, AskAnswer, WholeFacts
  <2>3. a.err = "ok" => Viewed(x, a.resp.vlv) /\ Len(a.found) = Share(Total(x), Before(x))
    BY <1>1, <1>4, AskShare
  <2> QED
    BY <1>1, <1>3, <1>6, <2>1, <2>2, <2>3 DEF Viewed, ListsAll
<1> QED
  BY <1>3, <1>4, <1>5, <1>7, <1>8

\* The same of one to the call.
LEMMA AskNumbered ==
  ASSUME TypeInv, OrderInv, GeneratorNumbered, Asks, GoesOn(1)
  PROVE  GeneratorNumbered'
<1>1. PICK f \in 1 .. 2 : \E a : AskEffect(f, a)
  BY DEF Asks
<1>2. PICK a : AskEffect(f, a)
  BY <1>1
<1>3. CASE f = 1
  BY <1>2, <1>3, GeneratorAskNumbered
<1>4. CASE f = 2
  BY <1>2, <1>4, AskStill, StillNumbered
<1> QED
  BY <1>3, <1>4

\* The end of the generator.
LEMMA EndsNumbered ==
  ASSUME GeneratorNumbered, Ends, GoesOn(1)
  PROVE  GeneratorNumbered'
<1> DEFINE x == frames[1]
           y == frames'[1]
<1>1. y.phase = "done" /\ y.out = x.out /\ Goes(1, x, y)
  BY DEF Ends, Quiet, GoesOn
<1>2. Numbering(y) => Rows(y)
  BY <1>1, NumberingBefore, RowsKept DEF GeneratorNumbered
<1> QED
  BY <1>1, <1>2 DEF GeneratorNumbered, Open

\* search() has no numbers.
LEMMA ReturnedNumbered ==
  ASSUME TypeInv, CompleteInv, GeneratorNumbered, Returned, GoesOn(1)
  PROVE  GeneratorNumbered'
<1>1. PICK f \in 1 .. 2 : ReturnsEffect(f)
  BY DEF Returned
<1>2. CASE f = 1
  <2>1. frames'[1].op \in {"search", "get"}
    BY <1>1, <1>2 DEF ReturnsEffect
  <2> QED
    BY <2>1 DEF GeneratorNumbered, Numbering
<1>3. CASE f = 2
  BY <1>1, <1>3, ReturnsStill, StillNumbered DEF CompleteInv
<1> QED
  BY <1>2, <1>3

\* Counts are numbers.
LEMMA OutNumbers ==
  ASSUME NEW x \in Frame
  PROVE  x.entry \in Nat /\ Len(x.out) \in Nat
<1>1. x.entry \in Nat /\ x.out \in Seq(Out)
  BY DEF Frame
<1> QED
  BY <1>1

\* An entry of a page of search_paged() has the next number.
LEMMA EntryYieldsNumbered ==
  ASSUME TypeInv, GeneratorNumbered, EntryYields, GoesOn(1)
  PROVE  GeneratorNumbered'
<1> DEFINE x == frames[1]
           y == frames'[1]
<1>1. /\ x.phase = "poll" /\ x.op \in Iterates /\ x.msgs # <<>> /\ ~Message(1).final
      /\ y.phase = "yield" /\ y.entry = x.entry + 1 /\ YieldedOut(x, y, Message(1).found[1])
      /\ y.op = x.op /\ y.page = x.page /\ y.msgs = Tail(x.msgs) /\ dir' = dir
  BY DEF EntryYields, YieldEffect
<1> SUFFICES ASSUME Numbering(y)
             PROVE  Rows(y) /\ y.seen = dir /\ Tallied(y)
  BY <1>1 DEF GeneratorNumbered, ViewTallied, ViewAsked, ViewGiven, Iterates
<1>2. Goes(1, x, y) /\ Open(x) /\ x \in Frame
  BY <1>1, FrameFacts DEF GoesOn, Open
<1>3. Numbering(x) /\ y.seen = x.seen /\ Before(y) = Before(x)
  BY <1>1, <1>2, NumberingBefore DEF Before
<1>4. Rows(x) /\ x.seen = dir /\ Tallied(x) /\ x.op = "paged"
  BY <1>1, <1>2, <1>3 DEF GeneratorNumbered, Numbering, Iterates
<1>5. /\ Len(y.msgs) = Len(x.msgs) - 1 /\ Len(x.msgs) \in Nat \ {0}
      /\ y.msgs # <<>> => Last(y) = Last(x)
  BY <1>1, <1>2, TailMessages
<1>6. Len(x.msgs) > 1
  <2>1. Message(1) = x.msgs[1]
    BY <1>1, FrameFacts, MessageFacts
  <2>2. Last(x).final
    BY <1>1, <1>4 DEF Tallied
  <2>3. Len(x.msgs) # 1
    BY <1>1, <2>1, <2>2 DEF Last
  <2> DEFINE k == Len(x.msgs)
  <2>4. k \in Nat \ {0} /\ k # 1
    BY <1>5, <2>3
  <2> HIDE DEF k
  <2>5. k > 1
    BY <2>4
  <2> QED
    BY <2>5 DEF k
<1>7. x.entry \in Nat /\ PageSize \in Nat /\ Before(x) \in Nat /\ Len(x.out) \in Nat
  BY <1>2, OutNumbers, BeforeFacts, ConstantsAssumption
<1>8. Len(x.out) = Before(x) + x.entry /\ x.entry + Len(x.msgs) <= PageSize + 1
  BY <1>1, <1>4 DEF Tallied
<1>9. x.entry + 1 <= PageSize /\ y.entry + Len(y.msgs) <= PageSize + 1
  <2> DEFINE k == Len(x.msgs)
             n == x.entry
             size == PageSize
  <2>1. k \in Nat /\ k > 1 /\ n \in Nat /\ size \in Nat /\ n + k <= size + 1
    BY <1>5, <1>6, <1>7, <1>8
  <2>2. y.entry = n + 1 /\ Len(y.msgs) = k - 1
    BY <1>1, <1>5
  <2> HIDE DEF k, n, size
  <2>3. n + 1 <= size /\ (n + 1) + (k - 1) <= size + 1
    BY <2>1
  <2> QED
    BY <2>2, <2>3 DEF n, size
<1>10. Rows(y)
  BY <1>1, <1>2, <1>4, <1>8, <1>9, RowsMore
<1>11. Len(y.out) = Before(y) + y.entry
  BY <1>1, <1>3, <1>7, <1>8 DEF YieldedOut
<1>12. Tallied(y)
  BY <1>1, <1>4, <1>5, <1>9, <1>11 DEF Tallied
<1> QED
  BY <1>3, <1>4, <1>10, <1>12

\* So has one of search_paginated(), of a page that has it among its share.
LEMMA ViewYieldsNumbered ==
  ASSUME TypeInv, GeneratorNumbered, GoesOn(1), Numbering(frames'[1]), Numbering(frames[1]),
         frames[1].op = "paginated", frames[1].phase \in {"poll", "yield"},
         NEW s \in Seq(Entries), s # <<>>,
         frames[1].entry + Len(s) = Share(Total(frames[1]), Before(frames[1])),
         YieldEffect(s[1], <<>>, Tail(s))
  PROVE  Rows(frames'[1]) /\ frames'[1].seen = dir' /\ Tallied(frames'[1]) /\ ViewTallied(frames'[1])
<1> DEFINE x == frames[1]
           y == frames'[1]
           share == Share(Total(x), Before(x))
<1>1. /\ y.phase = "yield" /\ y.entry = x.entry + 1 /\ YieldedOut(x, y, s[1])
      /\ y.op = x.op /\ y.page = x.page /\ y.msgs = <<>> /\ y.left = Tail(s) /\ dir' = dir
  BY DEF YieldEffect
<1>2. Goes(1, x, y) /\ Open(x) /\ x \in Frame
  BY FrameFacts DEF GoesOn, Open
<1>3. y.seen = x.seen /\ Before(y) = Before(x) /\ Total(y) = Total(x)
  BY <1>1, <1>2, NumberingBefore DEF Before
<1>4. Rows(x) /\ x.seen = dir /\ Tallied(x)
  BY <1>2 DEF GeneratorNumbered
<1>5. Len(Tail(s)) = Len(s) - 1 /\ Len(s) \in Nat \ {0}
  BY HeadTailProperties
<1>6. /\ x.entry \in Nat /\ PageSize \in Nat /\ Before(x) \in Nat /\ Len(x.out) \in Nat
      /\ Total(x) \in Nat
  BY <1>2, OutNumbers, BeforeFacts, TotalFacts, ConstantsAssumption
<1>7. share \in Nat /\ share <= PageSize /\ (share > 0 => Before(x) < Total(x))
  BY <1>6, ShareFacts
<1>8. x.entry + Len(s) = share
  OBVIOUS
<1> HIDE DEF share
<1>9. x.entry + 1 <= PageSize /\ Before(x) < Total(x) /\ y.entry + Len(y.left) = share
  <2> DEFINE k == Len(s)
  <2>1. y.entry + Len(y.left) = (x.entry + 1) + (k - 1) /\ k \in Nat \ {0} /\ x.entry + k = share
    BY <1>1, <1>5, <1>8
  <2> HIDE DEF k
  <2>2. x.entry + 1 <= share /\ share > 0 /\ (x.entry + 1) + (k - 1) = share
    <3> DEFINE n == x.entry
    <3>1. n \in Nat /\ k \in Nat \ {0} /\ n + k = share
      BY <1>6, <2>1
    <3> HIDE DEF n
    <3>2. n + 1 <= share /\ share > 0 /\ (n + 1) + (k - 1) = share
      BY <3>1
    <3> QED
      BY <3>2 DEF n
  <2>3. Before(x) < Total(x)
    BY <1>7, <2>2
  <2>4. x.entry + 1 <= PageSize
    <3> DEFINE n == x.entry
    <3>1. n \in Nat /\ n + 1 <= share /\ share \in Nat /\ share <= PageSize /\ PageSize \in Nat
      BY <1>6, <1>7, <2>2
    <3> HIDE DEF n
    <3>2. n + 1 <= PageSize
      BY <3>1
    <3> QED
      BY <3>2 DEF n
  <2> QED
    BY <2>1, <2>2, <2>3, <2>4
<1>10. Known(y)
  BY <1>1, <1>2, MeasuredRight
<1>11. Len(x.out) = Before(x) + x.entry
  BY <1>4 DEF Tallied
<1>12. Rows(y)
  BY <1>1, <1>2, <1>4, <1>9, <1>10, <1>11, RowsMore
<1>13. Len(y.out) = Before(y) + y.entry /\ y.entry <= PageSize
  BY <1>1, <1>3, <1>6, <1>9, <1>11 DEF YieldedOut
<1>14. Tallied(y)
  BY <1>1, <1>13 DEF Tallied
<1>15. ViewTallied(y)
  <2>1. y.entry > 0
    BY <1>1, <1>6
  <2> QED
    BY <1>1, <1>3, <1>9, <1>10, <2>1 DEF ViewTallied, share
<1> QED
  BY <1>1, <1>3, <1>4, <1>12, <1>14, <1>15

\* The next entry of its page,
LEMMA EntryResumesNumbered ==
  ASSUME TypeInv, GeneratorNumbered, EntryResumes, GoesOn(1)
  PROVE  GeneratorNumbered'
<1> DEFINE x == frames[1]
           y == frames'[1]
           c == controls[x.ref]
<1>1. /\ x.phase = "yield" /\ x.op = "paginated" /\ x.msgs = <<>> /\ x.left # <<>>
      /\ controls' = controls /\ YieldEffect(x.left[1], <<>>, Tail(x.left))
      /\ y.phase = "yield" /\ y.op = x.op /\ y.ref = x.ref
  BY DEF EntryResumes, YieldEffect
<1> SUFFICES ASSUME Numbering(y)
             PROVE  Rows(y) /\ y.seen = dir' /\ Tallied(y) /\ ViewTallied(y) /\ ViewGiven(y, c.response)
  BY <1>1 DEF GeneratorNumbered, ViewAsked
<1>2. Goes(1, x, y) /\ Open(x) /\ x \in Frame
  BY <1>1, FrameFacts DEF GoesOn, Open
<1>3. Numbering(x) /\ y.seen = x.seen /\ Total(y) = Total(x)
  BY <1>2, NumberingBefore
<1>4. ViewTallied(x) /\ ViewGiven(x, c.response)
  BY <1>2, <1>3 DEF GeneratorNumbered
<1>5. x.left \in Seq(Entries) /\ x.entry + Len(x.left) = Share(Total(x), Before(x))
  BY <1>1, <1>2, <1>4 DEF ViewTallied, Frame
<1>6. Rows(y) /\ y.seen = dir' /\ Tallied(y) /\ ViewTallied(y)
  BY <1>1, <1>3, <1>5, ViewYieldsNumbered
<1>7. ViewGiven(y, c.response)
  BY <1>1, <1>3, <1>4 DEF ViewGiven, Viewed, ListsAll
<1> QED
  BY <1>6, <1>7

\* and the first.
LEMMA PageYieldsNumbered ==
  ASSUME TypeInv, GeneratorNumbered, PageYields, GoesOn(1)
  PROVE  GeneratorNumbered'
<1> DEFINE x == frames[1]
           y == frames'[1]
           m == Message(1)
<1>1. /\ x.phase = "poll" /\ x.op = "paginated" /\ x.msgs # <<>> /\ m.err = "ok" /\ m.found # <<>>
      /\ Controlling(1, Received(1)) /\ YieldEffect(m.found[1], <<>>, Tail(m.found))
      /\ y.phase = "yield" /\ y.op = x.op /\ y.ref = x.ref
  BY DEF PageYields, YieldEffect, Accepted
<1>2. m = x.msgs[1] /\ m.found \in Seq(Entries) /\ controls'[x.ref].response = m.resp
  BY <1>1, FrameFacts, MessageFacts, ReceivedFacts DEF Reply
<1> HIDE DEF m
<1> SUFFICES ASSUME Numbering(y)
             PROVE  Rows(y) /\ y.seen = dir' /\ Tallied(y) /\ ViewTallied(y) /\ ViewGiven(y, m.resp)
  BY <1>1, <1>2 DEF GeneratorNumbered, ViewAsked
<1>3. Goes(1, x, y) /\ Open(x) /\ x \in Frame
  BY <1>1, FrameFacts DEF GoesOn, Open
<1>4. Numbering(x) /\ y.seen = x.seen /\ Total(y) = Total(x)
  BY <1>3, NumberingBefore
<1>5. ViewTallied(x)
  BY <1>3, <1>4 DEF GeneratorNumbered
<1>6. x.entry = 0 /\ Viewed(x, m.resp.vlv) /\ Len(m.found) = Share(Total(x), Before(x))
  BY <1>1, <1>2, <1>5 DEF ViewTallied
<1>7. x.entry + Len(m.found) = Share(Total(x), Before(x))
  <2>1. Len(m.found) \in Nat
    BY <1>2
  <2> QED
    BY <1>6, <2>1
<1>8. Rows(y) /\ y.seen = dir' /\ Tallied(y) /\ ViewTallied(y)
  BY <1>1, <1>2, <1>4, <1>7, ViewYieldsNumbered
<1>9. ViewGiven(y, m.resp)
  BY <1>4, <1>6 DEF ViewGiven, Viewed, ListsAll
<1> QED
  BY <1>8, <1>9

\* A page of search_paged() that is not the last is full.
LEMMA PageTurnsNumbered ==
  ASSUME TypeInv, CompleteInv, GeneratorNumbered, PageTurns, GoesOn(1)
  PROVE  GeneratorNumbered'
<1> DEFINE x == frames[1]
           y == frames'[1]
<1>1. /\ x.phase = "poll" /\ x.op = "paged" /\ x.msgs # <<>> /\ Message(1).final
      /\ Message(1).resp.paged # None
      /\ y.phase = "ask" /\ y.entry = 0 /\ y.msgs = <<>> /\ y.out = x.out /\ y.op = x.op
      /\ y.page = x.page + 1 /\ dir' = dir
  BY DEF PageTurns, TurnEffect
<1> SUFFICES ASSUME Numbering(y)
             PROVE  Rows(y) /\ y.seen = dir /\ Tallied(y)
  BY <1>1 DEF GeneratorNumbered, ViewTallied, ViewAsked, ViewGiven
<1>2. Goes(1, x, y) /\ Open(x) /\ x \in Frame
  BY <1>1, FrameFacts DEF GoesOn, Open
<1>3. Numbering(x) /\ y.seen = x.seen
  BY <1>2, NumberingBefore
<1>4. Rows(x) /\ x.seen = dir /\ Tallied(x)
  BY <1>2, <1>3 DEF GeneratorNumbered
<1>5. Rows(y)
  BY <1>1, <1>2, <1>4, RowsKept
<1>6. Filled(x)
  BY DEF CompleteInv, GeneratorComplete
<1>7. Last(x) = Message(1) /\ Len(x.msgs) = 1
  BY <1>1, <1>6, LastMessage
<1>8. x.entry + 1 > PageSize
  BY <1>1, <1>6, <1>7 DEF Filled, Iterates
<1>9. x.entry <= PageSize /\ x.entry \in Nat /\ PageSize \in Nat
  BY <1>2, <1>4, ConstantsAssumption DEF Tallied, Frame
<1>10. x.entry = PageSize
  BY <1>8, <1>9
<1>11. Before(x) \in Nat /\ Before(y) = Before(x) + PageSize
  BY <1>1, <1>2, BeforeFacts
<1>12. Len(y.out) = Before(y) + y.entry
  BY <1>1, <1>4, <1>9, <1>10, <1>11 DEF Tallied
<1> QED
  BY <1>1, <1>3, <1>4, <1>5, <1>9, <1>12 DEF Tallied

\* search_paginated() asks for a page that begins at the end of the list or before.
LEMMA WindowTurnsBefore ==
  ASSUME TypeInv, WindowTurns
  PROVE  /\ frames'[1].page = frames[1].page + 1 /\ frames'[1].page > 1
         /\ ~(Before(frames'[1]) > controls[frames[1].ref].response.vlv.count)
<1> DEFINE p == frames[1].page
           q == frames'[1].page
           count == controls[frames[1].ref].response.vlv.count
<1>1. q = p + 1 /\ p \in Nat \ {0}
  <2>1. q = p + 1
    BY DEF WindowTurns, TurnEffect
  <2>2. p \in Nat \ {0}
    BY FrameFacts, FrameNumbers
  <2> QED
    BY <2>1, <2>2
<1>2. ~(p * PageSize > count)
  BY DEF WindowTurns, EndReached
<1>3. Before(frames'[1]) = (q - 1) * PageSize
  BY DEF Before
<1> HIDE DEF p, q, count
<1>4. q - 1 = p /\ q > 1
  BY <1>1
<1>5. ~((q - 1) * PageSize > count)
  BY <1>2, <1>4
<1> QED
  BY <1>1, <1>3, <1>4, <1>5 DEF p, q, count

\* So is one of search_paginated(): its window does not reach the end of the list.
LEMMA WindowTurnsNumbered ==
  ASSUME TypeInv, GeneratorNumbered, WindowTurns, GoesOn(1)
  PROVE  GeneratorNumbered'
<1> DEFINE x == frames[1]
           y == frames'[1]
           vlv == controls[x.ref].response.vlv
           new == controls'[x.ref].server
<1>1. /\ x.phase = "yield" /\ x.op = "paginated" /\ x.left = <<>> /\ vlv # None
      /\ y.phase = "ask" /\ y.entry = 0 /\ y.msgs = <<>> /\ y.out = x.out /\ y.op = x.op
      /\ y.ref = x.ref /\ y.page = x.page + 1 /\ dir' = dir
      /\ \A n \in DOMAIN new : new[n].type = "vlv" => new[n].context = vlv.context
  BY DEF WindowTurns, TurnEffect
<1> SUFFICES ASSUME Numbering(y)
             PROVE  Rows(y) /\ y.seen = dir /\ Tallied(y) /\ ViewTallied(y) /\ ViewAsked(y, new)
  BY <1>1 DEF GeneratorNumbered, ViewGiven
<1>2. Goes(1, x, y) /\ Open(x) /\ x \in Frame
  BY <1>1, FrameFacts DEF GoesOn, Open
<1>3. Numbering(x) /\ y.seen = x.seen /\ Total(y) = Total(x)
  BY <1>2, NumberingBefore
<1>4. Rows(x) /\ x.seen = dir /\ Tallied(x) /\ ViewTallied(x) /\ ViewGiven(x, controls[x.ref].response)
  BY <1>2, <1>3 DEF GeneratorNumbered
<1>5. Rows(y)
  BY <1>1, <1>2, <1>4, RowsKept
<1>6. Viewed(x, vlv)
  BY <1>1, <1>4 DEF ViewGiven
<1>7. Before(x) \in Nat /\ Before(y) = Before(x) + PageSize /\ PageSize \in Nat /\ x.entry \in Nat
      /\ Total(x) \in Nat
  BY <1>1, <1>2, BeforeFacts, TotalFacts, ConstantsAssumption DEF Frame
<1>8. Before(x) + PageSize <= Total(x)
  <2> DEFINE before == Before(x)
             total == Total(x)
  <2>1. ~(Before(y) > Total(x))
    BY <1>6, WindowTurnsBefore DEF Viewed
  <2>2. before \in Nat /\ PageSize \in Nat /\ total \in Nat /\ ~(before + PageSize > total)
    BY <1>7, <2>1
  <2> HIDE DEF before, total
  <2>3. before + PageSize <= total
    BY <2>2
  <2> QED
    BY <2>3 DEF before, total
<1>9. x.entry = PageSize
  <2>1. Share(Total(x), Before(x)) = PageSize
    BY <1>7, <1>8, ShareFacts
  <2>2. x.entry + Len(<<>>) = Share(Total(x), Before(x)) /\ Len(<<>>) = 0
    BY <1>1, <1>4 DEF ViewTallied
  <2> DEFINE n == x.entry
  <2>3. n \in Nat /\ n + Len(<<>>) = PageSize /\ Len(<<>>) = 0
    BY <1>7, <2>1, <2>2
  <2> HIDE DEF n
  <2>4. n = PageSize
    BY <2>3
  <2> QED
    BY <2>4 DEF n
<1>10. Len(y.out) = Before(y) + y.entry /\ y.entry <= PageSize
  BY <1>1, <1>4, <1>7, <1>9 DEF Tallied
<1>11. Tallied(y)
  BY <1>1, <1>10 DEF Tallied
<1>12. ViewTallied(y)
  <2>1. y.lastPage # None => Known(y)
    BY <1>1, <1>2, MeasuredRight
  <2> QED
    BY <1>1, <2>1 DEF ViewTallied
<1>13. ViewAsked(y, new)
  BY <1>1, <1>3, <1>6 DEF ViewAsked, Viewed, ListsAll
<1> QED
  BY <1>3, <1>4, <1>5, <1>11, <1>12, <1>13

\* Every step keeps the numbers.
LEMMA NumberedStep ==
  ASSUME TypeInv, OrderInv, CompleteInv, GeneratorNumbered, [Next]_vars
  PROVE  GeneratorNumbered'
<1>1. Started \/ (Progress /\ \A g \in 1 .. 2 : GoesOn(g))
  BY NextGoesOn
<1>2. CASE Started
  BY <1>2, StartedNumbered
<1>3. ASSUME Progress, GoesOn(1)
      PROVE  GeneratorNumbered'
  <2>1. CASE QuietStep
    BY <1>3, <2>1, QuietStill, StillNumbered DEF CompleteInv
  <2>2. CASE Asks
    BY <1>3, <2>2, AskNumbered
  <2>3. CASE Returned
    BY <1>3, <2>3, ReturnedNumbered
  <2>4. CASE EntryYields
    BY <1>3, <2>4, EntryYieldsNumbered
  <2>5. CASE EntryResumes
    BY <1>3, <2>5, EntryResumesNumbered
  <2>6. CASE PageTurns
    BY <1>3, <2>6, PageTurnsNumbered
  <2>7. CASE PageYields
    BY <1>3, <2>7, PageYieldsNumbered
  <2>8. CASE WindowTurns
    BY <1>3, <2>8, WindowTurnsNumbered
  <2>9. CASE Ends
    BY <1>3, <2>9, EndsNumbered
  <2> QED
    BY <1>3, <2>1, <2>2, <2>3, <2>4, <2>5, <2>6, <2>7, <2>8, <2>9 DEF Progress
<1> QED
  BY <1>1, <1>2, <1>3

\* The numbers of the results of search_paged() and search_paginated() (655-668, 701-705) are right,
\* if the entries stay as they are: each result is the next one of its page, a new page begins where
\* the one before is full, and search_paginated() gives the right total and last page with every
\* result.  Not so if its Controls were used before, or by a get() meanwhile.
THEOREM NumbersAreRight == Spec => []Numbered
<1>1. Init => TypeInv /\ OrderInv /\ CompleteInv /\ GeneratorNumbered
  <2> SUFFICES ASSUME Init
               PROVE  TypeInv /\ OrderInv /\ CompleteInv /\ GeneratorNumbered
    OBVIOUS
  <2>1. frames[1].op = "none"
    BY DEF Init, NoFrame
  <2> QED
    BY <2>1, InitType, InitOrder, InitComplete DEF GeneratorNumbered, Numbering
<1>2. TypeInv /\ OrderInv /\ CompleteInv /\ GeneratorNumbered /\ [Next]_vars =>
        TypeInv' /\ OrderInv' /\ CompleteInv' /\ GeneratorNumbered'
  BY NextMoves, OrderStep, CompleteStep, NumberedStep
<1>3. TypeInv /\ GeneratorNumbered => Numbered
  <2> SUFFICES ASSUME TypeInv, GeneratorNumbered, NEW f \in 1 .. 2, frames[f].calm, frames[f].fresh,
                      "controls" \notin frames[f].meddled, NEW n \in DOMAIN frames[f].out,
                      frames[f].op \in {"paged", "paginated"}
               PROVE  LET r == frames[f].out[n]
                      IN /\ (r.page - 1) * PageSize + r.entry = n /\ r.entry \in 1 .. PageSize
                         /\ frames[f].op = "paginated" =>
                              /\ r.results = Cardinality(frames[f].seen)
                              /\ r.page <= r.lastPage /\ (r.lastPage - 1) * PageSize < r.results
    BY DEF Numbered
  <2>1. f = 1
    BY DEF TypeInv, Roles
  <2>2. Row(frames[1], frames[1].out[n], n)
    BY <2>1 DEF GeneratorNumbered, Numbering, Rows
  <2> QED
    BY <2>1, <2>2 DEF Row, Total
<1> QED
  BY <1>1, <1>2, <1>3, PTL DEF Spec

-----------------------------------------------------------------------------
(***************************************************************************)
(* How a search ends: what it asks for is what the server's session has.   *)
(***************************************************************************)
\* A search that nothing has disturbed, and one that the session at the server is of.
Well(x) == x.calm /\ x.fresh /\ x.meddled = {}
InSession(x) == x.phase \in {"poll", "yield"} \/ (x.phase = "ask" /\ x.page > 1)

\* The control of a request that is not for the order: one at most, and for these pages.
PagesBy(op) == IF op = "paged" THEN "paged" ELSE IF op = "paginated" THEN "vlv" ELSE "sss"
Sole(list, type) ==
  \A j, k \in DOMAIN list : list[j].type # "sss" /\ list[k].type # "sss" => list[j].type = type /\ j = k

\* The session lasts, as nobody is about to reconnect.
Served(x) == InSession(x) => link = "up" /\ ~x.sleeping /\ (Working(2) => ~frames[2].sleeping)

\* The cookie of the next request, or of the response that it will be made of, is the session's.
CookieKnown(x, list) ==
  x.op = "paged" =>
    /\ x.phase = "ask" => \A k \in DOMAIN list : list[k].type = "paged" /\ list[k].at # None =>
                            x.page > 1 /\ list[k].at = after
    /\ x.msgs # <<>> /\ Last(x).resp.paged # None => Last(x).resp.paged = after

\* So is the list, and the page begins at the end of it or before.
ListKnown(x, list) ==
  x.op = "paginated" =>
    /\ x.phase = "ask" => /\ Before(x) <= Total(x)
                          /\ \A k \in DOMAIN list : list[k].type = "vlv" /\ list[k].context # None =>
                               x.page > 1 /\ list[k].context = view
    /\ x.msgs # <<>> /\ x.msgs[1].err = "ok" => x.msgs[1].resp.vlv.context = view
ViewKnown(x, resp) ==
  x.op = "paginated" /\ x.phase = "yield" => resp.vlv # None /\ resp.vlv.context = view

\* The server has refused nothing but a page behind the end of the list.
Answered(x) ==
  \A k \in DOMAIN x.msgs : x.msgs[k].err = "ok" \/ (x.msgs[k].err = "vlvError" /\ Full(x))

GeneratorWell ==
  LET x == frames[1]
      c == controls[x.ref]
  IN Well(x) /\ Open(x) =>
       /\ Served(x) /\ Sole(c.server, PagesBy(x.op)) /\ Answered(x)
       /\ CookieKnown(x, c.server) /\ ListKnown(x, c.server) /\ ViewKnown(x, c.response)

\* A get() pages only with controls of the program's, which is marked.
CallWell ==
  Working(2) =>
    LET list == controls[frames[2].ref].server
    IN /\ frames[2].fresh => /\ list = <<>>
                             /\ \A k \in DOMAIN frames[2].msgs :
                                  frames[2].msgs[k].err \in {"ok", "noSuchObject"}
       /\ "server" \notin frames[1].meddled => Plain(list)

(***************************************************************************)
(* The server's answers to a request with one such control, or none.       *)
(***************************************************************************)
LEMMA SolePicked ==
  ASSUME NEW list, Request(list), NEW type, Sole(list, type), NEW k \in DOMAIN list, list[k].type = type,
         type # "sss"
  PROVE  /\ Len(OfType(list, type)) = 1 /\ OfType(list, type)[1] = list[k]
         /\ \A other : other # "sss" /\ other # type => OfType(list, other) = <<>>
<1> DEFINE ns == {n \in DOMAIN list : list[n].type = type}
<1>1. list \in Seq(Control) /\ ns \in SUBSET DOMAIN list
  BY DEF Request
<1>2. ns = {k}
  BY DEF Sole
<1>3. Cardinality({k}) = 1
  BY FS_Singleton
<1>4. OfType(list, type) = Picked(list, ns)
  BY DEF OfType
<1> HIDE DEF ns
<1>8. Len(Picked(list, ns)) = Cardinality(ns)
  BY <1>1, PickedFacts
<1>5. Len(OfType(list, type)) = 1
  BY <1>2, <1>3, <1>4, <1>8
<1>6. OfType(list, type)[1] = list[k]
  <2> DEFINE len == Len(OfType(list, type))
  <2>1. len <= 1 => OfType(list, type)[1] = list[k]
    BY OfTypeFacts
  <2>2. len = 1
    BY <1>5
  <2> HIDE DEF len
  <2>3. len <= 1
    BY <2>2
  <2> QED
    BY <2>1, <2>3
<1>7. \A other : other # "sss" /\ other # type => OfType(list, other) = <<>>
  <2> SUFFICES ASSUME NEW other, other # "sss", other # type, OfType(list, other) # <<>>
               PROVE  FALSE
    OBVIOUS
  <2>1. PICK j \in DOMAIN list : list[j].type = other
    BY OfTypeFacts
  <2> QED
    BY <2>1 DEF Sole
<1> QED
  BY <1>5, <1>6, <1>7

LEMMA SoleAnswers ==
  ASSUME ServerOK, NEW list, Request(list), NEW type, Sole(list, type), NEW k \in DOMAIN list,
         list[k].type = type, NEW a \in Answers(list, None)
  PROVE  /\ type = "paged" => a \in PagedAnswers(list[k].at, dir)
         /\ type = "vlv" => a \in ViewAnswers(list[k], dir)
<1> DEFINE paged == OfType(list, "paged")
           vlv == OfType(list, "vlv")
<1>1. a \in IF Len(paged) + Len(vlv) > 1 THEN {Refusal("protocolError")}
            ELSE IF paged # <<>> THEN PagedAnswers(paged[1].at, dir)
            ELSE IF vlv # <<>> THEN ViewAnswers(vlv[1], dir)
            ELSE {Answer(Sorted(dir), NoResponse, "ok", after, view)}
  BY DEF Answers
<1>2. Len(<<>>) = 0
  OBVIOUS
<1>3. type = "paged" => Len(paged) = 1 /\ paged[1] = list[k] /\ vlv = <<>>
  BY SolePicked
<1>4. type = "vlv" => Len(vlv) = 1 /\ vlv[1] = list[k] /\ paged = <<>>
  BY SolePicked
<1> HIDE DEF paged, vlv
<1>5. ASSUME type = "paged"
      PROVE  a \in PagedAnswers(list[k].at, dir)
  <2>1. ~(Len(paged) + Len(vlv) > 1) /\ paged # <<>>
    <3>1. Len(paged) = 1 /\ Len(vlv) = 0
      BY <1>2, <1>3, <1>5, Zenon
    <3>2. ~(Len(paged) + Len(vlv) > 1)
      BY <3>1
    <3> QED
      BY <1>2, <3>1, <3>2
  <2> QED
    BY <1>1, <1>3, <1>5, <2>1
<1>6. ASSUME type = "vlv"
      PROVE  a \in ViewAnswers(list[k], dir)
  <2>1. ~(Len(paged) + Len(vlv) > 1) /\ vlv # <<>>
    <3>1. Len(vlv) = 1 /\ Len(paged) = 0
      BY <1>2, <1>4, <1>6, Zenon
    <3>2. ~(Len(paged) + Len(vlv) > 1)
      BY <3>1
    <3> QED
      BY <1>2, <3>1, <3>2
  <2> QED
    BY <1>1, <1>4, <1>6, <2>1
<1> QED
  BY <1>5, <1>6

\* Without one the session stays as it is.
LEMMA PlainAnswer ==
  ASSUME NEW list, Request(list), Plain(list), NEW base, NEW a \in Answers(list, base)
  PROVE  /\ a.err \in {"ok", "noSuchObject"} /\ (base = None => a.err = "ok")
         /\ a.resp = NoResponse /\ a.after = after /\ a.view = view
<1> DEFINE matches == IF base = None THEN dir ELSE dir \cap {base}
<1>1. OfType(list, "paged") = <<>> /\ OfType(list, "vlv") = <<>>
  BY OfTypeFacts DEF Plain
<1>2. ~(Len(<<>>) + Len(<<>>) > 1)
  OBVIOUS
<1>3. a \in IF matches = {} /\ base # None THEN {Refusal("noSuchObject")}
            ELSE {Answer(Sorted(matches), NoResponse, "ok", after, view)}
  BY <1>1, <1>2 DEF Answers
<1> HIDE DEF matches
<1>4. \/ a = Refusal("noSuchObject") /\ base # None
      \/ a = Answer(Sorted(matches), NoResponse, "ok", after, view)
  BY <1>3
<1> QED
  BY <1>4 DEF Refusal, Answer

\* With the session's cookie there is a page, and the next cookie is the session's again.
LEMMA CookieAnswer ==
  ASSUME NEW at, at # None => at = after, NEW a \in PagedAnswers(at, dir)
  PROVE  a.err = "ok" /\ a.resp.paged = a.after
<1> DEFINE page == First(PageSize, Sorted({e \in dir : at = None \/ e > at}))
<1>1. \E c : a = Answer(page, [NoResponse EXCEPT !.paged = c], "ok", c, view)
  BY DEF PagedAnswers
<1> HIDE DEF page
<1> QED
  BY <1>1 DEF Answer, NoResponse

\* With the session's list there is a window, and its list is the session's again.
LEMMA ListAnswer ==
  ASSUME NEW control, control.context # None => control.context = view, NEW a \in ViewAnswers(control, dir)
  PROVE  LET list == IF control.context = None THEN Sorted(dir) ELSE view
         IN \/ a.err = "ok" /\ a.resp.vlv.context = a.view
            \/ a.err = "vlvError" /\ list # <<>> /\ control.at > Len(list)
<1> DEFINE list == IF control.context = None THEN Sorted(dir) ELSE view
           resp == [NoResponse EXCEPT !.vlv = [count |-> Len(list), context |-> list]]
<1>1. \/ a = Refusal("vlvError") /\ list # <<>> /\ control.at > Len(list)
      \/ \E there : a = Answer(there, resp, "ok", after, list)
  BY DEF ViewAnswers
<1>2. resp.vlv.context = list
  BY DEF NoResponse
<1> HIDE DEF list, resp
<1>3. \/ a.err = "vlvError" /\ list # <<>> /\ control.at > Len(list)
      \/ a.err = "ok" /\ a.resp = resp /\ a.view = list
  <2>1. CASE a = Refusal("vlvError") /\ list # <<>> /\ control.at > Len(list)
    BY <2>1 DEF Refusal, Answer
  <2>2. CASE \E there : a = Answer(there, resp, "ok", after, list)
    BY <2>2 DEF Answer
  <2> QED
    BY <1>1, <2>1, <2>2
<1> QED
  BY <1>2, <1>3 DEF list

(***************************************************************************)
(* There is still one such control after those of a request have changed.  *)
(***************************************************************************)
\* What is picked from two places is from two places.
LEMMA PickedApart ==
  ASSUME NEW S, NEW s \in Seq(S), NEW ns \in SUBSET DOMAIN s,
         NEW m \in DOMAIN Picked(s, ns), NEW n \in DOMAIN Picked(s, ns), m # n
  PROVE  \E j, k \in ns : j # k /\ Picked(s, ns)[m] = s[j] /\ Picked(s, ns)[n] = s[k]
<1> DEFINE at == Sorted(ns)
           c == Cardinality(ns)
<1>1. IsFiniteSet(ns) /\ c \in Nat /\ DOMAIN Picked(s, ns) = 1 .. c
  BY PickedFacts
<1>2. ns \in SUBSET Nat
  <2>1. DOMAIN s = 1 .. Len(s) /\ Len(s) \in Nat
    OBVIOUS
  <2> QED
    BY <2>1
<1>3. /\ \A i \in 1 .. c : at[i] \in ns
      /\ DOMAIN at = 1 .. c /\ Ascends(at)
  BY <1>1, <1>2, SortedFacts
<1>4. Picked(s, ns) = [i \in 1 .. c |-> s[at[i]]]
  BY DEF Picked
<1> HIDE DEF at, c
<1>5. m \in 1 .. c /\ n \in 1 .. c
  BY <1>1
<1>6. at[m] \in ns /\ at[n] \in ns /\ at[m] \in Nat /\ at[n] \in Nat
  BY <1>2, <1>3, <1>5
<1>7. at[m] # at[n]
  <2>1. m < n \/ n < m
    BY <1>1, <1>5
  <2>2. m < n => at[m] < at[n]
    BY <1>3, <1>5 DEF Ascends
  <2>3. n < m => at[n] < at[m]
    BY <1>3, <1>5 DEF Ascends
  <2> QED
    BY <1>6, <2>1, <2>2, <2>3
<1>8. Picked(s, ns)[m] = s[at[m]] /\ Picked(s, ns)[n] = s[at[n]]
  BY <1>4, <1>5
<1> QED
  BY <1>6, <1>7, <1>8

LEMMA SetServerSole ==
  ASSUME NEW c \in ControlsType, Request(c.server), NEW control \in Control, NEW type,
         Sole(c.server, type), control.type \in {"sss", type}
  PROVE  Sole(SetServer(c, control).server, type)
<1> DEFINE list == c.server
           ns == {n \in DOMAIN list : list[n].type # control.type}
           kept == Picked(list, ns)
           all == Append(kept, control)
<1>1. list \in Seq(Control) /\ ns \in SUBSET DOMAIN list /\ \A k \in ns : list[k].type # control.type
  BY DEF Request
<1>2. SetServer(c, control).server = all
  BY DEF SetServer, ControlsType
<1> HIDE DEF list, ns
<1>3. kept \in Seq(Control) /\ DOMAIN kept = 1 .. Len(kept) /\ Len(kept) \in Nat
      /\ \A n \in DOMAIN kept : \E k \in ns : kept[n] = list[k]
  BY <1>1, PickedFacts
<1>4. \A m, n \in DOMAIN kept : m # n => \E j, k \in ns : j # k /\ kept[m] = list[j] /\ kept[n] = list[k]
  BY <1>1, PickedApart
<1> HIDE DEF kept
<1>5. DOMAIN all = 1 .. Len(kept) + 1 /\ all[Len(kept) + 1] = control
      /\ \A n \in DOMAIN kept : all[n] = kept[n]
  BY <1>3, AppendProperties
<1> HIDE DEF all
<1>6. \A n \in DOMAIN all : n \in DOMAIN kept \/ n = Len(kept) + 1
  BY <1>3, <1>5
<1>7. Sole(list, type)
  BY DEF list
<1>8. ASSUME NEW n \in DOMAIN kept, all[n].type # "sss"
      PROVE  all[n].type = type /\ control.type = "sss"
  <2>1. PICK k \in ns : kept[n] = list[k]
    BY <1>3
  <2>2. list[k].type # "sss" /\ k \in DOMAIN list
    BY <1>1, <1>5, <1>8, <2>1
  <2>3. list[k].type = type
    BY <1>7, <2>2 DEF Sole
  <2>4. control.type # type
    BY <1>1, <2>1, <2>3
  <2> QED
    BY <1>5, <2>1, <2>3, <2>4
<1>9. ASSUME NEW m \in DOMAIN all, NEW n \in DOMAIN all, all[m].type # "sss", all[n].type # "sss"
      PROVE  all[m].type = type /\ m = n
  <2>1. CASE m \in DOMAIN kept /\ n \in DOMAIN kept
    <3>1. all[m].type = type
      BY <1>8, <1>9, <2>1
    <3>2. ASSUME m # n
          PROVE  FALSE
      <4>1. PICK j \in ns, k \in ns : j # k /\ kept[m] = list[j] /\ kept[n] = list[k]
        BY <1>4, <2>1, <3>2
      <4>2. list[j].type # "sss" /\ list[k].type # "sss" /\ j \in DOMAIN list /\ k \in DOMAIN list
        BY <1>1, <1>5, <1>9, <2>1, <4>1
      <4> QED
        BY <1>7, <4>1, <4>2 DEF Sole
    <3> QED
      BY <3>1, <3>2
  <2>2. CASE m = Len(kept) + 1 /\ n = Len(kept) + 1
    BY <1>5, <1>9, <2>2
  <2>3. CASE m = Len(kept) + 1 /\ n \in DOMAIN kept
    BY <1>5, <1>8, <1>9, <2>3
  <2>4. CASE n = Len(kept) + 1 /\ m \in DOMAIN kept
    BY <1>5, <1>8, <1>9, <2>4
  <2> QED
    BY <1>6, <2>1, <2>2, <2>3, <2>4
<1> QED
  BY <1>2, <1>9 DEF Sole

\* The controls of a new search that is given none.
LEMMA PreparedSole ==
  ASSUME NEW c \in ControlsType, c.server = <<>>, NEW op \in {"search", "iter", "paged", "paginated"},
         NEW sorted \in BOOLEAN
  PROVE  Sole(Prepared(op, c, sorted).server, PagesBy(op))
<1> DEFINE appended == IF op = "paged" THEN AppendServer(c, Paged(None)) ELSE c
           ordered == IF sorted \/ op = "paginated" THEN SetServer(appended, Sorting) ELSE appended
           first == VirtualListView(1, None)
           type == PagesBy(op)
<1>1. Prepared(op, c, sorted) = IF op = "paginated" THEN SetServer(ordered, first) ELSE ordered
  BY DEF Prepared
<1>2. /\ Paged(None) \in Control /\ Paged(None).type = "paged" /\ Sorting \in Control /\ Sorting.type = "sss"
      /\ first \in Control /\ first.type = "vlv" /\ first.at = 1
  BY DEF Paged, Sorting, VirtualListView, Control, Place
<1>3. Request(c.server) /\ DOMAIN c.server = {}
  BY DEF Request
<1> HIDE DEF first
<1>4. appended \in ControlsType /\ Request(appended.server) /\ Sole(appended.server, type)
  <2>1. CASE op = "paged"
    <3>1. appended = AppendServer(c, Paged(None)) /\ type = "paged"
      BY <2>1 DEF PagesBy
    <3>2. appended \in ControlsType /\ Request(appended.server)
      BY <1>2, <1>3, <3>1, AppendServerFacts
    <3>3. appended.server = <<Paged(None)>>
      <4>1. appended.server = Append(<<>>, Paged(None))
        BY <3>1 DEF AppendServer, ControlsType
      <4> QED
        BY <4>1
    <3> HIDE DEF appended
    <3>4. DOMAIN <<Paged(None)>> = {1} /\ <<Paged(None)>>[1] = Paged(None)
      OBVIOUS
    <3> QED
      BY <1>2, <3>1, <3>2, <3>3, <3>4 DEF Sole
  <2>2. CASE op # "paged"
    BY <1>3, <2>2 DEF Sole
  <2> QED
    BY <2>1, <2>2
<1> HIDE DEF appended
<1>5. ordered \in ControlsType /\ Request(ordered.server) /\ Sole(ordered.server, type)
  <2> DEFINE o == SetServer(appended, Sorting)
  <2>1. o \in ControlsType /\ Request(o.server)
    BY <1>2, <1>4, SetServerFacts
  <2>2. Sole(o.server, type)
    BY <1>2, <1>4, SetServerSole
  <2>3. ordered = o \/ ordered = appended
    OBVIOUS
  <2> HIDE DEF o, ordered
  <2> QED
    BY <1>4, <2>1, <2>2, <2>3
<1> HIDE DEF ordered
<1>6. op = "paginated" => Sole(SetServer(ordered, first).server, type)
  BY <1>2, <1>5, SetServerSole DEF PagesBy
<1> QED
  BY <1>1, <1>5, <1>6


(***************************************************************************)
(* What a step does to the session, and to those who reconnect.            *)
(***************************************************************************)
\* The session stays, and nobody begins to reconnect or to wait for an answer.
Holds ==
  /\ UNCHANGED <<link, after, view>>
  /\ \A g \in 1 .. 2 : /\ Open(frames'[g]) /\ frames'[g].sleeping => Open(frames[g]) /\ frames[g].sleeping
                       /\ frames[g].phase = "ask" => frames'[g].phase # "poll"

\* An answer is that of a session.
Answering ==
  \E f \in 1 .. 2 : \E a : AskEffect(f, a) /\ link = "up" /\ link' = "up" /\ ~frames'[f].sleeping

\* A frame has lost its messages, and the session is lost or about to be.
Severed ==
  QuietStep /\ \E f \in 1 .. 2 : ~Free(f) /\ frames'[f].msgs = <<>>
                                 /\ (link = "lost" \/ (Working(f) /\ frames[f].sleeping))

\* No search that goes on is undisturbed.
Unsettled == \A g \in 1 .. 2 : Open(frames'[g]) => ~frames'[g].calm

Linked == Holds \/ Answering \/ Severed \/ Unsettled

\* A step that changes one frame, which ends or is no sleepier than before.
LEMMA ChangeHolds ==
  ASSUME TypeInv, NEW f \in 1 .. 2, NEW new, Changes(f, new), UNCHANGED <<link, after, view>>,
         \/ new.phase = "done"
         \/ Open(frames[f]) /\ frames[f].phase # "ask" /\ new.sleeping = frames[f].sleeping
  PROVE  Holds
<1>1. frames \in [1 .. 2 -> Frame]
  BY DEF TypeInv, FramesOK
<1>2. \A g \in 1 .. 2 : frames'[g] = IF g = f THEN new ELSE frames[g]
  BY <1>1 DEF Changes
<1>3. ASSUME NEW g \in 1 .. 2
      PROVE  /\ Open(frames'[g]) /\ frames'[g].sleeping => Open(frames[g]) /\ frames[g].sleeping
             /\ frames[g].phase = "ask" => frames'[g].phase # "poll"
  <2>1. CASE g # f
    <3>1. frames'[g] = frames[g]
      BY <1>2, <2>1
    <3> QED
      BY <3>1, Zenon
  <2>2. CASE g = f
    <3>1. frames'[f] = new
      BY <1>2
    <3>2. CASE new.phase = "done"
      BY <2>2, <3>1, <3>2 DEF Open
    <3>3. CASE Open(frames[f]) /\ frames[f].phase # "ask" /\ new.sleeping = frames[f].sleeping
      <4>1. new.sleeping => frames[f].sleeping
        BY <3>3, Zenon
      <4> QED
        BY <2>2, <3>1, <3>3, <4>1
    <3> QED
      BY <3>2, <3>3
  <2> QED
    BY <2>1, <2>2
<1> QED
  BY <1>3 DEF Holds

LEMMA FinishHolds ==
  ASSUME TypeInv, NEW f \in 1 .. 2, NEW res \in Results, Finishes(f, res), UNCHANGED <<link, after, view>>
  PROVE  Holds
<1>1. frames[f] \in Frame
  BY FrameFacts
<1>2. Changes(f, Finished(frames[f], res)) /\ Finished(frames[f], res).phase = "done"
  BY <1>1, FinishedFacts DEF Finishes
<1> QED
  BY <1>2, ChangeHolds

\* Going on does not make a frame sleep.
LEMMA SleepsOn ==
  ASSUME NEW fr \in Frame
  PROVE  /\ \A e : Yielded(fr, e).sleeping = fr.sleeping
         /\ Asking(fr).sleeping = fr.sleeping
         /\ Polling(fr).sleeping = fr.sleeping
<1>1. ASSUME NEW e
      PROVE  Yielded(fr, e).sleeping = fr.sleeping
  <2> DEFINE out == Append(fr.out, [e |-> e, page |-> fr.page, entry |-> fr.entry + 1,
                                    results |-> fr.length, lastPage |-> fr.lastPage])
  <2>1. Yielded(fr, e) = [fr EXCEPT !.phase = "yield", !.entry = fr.entry + 1, !.out = out]
    BY DEF Yielded
  <2> HIDE DEF out
  <2>2. [fr EXCEPT !.phase = "yield", !.entry = fr.entry + 1, !.out = out].sleeping = fr.sleeping
    BY DEF Frame
  <2> QED
    BY <2>1, <2>2
<1>2. Asking(fr).sleeping = fr.sleeping
  <2>1. [fr EXCEPT !.phase = "ask", !.tries = Attempts].sleeping = fr.sleeping
    BY DEF Frame
  <2> QED
    BY <2>1 DEF Asking
<1>3. Polling(fr).sleeping = fr.sleeping
  <2>1. [fr EXCEPT !.phase = "poll", !.tries = Attempts].sleeping = fr.sleeping
    BY DEF Frame
  <2> QED
    BY <2>1 DEF Polling
<1> QED
  BY <1>1, <1>2, <1>3

LEMMA RaiseHolds ==
  ASSUME TypeInv, NEW f \in 1 .. 2, Raise(f)
  PROVE  Holds
<1> DEFINE res == IF Message(f).err # "ok" THEN Message(f).err ELSE "notUnique"
<1>1. frames[f].msgs # <<>> /\ Finishes(f, res) /\ UNCHANGED <<link, after, view>>
  BY DEF Raise, Ready, server
<1>2. Message(f).err \in Refused \cup {"ok"}
  BY <1>1, MessageFacts DEF Reply
<1>3. res \in Results
  BY <1>2 DEF Results
<1> HIDE DEF res
<1> QED
  BY <1>1, <1>3, FinishHolds

LEMMA NoHandleHolds ==
  ASSUME TypeInv, NEW f \in 1 .. 2, NoHandle(f)
  PROVE  Holds
<1>1. "failed" \in Results /\ Finishes(f, "failed") /\ UNCHANGED <<link, after, view>>
  BY DEF NoHandle, Results, server
<1> QED
  BY <1>1, FinishHolds

LEMMA ReturnsHolds ==
  ASSUME TypeInv, NEW f \in 1 .. 2, Returns(f)
  PROVE  Holds
<1> DEFINE x == frames[f]
           out == Listed(Message(f).found)
           listed == [x EXCEPT !.out = out]
           new == Finished(listed, "ok")
<1>1. x \in Frame /\ x.msgs # <<>> /\ Changes(f, new) /\ UNCHANGED <<link, after, view>>
  BY FrameFacts DEF Returns, Ready, server, Listed
<1>2. out \in Seq(Out)
  BY <1>1, MessageFacts, ListedFacts DEF Reply
<1> HIDE DEF out
<1>3. listed \in Frame /\ "ok" \in Results
  BY <1>1, <1>2 DEF Frame, Results
<1> HIDE DEF listed
<1>4. new.phase = "done"
  BY <1>3, FinishedFacts
<1> HIDE DEF new
<1> QED
  BY <1>1, <1>4, ChangeHolds

LEMMA YieldEntryHolds ==
  ASSUME TypeInv, NEW f \in 1 .. 2, YieldEntry(f)
  PROVE  Holds
<1> DEFINE x == frames[f]
           msgs == Tail(x.msgs)
           z == [x EXCEPT !.msgs = msgs]
           e == Message(f).found[1]
<1>1. /\ x \in Frame /\ x.msgs # <<>> /\ x.phase = "poll" /\ UNCHANGED <<link, after, view>>
      /\ Changes(f, Yielded(z, e))
  BY FrameFacts DEF YieldEntry, Ready, Awake, server
<1>2. msgs \in Seq(Reply)
  BY <1>1 DEF Frame
<1> HIDE DEF msgs
<1>3. z \in Frame /\ z.sleeping = x.sleeping
  BY <1>1, <1>2 DEF Frame
<1> HIDE DEF z
<1>4. Yielded(z, e).sleeping = x.sleeping
  BY <1>3, SleepsOn
<1> QED
  BY <1>1, <1>4, ChangeHolds DEF Open

LEMMA PageEndsHolds ==
  ASSUME TypeInv, NEW f \in 1 .. 2, PageEnds(f)
  PROVE  Holds
<1> DEFINE x == frames[f]
           z == [x EXCEPT !.msgs = <<>>, !.page = @ + 1, !.entry = 0]
<1>1. x \in Frame /\ x.phase = "poll" /\ UNCHANGED <<link, after, view>>
  BY FrameFacts DEF PageEnds, Ready, Awake, server
<1>2. CASE Finishes(f, "ok")
  BY <1>1, <1>2, FinishHolds DEF Results
<1>3. CASE Changes(f, Asking(z))
  <2>1. <<>> \in Seq(Reply) /\ x.page + 1 \in Nat \ {0} /\ 0 \in Nat
    BY <1>1 DEF Frame
  <2>2. z \in Frame
    BY <1>1, <2>1, ZenonT(30) DEF Frame
  <2>3. z.sleeping = x.sleeping
    BY <1>1 DEF Frame
  <2> HIDE DEF z
  <2>4. Asking(z).sleeping = x.sleeping
    BY <2>2, <2>3, SleepsOn
  <2> QED
    BY <1>1, <1>3, <2>4, ChangeHolds DEF Open
<1> QED
  BY <1>2, <1>3 DEF PageEnds

LEMMA PageArrivesHolds ==
  ASSUME TypeInv, NEW f \in 1 .. 2, PageArrives(f)
  PROVE  Holds
<1> DEFINE x == frames[f]
           found == Message(f).found
           vlv == Gotten(Received(f), "vlv")
           count == vlv.count
           last == Pages(count)
           known == IF x.lastPage # None THEN x ELSE [x EXCEPT !.length = count, !.lastPage = last]
           left == Tail(found)
           z == [known EXCEPT !.msgs = <<>>, !.left = left]
<1>1. /\ x \in Frame /\ x.phase = "poll" /\ x.op = "paginated" /\ x.msgs # <<>> /\ Message(f).err = "ok"
      /\ UNCHANGED <<link, after, view>> /\ FrameOK(x)
  BY FrameFacts DEF PageArrives, Ready, Awake, Accepted, server
<1>2. /\ Message(f) \in Reply /\ Message(f) = x.msgs[1] /\ 1 \in DOMAIN x.msgs
      /\ vlv = Message(f).resp.vlv
  BY <1>1, MessageFacts
<1>3. CASE found = <<>>
  <2>1. Finishes(f, "ok") /\ "ok" \in Results
    BY <1>3 DEF PageArrives, Results
  <2> QED
    BY <1>1, <2>1, FinishHolds
<1>4. CASE found # <<>>
  <2>1. Changes(f, Yielded(z, found[1]))
    BY <1>4 DEF PageArrives
  <2>2. <<>> \in Seq(Reply) /\ left \in Seq(Entries)
    BY <1>2, <1>4 DEF Reply
  <2>3. vlv \in View
    BY <1>1, <1>2 DEF FrameOK, Reply, ResponseType
  <2>4. count \in Nat
    BY <2>3 DEF View
  <2>5. count \in Place /\ last \in Int \cup {None}
    BY <2>4, ConstantsAssumption DEF Place, Pages
  <2> HIDE DEF left, last, count
  <2>6. known \in Frame
    BY <1>1, <2>5, ZenonT(30) DEF Frame
  <2>7. known.sleeping = x.sleeping
    BY <1>1 DEF Frame
  <2> HIDE DEF known
  <2>8. z \in Frame
    BY <2>2, <2>6, ZenonT(30) DEF Frame
  <2>9. z.sleeping = known.sleeping
    BY <2>6 DEF Frame
  <2> HIDE DEF z
  <2>10. Yielded(z, found[1]).sleeping = x.sleeping
    BY <2>7, <2>8, <2>9, SleepsOn
  <2> QED
    BY <1>1, <2>1, <2>10, ChangeHolds DEF Open
<1> QED
  BY <1>3, <1>4

LEMMA ResumeIterHolds ==
  ASSUME TypeInv, NEW f \in 1 .. 2, ResumeIter(f)
  PROVE  Holds
<1>1. /\ frames[f] \in Frame /\ frames[f].phase = "yield" /\ Changes(f, Polling(frames[f]))
      /\ UNCHANGED <<link, after, view>>
  BY FrameFacts DEF ResumeIter, server
<1>2. Polling(frames[f]).sleeping = frames[f].sleeping
  BY <1>1, SleepsOn
<1> QED
  BY <1>1, <1>2, ChangeHolds DEF Open

LEMMA ResumePageHolds ==
  ASSUME TypeInv, NEW f \in 1 .. 2, ResumePage(f)
  PROVE  Holds
<1> DEFINE x == frames[f]
           left == Tail(x.left)
           z == [x EXCEPT !.left = left]
           e == x.left[1]
<1>1. /\ x \in Frame /\ x.phase = "yield" /\ x.left # <<>> /\ UNCHANGED <<link, after, view>>
      /\ Changes(f, Yielded(z, e))
  BY FrameFacts DEF ResumePage, server
<1>2. left \in Seq(Entries)
  BY <1>1 DEF Frame
<1> HIDE DEF left
<1>3. z \in Frame /\ z.sleeping = x.sleeping
  BY <1>1, <1>2 DEF Frame
<1> HIDE DEF z
<1>4. Yielded(z, e).sleeping = x.sleeping
  BY <1>3, SleepsOn
<1> QED
  BY <1>1, <1>4, ChangeHolds DEF Open

LEMMA NextPageHolds ==
  ASSUME TypeInv, NEW f \in 1 .. 2, NextPage(f)
  PROVE  Holds
<1> DEFINE x == frames[f]
           vlv == Gotten(controls[x.ref], "vlv")
           count == vlv.count
           z == [x EXCEPT !.page = @ + 1, !.entry = 0, !.length = count]
<1>1. /\ x \in Frame /\ x.ref \in 0 .. 2 /\ x.phase = "yield" /\ UNCHANGED <<link, after, view>>
  BY FrameFacts DEF NextPage, server
<1>2. vlv = controls[x.ref].response.vlv /\ vlv \in View \cup {None}
  BY <1>1 DEF Gotten, TypeInv, ControlsOK, ControlsType, ResponseType
<1>3. ASSUME NEW res \in {"attributeError", "ok"}, Finishes(f, res)
      PROVE  Holds
  BY <1>1, <1>3, FinishHolds DEF Results
<1>4. ASSUME vlv # None, Changes(f, Asking(z))
      PROVE  Holds
  <2>2. count \in Place /\ x.page + 1 \in Nat \ {0} /\ 0 \in Nat
    <3>1. count \in Place
      BY <1>2, <1>4 DEF View, Place
    <3>2. x.page \in Nat \ {0}
      BY <1>1 DEF Frame
    <3> QED
      BY <3>1, <3>2
  <2> HIDE DEF count
  <2>4. z \in Frame
    BY <1>1, <2>2, ZenonT(30) DEF Frame
  <2>5. z.sleeping = x.sleeping
    BY <1>1 DEF Frame
  <2>1. Changes(f, Asking(z))
    BY <1>4
  <2> HIDE DEF z
  <2>6. Asking(z).sleeping = x.sleeping
    BY <2>4, <2>5, SleepsOn
  <2> QED
    BY <1>1, <2>1, <2>6, ChangeHolds DEF Open
<1> QED
  BY <1>3, <1>4 DEF NextPage

LEMMA RetrySevers ==
  ASSUME TypeInv, NEW f \in 1 .. 2, Retry(f)
  PROVE  Severed
<1> DEFINE x == frames[f]
           bare == [x EXCEPT !.msgs = <<>>]
<1>1. x \in Frame /\ Working(f) /\ x.sleeping /\ ~Free(f)
  BY FrameFacts DEF Retry, Working, Free
<1>2. frames'[f].msgs = <<>>
  <2>1. CASE Replaced(f, [x EXCEPT !.sleeping = FALSE])
    <3> DEFINE new == [x EXCEPT !.sleeping = FALSE]
    <3>1. new \in Frame
      BY <1>1, UpdatedKept
    <3>2. Replaced(f, new)
      BY <2>1
    <3> HIDE DEF new
    <3>3. frames'[f] = [new EXCEPT !.msgs = <<>>]
      BY <3>2 DEF Replaced, TypeInv, FramesOK
    <3> QED
      BY <3>1, <3>3 DEF Frame
  <2>2. CASE Changes(f, Failed(bare))
    <3>1. bare \in Frame /\ bare.msgs = <<>>
      BY <1>1, UpdatedKept DEF Frame
    <3>2. frames'[f] = Failed(bare)
      BY <2>2 DEF Changes, TypeInv, FramesOK
    <3> HIDE DEF bare
    <3>3. Failed(bare).msgs = <<>>
      BY <3>1, FailedKept DEF Kept
    <3> QED
      BY <3>2, <3>3
  <2> QED
    BY <2>1, <2>2 DEF Retry
<1> QED
  BY <1>1, <1>2, RetryQuiet DEF Severed

LEMMA ServerDownSevers ==
  ASSUME TypeInv, NEW f \in 1 .. 2, ServerDown(f)
  PROVE  Severed
<1>1. frames[f] \in Frame /\ ~Free(f) /\ link = "lost" /\ frames[f].msgs = <<>>
  BY FrameFacts DEF ServerDown, Working, Free
<1>2. frames'[f] = Failed(frames[f])
  BY DEF ServerDown, Changes, TypeInv, FramesOK
<1>3. Failed(frames[f]).msgs = <<>>
  BY <1>1, FailedKept DEF Kept
<1> QED
  BY <1>1, <1>2, <1>3, ServerDownQuiet DEF Severed

LEMMA CloseLinked ==
  ASSUME TypeInv, NEW f \in 1 .. 2, Close(f)
  PROVE  Linked
<1> DEFINE new == Finished(frames[f], "closed")
<1>1. frames[f] \in Frame /\ ~Free(f) /\ "closed" \in Results /\ "failed" \in Results
  BY FrameFacts DEF Close, Free, Results
<1>2. ASSUME link = "lost", frames'[f].msgs = <<>>
      PROVE  Linked
  BY <1>1, <1>2, CloseQuiet DEF Severed, Linked
<1>3. ASSUME link = "lost", Replaced(f, new)
      PROVE  Linked
  <2>1. new \in Frame
    BY <1>1, FinishedFacts
  <2>2. Replaced(f, new)
    BY <1>3
  <2> HIDE DEF new
  <2>3. frames'[f] = [new EXCEPT !.msgs = <<>>]
    BY <2>2 DEF Replaced, TypeInv, FramesOK
  <2>4. frames'[f].msgs = <<>>
    BY <2>1, <2>3 DEF Frame
  <2> QED
    BY <1>2, <1>3, <2>4
<1>4. ASSUME link = "lost", Finishes(f, "failed")
      PROVE  Linked
  <2>1. frames'[f] = Finished(frames[f], "failed")
    BY <1>4 DEF Finishes, Changes, TypeInv, FramesOK
  <2>2. frames'[f].msgs = <<>>
    BY <1>1, <2>1, FinishedFacts
  <2> QED
    BY <1>2, <1>4, <2>2
<1>5. ASSUME Finishes(f, "closed"), UNCHANGED <<link, after, view>>
      PROVE  Linked
  BY <1>1, <1>5, FinishHolds DEF Linked
<1> QED
  BY <1>3, <1>4, <1>5 DEF Close

LEMMA TimeoutUnsettles ==
  ASSUME TypeInv, NEW f \in 1 .. 2, Timeout(f)
  PROVE  Unsettled
<1> SUFFICES ASSUME NEW g \in 1 .. 2
             PROVE  frames'[g].calm = FALSE
  BY DEF Unsettled
<1> DEFINE z == IF g = f THEN Failed(frames[f]) ELSE frames[g]
<1>1. frames'[g] = [z EXCEPT !.calm = FALSE]
  BY DEF Timeout, TypeInv, FramesOK
<1>2. z \in Frame
  <2>1. frames[f].tries > 0 /\ FrameOK(frames[f])
    BY FrameFacts DEF Timeout, Awake, FrameOK
  <2>2. Failed(frames[f]) \in Frame /\ frames[g] \in Frame
    BY <2>1, FrameFacts, FailedFacts DEF FrameOK
  <2> QED
    BY <2>2
<1> HIDE DEF z
<1> QED
  BY <1>1, <1>2 DEF Frame

LEMMA ChangedUnsettles ==
  ASSUME TypeInv, NEW new \in SUBSET Entries, Changed(new)
  PROVE  Unsettled
<1> SUFFICES ASSUME NEW g \in 1 .. 2, Open(frames'[g])
             PROVE  frames'[g].calm = FALSE
  BY DEF Unsettled
<1> DEFINE x == frames[g]
           seen == x.seen \cup new
           stayed == x.stayed \cap new
           all == [x EXCEPT !.seen = seen, !.stayed = stayed, !.calm = FALSE]
<1>1. frames'[g] = IF ~Open(x) THEN x ELSE all
  BY DEF Changed, TypeInv, FramesOK
<1>2. frames'[g] = all /\ x \in Frame
  BY <1>1, FrameFacts
<1> HIDE DEF seen, stayed
<1>3. all.calm = FALSE
  BY <1>2 DEF Frame
<1> QED
  BY <1>2, <1>3

LEMMA ConnectionLostUnsettles ==
  ASSUME TypeInv, ConnectionLost
  PROVE  Unsettled
<1> SUFFICES ASSUME NEW g \in 1 .. 2, Open(frames'[g])
             PROVE  frames'[g].calm = FALSE
  BY DEF Unsettled
<1> DEFINE x == frames[g]
<1>1. PICK read \in BOOLEAN :
        frames' = [f \in DOMAIN frames |-> IF ~Open(frames[f]) THEN frames[f] ELSE
                     [frames[f] EXCEPT !.calm = FALSE, !.msgs = IF read THEN @ ELSE <<>>]]
  BY DEF ConnectionLost
<1> DEFINE msgs == IF read THEN x.msgs ELSE <<>>
           y == [x EXCEPT !.calm = FALSE, !.msgs = msgs]
<1>2. frames'[g] = IF ~Open(x) THEN x ELSE y
  BY <1>1 DEF TypeInv, FramesOK
<1>3. frames'[g] = y /\ x \in Frame
  BY <1>2, FrameFacts
<1> HIDE DEF msgs
<1>4. y.calm = FALSE
  BY <1>3 DEF Frame
<1> QED
  BY <1>3, <1>4

LEMMA AskAnswering ==
  ASSUME TypeInv, NEW f \in 1 .. 2, Ask(f)
  PROVE  Answering
<1> DEFINE x == frames[f]
           p == Polling(x)
<1>1. x \in Frame /\ x.sleeping = FALSE /\ link = "up" /\ link' = "up"
  <2>1. x \in Frame /\ ~x.sleeping /\ link = "up" /\ link' = "up"
    BY FrameFacts DEF Ask, Awake
  <2> QED
    BY <2>1 DEF Frame
<1>2. PICK a \in Answers(controls[x.ref].server, Base(f)) :
        Changes(f, [p EXCEPT !.msgs = IF x.op \in Iterates THEN Messages(a) ELSE Whole(a),
                             !.hollow = @ \/ (x.op = "paginated" /\ a.found = <<>>)])
  BY DEF Ask, Base
<1> DEFINE msgs == IF x.op \in Iterates THEN Messages(a) ELSE Whole(a)
           hollow == p.hollow \/ (x.op = "paginated" /\ a.found = <<>>)
           new == [p EXCEPT !.msgs = msgs, !.hollow = hollow]
<1>3. p \in Frame /\ p.sleeping = x.sleeping
  BY <1>1, PollingKept, SleepsOn
<1>4. frames'[f] = new
  <2>1. Changes(f, new)
    BY <1>2
  <2> HIDE DEF new
  <2> QED
    BY <2>1 DEF Changes, TypeInv, FramesOK
<1> HIDE DEF p, msgs, hollow
<1>5. new.sleeping = p.sleeping
  BY <1>3 DEF Frame
<1> HIDE DEF new
<1>6. frames'[f].sleeping = FALSE
  BY <1>1, <1>3, <1>4, <1>5
<1> QED
  BY <1>1, <1>6, AskType DEF Answering

LEMMA BeginHolds ==
  ASSUME TypeInv, NEW f \in 1 .. 2, NEW op, NEW ref, NEW sorted \in BOOLEAN, NEW unique \in BOOLEAN,
         Call(f, op, ref, sorted, unique), Begin(f, op, ref, sorted, unique)
  PROVE  Holds
<1>1. UNCHANGED <<link, after, view>>
  BY DEF Begin, server
<1>2. Begun(f, ref) /\ BeginEffect(f, op, ref, sorted, unique)
  BY BeginGoesOn, BeginType
<1>3. frames'[f].phase = "ask" /\ ~frames'[f].sleeping
  BY <1>2 DEF Begun, BeginEffect
<1>4. ASSUME NEW g \in 1 .. 2, g # f
      PROVE  frames'[g].phase = frames[g].phase /\ frames'[g].sleeping = frames[g].sleeping
  <2> DEFINE meddled == frames[g].meddled \cup Meddling(f, ref, Given(ref), frames[g])
             y == [frames[g] EXCEPT !.meddled = meddled]
  <2>1. frames'[g] = y
    BY <1>4 DEF Begin, Given, TypeInv, FramesOK
  <2> HIDE DEF meddled
  <2>2. y.phase = frames[g].phase /\ y.sleeping = frames[g].sleeping
    BY FrameFacts DEF Frame
  <2> QED
    BY <2>1, <2>2
<1>5. ASSUME NEW g \in 1 .. 2
      PROVE  /\ Open(frames'[g]) /\ frames'[g].sleeping => Open(frames[g]) /\ frames[g].sleeping
             /\ frames[g].phase = "ask" => frames'[g].phase # "poll"
  <2>1. CASE g = f
    BY <1>3, <2>1
  <2>2. CASE g # f
    <3>1. frames'[g].phase = frames[g].phase /\ (frames'[g].sleeping => frames[g].sleeping)
      BY <1>4, <2>2, Zenon
    <3> QED
      BY <3>1 DEF Open
  <2> QED
    BY <2>1, <2>2
<1> QED
  BY <1>1, <1>5 DEF Holds

\* Every step is one of these.
LEMMA NextLinked ==
  ASSUME TypeInv, [Next]_vars
  PROVE  Linked
<1>1. ASSUME Begins
      PROVE  Linked
  BY <1>1, BeginHolds DEF Begins, Linked
<1>2. ASSUME NEW f \in 1 .. 2, Work(f)
      PROVE  Linked
  BY <1>2, RetrySevers, NoHandleHolds, AskAnswering, ServerDownSevers, TimeoutUnsettles, RaiseHolds,
     ReturnsHolds, YieldEntryHolds, PageEndsHolds, PageArrivesHolds DEF Work, Linked
<1>3. ASSUME NEW f \in 1 .. 2, ResumeIter(f) \/ ResumePage(f) \/ NextPage(f) \/ Close(f)
      PROVE  Linked
  BY <1>3, ResumeIterHolds, ResumePageHolds, NextPageHolds, CloseLinked DEF Linked
<1>4. ASSUME NEW e \in Entries, Changed(dir \cup {e}) \/ Changed(dir \ {e})
      PROVE  Linked
  <2>1. dir \cup {e} \in SUBSET Entries /\ dir \ {e} \in SUBSET Entries
    BY DEF TypeInv, ServerOK
  <2> QED
    BY <1>4, <2>1, ChangedUnsettles DEF Linked
<1>5. ASSUME ConnectionLost
      PROVE  Linked
  BY <1>5, ConnectionLostUnsettles DEF Linked
<1>6. ASSUME UNCHANGED vars
      PROVE  Linked
  <2>1. UNCHANGED <<link, after, view, frames>>
    BY <1>6 DEF vars, server
  <2>2. Holds
    BY <2>1 DEF Holds
  <2> QED
    BY <2>2 DEF Linked
<1>7. ASSUME Proceeds
      PROVE  Linked
  BY <1>2, <1>3, <1>4, <1>5, <1>6, <1>7 DEF Proceeds
<1> QED
  BY <1>1, <1>7, BeginsOrProceeds

(***************************************************************************)
(* The invariant of the generator.                                         *)
(***************************************************************************)
\* What is undisturbed was so before, and of the same entries.
LEMMA WellBefore ==
  ASSUME GoesOn(1), Well(frames'[1])
  PROVE  /\ Well(frames[1]) /\ frames'[1].op = frames[1].op
         /\ Total(frames'[1]) = Total(frames[1]) /\ frames'[1].seen = frames[1].seen
         /\ Full(frames[1]) => Full(frames'[1])
<1>1. Aged(frames[1], frames'[1])
  BY DEF GoesOn, Goes
<1>2. Well(frames[1]) /\ frames'[1].op = frames[1].op /\ frames'[1].seen = frames[1].seen
  BY <1>1 DEF Aged, Well
<1> QED
  BY <1>2 DEF Total, Full

LEMMA WellFacts ==
  ASSUME GeneratorWell, Well(frames[1]), Open(frames[1])
  PROVE  LET x == frames[1]
             c == controls[x.ref]
         IN /\ Served(x) /\ Sole(c.server, PagesBy(x.op)) /\ Answered(x)
            /\ CookieKnown(x, c.server) /\ ListKnown(x, c.server) /\ ViewKnown(x, c.response)
BY DEF GeneratorWell

LEMMA ServedHolds ==
  ASSUME TypeInv, Holds, Served(frames[1]), InSession(frames[1])
  PROVE  Served(frames[1])'
<1>1. /\ link = "up" /\ ~frames[1].sleeping /\ (Working(2) => ~frames[2].sleeping)
      /\ 1 \in 1 .. 2 /\ 2 \in 1 .. 2
  BY DEF Served
<1>2. Open(frames[2]) => Working(2)
  BY DEF TypeInv, Roles, Open, Working
<1>3. link' = "up"
  BY <1>1 DEF Holds
<1>4. Open(frames'[1]) => ~frames'[1].sleeping
  BY <1>1 DEF Holds
<1>5. Open(frames'[2]) => ~frames'[2].sleeping
  BY <1>1, <1>2 DEF Holds
<1>6. InSession(frames'[1]) => Open(frames'[1])
  BY DEF InSession, Open
<1>7. Working(2)' => Open(frames'[2])
  BY DEF Working, Open
<1> QED
  BY <1>3, <1>4, <1>5, <1>6, <1>7 DEF Served

\* A step that finds nothing keeps it, if it keeps the session.
LEMMA StillWell ==
  ASSUME TypeInv, GeneratorWell, GeneratorStill, after' = after, view' = view,
         Well(frames[1]) /\ Served(frames[1]) /\ InSession(frames[1]) => Served(frames[1])'
  PROVE  GeneratorWell'
<1> DEFINE x == frames[1]
           y == frames'[1]
           c == controls[x.ref]
           d == controls'[x.ref]
<1>1. /\ GoesOn(1) /\ Quiet(x, y) /\ d.server = c.server
      /\ \/ d.response = c.response \/ y.phase # "yield" \/ "controls" \in y.meddled
  BY DEF GeneratorStill
<1>2. /\ y.op = x.op /\ y.ref = x.ref
      /\ y.phase # "done" => /\ y.page = x.page /\ y.msgs \in {x.msgs, <<>>}
                             /\ y.phase = x.phase \/ (x.phase = "yield" /\ y.phase = "poll"
                                                      /\ x.op \in Iterates)
  BY <1>1 DEF Quiet
<1> SUFFICES ASSUME Well(y), Open(y)
             PROVE  /\ Served(frames[1])' /\ Sole(d.server, PagesBy(y.op)) /\ Answered(y)
                    /\ (CookieKnown(frames[1], controls[frames[1].ref].server))'
                    /\ (ListKnown(frames[1], controls[frames[1].ref].server))'
                    /\ (ViewKnown(frames[1], controls[frames[1].ref].response))'
  BY <1>2 DEF GeneratorWell
<1>3. Well(x) /\ Total(y) = Total(x) /\ (Full(x) => Full(y))
  BY <1>1, WellBefore
<1>4. y.phase # "done" /\ Open(x) /\ Before(y) = Before(x) /\ (InSession(y) => InSession(x))
  BY <1>2 DEF Open, Before, InSession
<1>5. /\ Served(x) /\ Sole(c.server, PagesBy(x.op)) /\ Answered(x)
      /\ CookieKnown(x, c.server) /\ ListKnown(x, c.server) /\ ViewKnown(x, c.response)
  BY <1>3, <1>4, WellFacts
<1>6. Served(frames[1])'
  <2>1. CASE InSession(x)
    BY <1>3, <1>5, <2>1
  <2>2. CASE ~InSession(x)
    BY <1>4, <2>2 DEF Served
  <2> QED
    BY <2>1, <2>2
<1>7. y.page = x.page /\ y.msgs \in {x.msgs, <<>>} /\ (y.msgs # <<>> => Last(y) = Last(x))
      /\ (y.phase = "ask" => x.phase = "ask")
  BY <1>2, <1>4 DEF Last
<1>8. Answered(y)
  <2>1. DOMAIN <<>> = {}
    OBVIOUS
  <2> QED
    BY <1>3, <1>5, <1>7, <2>1 DEF Answered
<1>9. (CookieKnown(frames[1], controls[frames[1].ref].server))'
  BY <1>1, <1>2, <1>5, <1>7 DEF CookieKnown
<1>10. (ListKnown(frames[1], controls[frames[1].ref].server))'
  BY <1>1, <1>2, <1>3, <1>4, <1>5, <1>7 DEF ListKnown
<1>11. (ViewKnown(frames[1], controls[frames[1].ref].response))'
  <2> SUFFICES ASSUME y.op = "paginated", y.phase = "yield"
               PROVE  d.response.vlv # None /\ d.response.vlv.context = view'
    BY <1>2 DEF ViewKnown
  <2>1. x.phase = "yield" /\ x.op = "paginated"
    BY <1>2, <1>4 DEF Iterates
  <2>2. d.response = c.response
    BY <1>1 DEF Well
  <2> QED
    BY <1>5, <2>1, <2>2 DEF ViewKnown
<1> QED
  BY <1>1, <1>2, <1>5, <1>6, <1>8, <1>9, <1>10, <1>11

\* The session is lost only before a search has used it.
LEMMA SeveredWell ==
  ASSUME TypeInv, GeneratorWell, Disturbed, Severed, GoesOn(1)
  PROVE  GeneratorWell'
<1> DEFINE x == frames[1]
           y == frames'[1]
           c == controls[x.ref]
           d == controls'[x.ref]
<1>1. QuietStep /\ GeneratorStill
  BY QuietStill DEF Severed
<1>2. /\ Quiet(x, y) /\ d.server = c.server
  BY <1>1 DEF GeneratorStill
<1>3. y.op = x.op /\ y.ref = x.ref
  BY <1>2 DEF Quiet
<1> SUFFICES ASSUME Well(y), Open(y)
             PROVE  /\ Served(frames[1])' /\ Sole(d.server, PagesBy(y.op)) /\ Answered(y)
                    /\ (CookieKnown(frames[1], controls[frames[1].ref].server))'
                    /\ (ListKnown(frames[1], controls[frames[1].ref].server))'
                    /\ (ViewKnown(frames[1], controls[frames[1].ref].response))'
  BY <1>3 DEF GeneratorWell
<1>4. Well(x) /\ Total(y) = Total(x) /\ Open(x)
  BY <1>2, WellBefore DEF Quiet, Open
<1>5. /\ Served(x) /\ Sole(c.server, PagesBy(x.op)) /\ Answered(x)
      /\ CookieKnown(x, c.server) /\ ListKnown(x, c.server) /\ ViewKnown(x, c.response)
  BY <1>4, WellFacts
<1>6. PICK f \in 1 .. 2 : /\ ~Free(f) /\ frames'[f].msgs = <<>>
                          /\ link = "lost" \/ (Working(f) /\ frames[f].sleeping)
  BY DEF Severed
<1>7. frames[2] \in Frame /\ 1 \in 1 .. 2
  BY FrameFacts
<1>8. f = 2 => Working(2) /\ InSession(x)
  <2>1. f = 2 => frames[2].phase \in {"ask", "poll"}
    BY <1>6, <1>7 DEF Free, Frame, TypeInv, Roles
  <2> QED
    BY <2>1 DEF Working, InSession, TypeInv, Roles
<1>9. ~InSession(x)
  <2>1. InSession(x) => link = "up" /\ ~x.sleeping /\ (Working(2) => ~frames[2].sleeping)
    BY <1>5 DEF Served
  <2> QED
    BY <1>6, <1>8, <2>1
<1>10. f = 1
  BY <1>8, <1>9
<1>11. x.phase = "ask" /\ ~(x.page > 1)
  BY <1>4, <1>9 DEF Open, InSession
<1>12. y.phase = "ask" /\ y.page = x.page /\ y.msgs = <<>>
  BY <1>2, <1>6, <1>10, <1>11 DEF Quiet, Open
<1>13. Before(y) = Before(x)
  BY <1>12 DEF Before
<1>14. ~InSession(y)
  BY <1>11, <1>12 DEF InSession
<1>15. Answered(y)
  BY <1>12 DEF Answered
<1>16. (CookieKnown(frames[1], controls[frames[1].ref].server))'
  BY <1>2, <1>3, <1>5, <1>11, <1>12 DEF CookieKnown
<1>17. (ListKnown(frames[1], controls[frames[1].ref].server))'
  BY <1>2, <1>3, <1>4, <1>5, <1>11, <1>12, <1>13 DEF ListKnown
<1>18. (ViewKnown(frames[1], controls[frames[1].ref].response))'
  BY <1>12 DEF ViewKnown
<1> QED
  BY <1>2, <1>3, <1>5, <1>14, <1>15, <1>16, <1>17, <1>18 DEF Served

\* A search begins.
LEMMA StartedWell ==
  ASSUME TypeInv, GeneratorWell, Started, Holds, TypeInv'
  PROVE  GeneratorWell'
<1>1. PICK f \in 1 .. 2, sorted \in BOOLEAN, unique \in BOOLEAN : \E op, ref :
        Starts(f, op, ref, sorted, unique)
  BY DEF Started
<1>2. PICK op, ref : Starts(f, op, ref, sorted, unique)
  BY <1>1
<1>3. ASSUME f = 2
      PROVE  GeneratorWell'
  <2>1. GeneratorStill
    BY <1>2, <1>3, CallStill
  <2> QED
    BY <2>1, ServedHolds, StillWell DEF Holds
<1>4. ASSUME f = 1
      PROVE  GeneratorWell'
  <2> DEFINE y == frames'[1]
             prepared == Prepared(op, Given(ref), sorted)
  <2>1. /\ Call(1, op, ref, sorted, unique) /\ BeginEffect(1, op, ref, sorted, unique)
        /\ Begun(1, ref)
    BY <1>2, <1>4 DEF Starts
  <2>2. /\ y.op = op /\ y.ref = ref /\ y.phase = "ask" /\ y.msgs = <<>>
        /\ y.page = 1 /\ controls'[ref] = prepared
    BY <2>1 DEF BeginEffect
  <2>3. ref \in 0 .. 2 /\ op \in {"search", "iter", "paged", "paginated"}
    BY <2>1 DEF Call
  <2>4. y.fresh => Given(ref).server = <<>>
    <3>1. y.fresh = (Given(ref).server = <<>>)
      BY <2>1 DEF Begun
    <3> QED
      BY <3>1, Zenon
  <2>5. Given(ref) \in ControlsType /\ Request(Given(ref).server)
    BY <2>3, GivenFacts
  <2>6. op = "paginated" => \A n \in DOMAIN prepared.server : prepared.server[n].type = "vlv" =>
          prepared.server[n].context = None
    BY <2>5, PreparedFacts
  <2>7. Given(ref).server = <<>> => Sole(prepared.server, PagesBy(op))
    BY <2>3, <2>5, PreparedSole
  <2>8. Given(ref).server = <<>> => (op = "paged" =>
          \A n \in DOMAIN prepared.server : prepared.server[n].type = "paged" => prepared.server[n].at = None)
    BY <2>5, PreparedFresh
  <2> HIDE DEF prepared
  <2>9. Before(y) <= Total(y)
    <3>1. y \in Frame
      BY DEF TypeInv, FramesOK
    <3>2. Total(y) \in Nat
      BY <3>1, TotalFacts
    <3>3. Before(y) = 0
      <4>1. PageSize \in Nat
        BY ConstantsAssumption
      <4> QED
        BY <2>2, <4>1 DEF Before
    <3> QED
      BY <3>2, <3>3
  <2> SUFFICES ASSUME Well(y)
               PROVE  /\ Served(frames[1])' /\ Sole(prepared.server, PagesBy(op)) /\ Answered(y)
                      /\ (CookieKnown(frames[1], controls[frames[1].ref].server))'
                      /\ (ListKnown(frames[1], controls[frames[1].ref].server))'
                      /\ (ViewKnown(frames[1], controls[frames[1].ref].response))'
    BY <2>2 DEF GeneratorWell
  <2>10. y.fresh
    BY DEF Well
  <2>11. ~InSession(y)
    BY <2>2 DEF InSession
  <2>12. Answered(y)
    BY <2>2 DEF Answered
  <2>13. (CookieKnown(frames[1], controls[frames[1].ref].server))'
    BY <2>2, <2>4, <2>8, <2>10 DEF CookieKnown
  <2>14. (ListKnown(frames[1], controls[frames[1].ref].server))'
    BY <2>2, <2>6, <2>9 DEF ListKnown
  <2>15. (ViewKnown(frames[1], controls[frames[1].ref].response))'
    BY <2>2 DEF ViewKnown
  <2> QED
    BY <2>4, <2>7, <2>10, <2>11, <2>12, <2>13, <2>14, <2>15 DEF Served
<1> QED
  BY <1>3, <1>4

(***************************************************************************)
(* Answers.                                                                *)
(***************************************************************************)
\* What the server refuses of a list is a page behind the end of a full last page.
LEMMA RefusedFull ==
  ASSUME NEW x \in Frame, x.op = "paginated", Before(x) <= Total(x), Before(x) + 1 > Total(x)
  PROVE  Full(x)
<1> DEFINE p == x.page
           size == PageSize
           total == Total(x)
<1>1. p \in Nat \ {0} /\ size \in Nat \ {0} /\ total \in Nat
  BY FrameNumbers, TotalFacts, ConstantsAssumption
<1>2. Before(x) = (p - 1) * size
  BY DEF Before
<1> HIDE DEF p, size, total
<1>3. (p - 1) * size \in Nat /\ p - 1 <= (p - 1) * size
  BY <1>1
<1>4. (p - 1) * size = total
  <2> DEFINE before == Before(x)
  <2>1. before \in Nat /\ before <= total /\ before + 1 > total /\ total \in Nat
    BY <1>1, <1>2, <1>3 DEF total
  <2> HIDE DEF before
  <2>2. before = total
    BY <2>1
  <2> QED
    BY <1>2, <2>2 DEF before
<1>5. p - 1 \in 0 .. total
  BY <1>1, <1>3, <1>4
<1> QED
  BY <1>4, <1>5 DEF Full, Total, total, size

\* A page of entries, and its cookie.
LEMMA AskCookieWell ==
  ASSUME TypeInv, NEW a, AskEffect(1, a), frames[1].op = "paged",
         Sole(controls[frames[1].ref].server, "paged"),
         CookieKnown(frames[1], controls[frames[1].ref].server)
  PROVE  a.err = "ok" /\ a.resp.paged = after'
<1> DEFINE x == frames[1]
           list == controls[x.ref].server
<1>1. x.phase = "ask" /\ Open(x) /\ after' = a.after
  BY DEF AskEffect, Open
<1>2. PICK k \in DOMAIN list : list[k].type = "paged"
  BY <1>1 DEF TypeInv, Controlled
<1>3. ServerOK /\ Request(list) /\ a \in Answers(list, None)
  BY AskRequest DEF Base
<1>4. list[k].at # None => list[k].at = after
  BY <1>1, <1>2 DEF CookieKnown
<1>5. Sole(list, "paged")
  OBVIOUS
<1> HIDE DEF list
<1>6. a \in PagedAnswers(list[k].at, dir)
  BY <1>2, <1>3, <1>5, SoleAnswers
<1>7. a.err = "ok" /\ a.resp.paged = a.after
  BY <1>4, <1>6, CookieAnswer
<1> QED
  BY <1>1, <1>7

\* A page of the list.
LEMMA AskListWell ==
  ASSUME TypeInv, OrderInv, NEW a, AskEffect(1, a), frames[1].op = "paginated", frames[1].seen = dir,
         Sole(controls[frames[1].ref].server, "vlv"),
         ListKnown(frames[1], controls[frames[1].ref].server),
         ViewAsked(frames[1], controls[frames[1].ref].server)
  PROVE  \/ a.err = "ok" /\ a.resp.vlv.context = view'
         \/ a.err = "vlvError" /\ Full(frames[1])
<1> DEFINE x == frames[1]
           list == controls[x.ref].server
<1>1. x.phase = "ask" /\ Open(x) /\ view' = a.view /\ x \in Frame
  BY FrameFacts DEF AskEffect, Open
<1>2. PICK k \in DOMAIN list : list[k].type = "vlv"
  BY <1>1 DEF TypeInv, Controlled
<1>3. ServerOK /\ Request(list) /\ a \in Answers(list, None)
  BY AskRequest DEF Base
<1>4. list[k].context # None => list[k].context = view
  BY <1>1, <1>2 DEF ListKnown
<1>5. list[k].at = Before(x) + 1
  <2>1. ControlAhead(x, list)
    BY DEF OrderInv
  <2> HIDE DEF list
  <2> QED
    BY <1>1, <1>2, <2>1 DEF ControlAhead, Before
<1>6. list[k].context # None => Len(list[k].context) = Total(x)
  BY <1>1, <1>2 DEF ViewAsked, ListsAll
<1>7. Before(x) <= Total(x)
  BY <1>1 DEF ListKnown
<1>8. Sole(list, "vlv")
  OBVIOUS
<1> HIDE DEF list
<1>9. a \in ViewAnswers(list[k], dir)
  BY <1>2, <1>3, <1>8, SoleAnswers
<1> DEFINE whole == IF list[k].context = None THEN Sorted(dir) ELSE view
<1>10. \/ a.err = "ok" /\ a.resp.vlv.context = a.view
       \/ a.err = "vlvError" /\ whole # <<>> /\ list[k].at > Len(whole)
  BY <1>4, <1>9, ListAnswer
<1>11. Len(whole) = Total(x)
  <2>1. Len(Sorted(dir)) = Cardinality(dir)
    <3>1. dir \in SUBSET Nat /\ IsFiniteSet(dir)
      BY ConstantsAssumption, FS_Subset DEF TypeInv, ServerOK
    <3> QED
      BY <3>1, SortedFacts
  <2> QED
    BY <1>4, <1>6, <2>1 DEF Total
<1> HIDE DEF whole
<1>12. a.err = "vlvError" /\ list[k].at > Len(whole) => Full(x)
  BY <1>1, <1>5, <1>7, <1>11, RefusedFull
<1> QED
  BY <1>1, <1>10, <1>12

\* The messages of an answer.
LEMMA AskRefuses ==
  ASSUME TypeInv, NEW f \in 1 .. 2, NEW a, AskEffect(f, a), NEW k \in DOMAIN frames'[f].msgs
  PROVE  frames'[f].msgs[k].err \in {"ok", a.err}
<1> DEFINE msgs == frames'[f].msgs
           len == Len(a.found)
<1>1. a \in AnswerType /\ msgs \in {Messages(a), Whole(a)}
  BY AskRequest, AskAnswer
<1>2. CASE msgs = Whole(a)
  <2>1. k = 1 /\ msgs[1].err = a.err
    BY <1>1, <1>2, WholeFacts
  <2> QED
    BY <2>1
<1>3. CASE msgs = Messages(a)
  <2> DEFINE each(n) == [found |-> <<a.found[n]>>, resp |-> NoResponse, err |-> "ok", final |-> FALSE]
             last == [found |-> <<>>, resp |-> a.resp, err |-> a.err, final |-> TRUE]
  <2>1. /\ msgs \in Seq(Reply) /\ Len(msgs) = len + 1 /\ len \in Nat
        /\ \A n \in 1 .. len : msgs[n] = each(n)
        /\ msgs[len + 1] = last
    BY <1>1, <1>3, MessagesFacts
  <2>2. (\A n : each(n).err = "ok") /\ last.err = a.err
    OBVIOUS
  <2>3. k \in DOMAIN msgs
    OBVIOUS
  <2> HIDE DEF msgs, each, last, len
  <2>4. k \in 1 .. len \/ k = len + 1
    BY <2>1, <2>3
  <2>5. msgs[k].err \in {"ok", a.err}
    BY <2>1, <2>2, <2>4
  <2> QED
    BY <2>5 DEF msgs
<1> QED
  BY <1>1, <1>2, <1>3

\* An answer to the generator.
LEMMA GeneratorAskWell ==
  ASSUME TypeInv, OrderInv, GeneratorNumbered, GeneratorWell, NEW a, AskEffect(1, a), GoesOn(1),
         link' = "up", ~frames'[1].sleeping
  PROVE  GeneratorWell'
<1> DEFINE x == frames[1]
           y == frames'[1]
           c == controls[x.ref]
<1>1. /\ x.phase = "ask" /\ y.phase = "poll" /\ y.op = x.op /\ y.ref = x.ref /\ y.page = x.page
      /\ controls' = controls /\ frames'[2] = frames[2] /\ 1 \in 1 .. 2 /\ 2 \in 1 .. 2
      /\ y.msgs = IF x.op \in Iterates THEN Messages(a) ELSE Whole(a)
  BY DEF AskEffect
<1> SUFFICES ASSUME Well(y)
             PROVE  /\ Served(frames[1])' /\ Sole(c.server, PagesBy(y.op)) /\ Answered(y)
                    /\ (CookieKnown(frames[1], controls[frames[1].ref].server))'
                    /\ (ListKnown(frames[1], controls[frames[1].ref].server))'
                    /\ (ViewKnown(frames[1], controls[frames[1].ref].response))'
  BY <1>1 DEF GeneratorWell
<1>2. Well(x) /\ (Full(x) => Full(y)) /\ Open(x)
  BY <1>1, WellBefore DEF Open
<1>3. /\ Sole(c.server, PagesBy(x.op)) /\ CookieKnown(x, c.server) /\ ListKnown(x, c.server)
  BY <1>2, WellFacts
<1>4. ASSUME x.op = "paged"
      PROVE  a.err = "ok" /\ a.resp.paged = after'
  <2>1. Sole(c.server, "paged")
    BY <1>3, <1>4 DEF PagesBy
  <2> QED
    BY <1>3, <1>4, <2>1, AskCookieWell
<1>5. ASSUME x.op = "paginated"
      PROVE  \/ a.err = "ok" /\ a.resp.vlv.context = view'
             \/ a.err = "vlvError" /\ Full(x)
  <2>1. Sole(c.server, "vlv")
    BY <1>3, <1>5 DEF PagesBy
  <2>2. Numbering(x)
    BY <1>2, <1>5 DEF Well, Numbering
  <2>3. x.seen = dir /\ ViewAsked(x, c.server)
    BY <1>2, <2>2 DEF GeneratorNumbered
  <2> QED
    BY <1>3, <1>5, <2>1, <2>3, AskListWell
<1>6. ASSUME x.op \notin {"paged", "paginated"}
      PROVE  a.err = "ok"
  <2>1. Plain(c.server)
    BY <1>3, <1>6 DEF Sole, PagesBy, Plain
  <2>2. Request(c.server) /\ a \in Answers(c.server, None)
    BY AskRequest DEF Base
  <2> QED
    BY <2>1, <2>2, PlainAnswer
<1>7. Answered(y)
  <2>1. \A k \in DOMAIN y.msgs : y.msgs[k].err \in {"ok", a.err}
    BY <1>1, AskRefuses
  <2>2. a.err = "ok" \/ (a.err = "vlvError" /\ Full(y))
    BY <1>2, <1>4, <1>5, <1>6
  <2> QED
    BY <2>1, <2>2 DEF Answered
<1>8. Last(y).resp = a.resp
  BY AskReads
<1>9. (CookieKnown(frames[1], controls[frames[1].ref].server))'
  BY <1>1, <1>4, <1>8 DEF CookieKnown
<1>10. x.op = "paginated" => y.msgs[1].err = a.err /\ y.msgs[1].resp = a.resp
  <2>1. a \in AnswerType
    BY <1>1, AskAnswer
  <2>2. x.op = "paginated" => y.msgs = Whole(a)
    BY <1>1 DEF Iterates
  <2> QED
    BY <2>1, <2>2, WholeFacts
<1>11. (ListKnown(frames[1], controls[frames[1].ref].server))'
  BY <1>1, <1>5, <1>10 DEF ListKnown
<1>12. (ViewKnown(frames[1], controls[frames[1].ref].response))'
  BY <1>1 DEF ViewKnown
<1>13. Served(frames[1])'
  <2>1. ~Working(2)'
    BY <1>1 DEF Working, TypeInv, Roles
  <2> QED
    BY <2>1 DEF Served
<1> QED
  BY <1>1, <1>3, <1>7, <1>9, <1>11, <1>12, <1>13

\* An answer to a get(): the session stays, if its controls do not page.
LEMMA AskWell ==
  ASSUME TypeInv, OrderInv, GeneratorNumbered, GeneratorWell, CallWell, Answering,
         \A g \in 1 .. 2 : GoesOn(g)
  PROVE  GeneratorWell'
<1>1. PICK f \in 1 .. 2 : \E a : AskEffect(f, a) /\ link = "up" /\ link' = "up" /\ ~frames'[f].sleeping
  BY DEF Answering
<1>2. PICK a : AskEffect(f, a) /\ link = "up" /\ link' = "up" /\ ~frames'[f].sleeping
  BY <1>1
<1>3. ASSUME f = 1
      PROVE  GeneratorWell'
  BY <1>2, <1>3, GeneratorAskWell
<1>4. ASSUME f = 2
      PROVE  GeneratorWell'
  <2> DEFINE list == controls[frames[2].ref].server
  <2>1. /\ frames'[1] = frames[1] /\ controls' = controls /\ Working(2)
        /\ after' = a.after /\ view' = a.view /\ 1 \in 1 .. 2 /\ 2 \in 1 .. 2
    BY <1>2, <1>4 DEF AskEffect, Working
  <2>2. GeneratorStill
    BY <1>2, <1>4, AskStill
  <2>3. Request(list) /\ a \in Answers(list, 1)
    BY <1>2, <1>4, AskRequest DEF Base
  <2>4. "server" \notin frames[1].meddled => Plain(list)
    BY <2>1 DEF CallWell
  <2> HIDE DEF list
  <2>5. ASSUME Well(frames[1])
        PROVE  after' = after /\ view' = view
    BY <2>1, <2>3, <2>4, <2>5, PlainAnswer DEF Well
  <2>6. ASSUME ~Well(frames[1])
        PROVE  GeneratorWell'
    BY <2>1, <2>6 DEF GeneratorWell
  <2>7. Served(frames[1]) /\ InSession(frames[1]) => Served(frames[1])'
    BY <1>2, <1>4, <2>1 DEF Served, Working
  <2> QED
    BY <2>2, <2>5, <2>6, <2>7, StillWell
<1> QED
  BY <1>3, <1>4

(***************************************************************************)
(* The search goes on.                                                     *)
(***************************************************************************)
\* What an undisturbed search that has been answered keeps by a step that holds the session.
LEMMA WellOn ==
  ASSUME TypeInv, GeneratorWell, Holds, GoesOn(1), Well(frames'[1]),
         frames[1].phase \in {"poll", "yield"}
  PROVE  LET x == frames[1]
             c == controls[x.ref]
         IN /\ Well(x) /\ Served(frames[1])' /\ Sole(c.server, PagesBy(x.op)) /\ Answered(x)
            /\ CookieKnown(x, c.server) /\ ListKnown(x, c.server) /\ ViewKnown(x, c.response)
            /\ Total(frames'[1]) = Total(x) /\ (Full(x) => Full(frames'[1]))
            /\ after' = after /\ view' = view
<1>1. /\ Well(frames[1]) /\ Total(frames'[1]) = Total(frames[1])
      /\ Full(frames[1]) => Full(frames'[1])
  BY WellBefore
<1>2. Open(frames[1]) /\ InSession(frames[1])
  BY DEF Open, InSession
<1>3. LET x == frames[1]
          c == controls[x.ref]
      IN /\ Served(x) /\ Sole(c.server, PagesBy(x.op)) /\ Answered(x)
         /\ CookieKnown(x, c.server) /\ ListKnown(x, c.server) /\ ViewKnown(x, c.response)
  BY <1>1, <1>2, WellFacts
<1>4. Served(frames[1])'
  BY <1>2, <1>3, ServedHolds
<1>5. after' = after /\ view' = view
  BY DEF Holds
<1> QED
  BY <1>1, <1>3, <1>4, <1>5

LEMMA EntryYieldsWell ==
  ASSUME TypeInv, GeneratorWell, Holds, GoesOn(1), EntryYields
  PROVE  GeneratorWell'
<1> DEFINE x == frames[1]
           y == frames'[1]
           c == controls[x.ref]
           d == controls'[x.ref]
<1>1. /\ x.phase = "poll" /\ x.op \in Iterates /\ x.msgs # <<>> /\ Controlling(1, Received(1))
      /\ y.phase = "yield" /\ y.op = x.op /\ y.ref = x.ref /\ y.msgs = Tail(x.msgs)
  BY DEF EntryYields, YieldEffect
<1>2. x \in Frame /\ x.ref \in 0 .. 2 /\ x.op # "paginated"
  BY <1>1, FrameFacts DEF Iterates
<1>3. d.server = c.server
  BY <1>1, <1>2, FrameFacts, ReceivedFacts
<1> SUFFICES ASSUME Well(y)
             PROVE  /\ Served(frames[1])' /\ Sole(d.server, PagesBy(y.op)) /\ Answered(y)
                    /\ (CookieKnown(frames[1], controls[frames[1].ref].server))'
  BY <1>1, <1>2 DEF GeneratorWell, ListKnown, ViewKnown
<1>4. /\ Served(frames[1])' /\ Sole(c.server, PagesBy(x.op)) /\ Answered(x)
      /\ CookieKnown(x, c.server) /\ (Full(x) => Full(y)) /\ after' = after
  BY <1>1, WellOn
<1>5. \A k \in DOMAIN y.msgs : k + 1 \in DOMAIN x.msgs /\ y.msgs[k] = x.msgs[k + 1]
  <2> DEFINE s == x.msgs
             t == Tail(s)
  <2>1. s \in Seq(Reply) /\ s # <<>>
    BY <1>1, <1>2 DEF Frame
  <2> HIDE DEF s
  <2>2. t \in Seq(Reply) /\ Len(t) = Len(s) - 1 /\ \A k \in 1 .. Len(t) : t[k] = s[k + 1]
    BY <2>1, HeadTailProperties
  <2> HIDE DEF t
  <2>3. \A k \in DOMAIN t : k + 1 \in DOMAIN s /\ t[k] = s[k + 1]
    BY <2>1, <2>2
  <2> QED
    BY <1>1, <2>3 DEF s, t
<1>6. Answered(y)
  BY <1>4, <1>5 DEF Answered
<1>7. y.msgs # <<>> => Last(y) = Last(x)
  BY <1>1, <1>2, TailMessages
<1>8. (CookieKnown(frames[1], controls[frames[1].ref].server))'
  BY <1>1, <1>4, <1>7 DEF CookieKnown
<1> QED
  BY <1>1, <1>3, <1>4, <1>6, <1>8

LEMMA EntryResumesWell ==
  ASSUME TypeInv, GeneratorWell, Holds, GoesOn(1), EntryResumes
  PROVE  GeneratorWell'
<1> DEFINE x == frames[1]
           y == frames'[1]
           c == controls[x.ref]
<1>1. /\ x.phase = "yield" /\ x.op = "paginated" /\ controls' = controls
      /\ y.phase = "yield" /\ y.op = x.op /\ y.ref = x.ref /\ y.msgs = <<>>
  BY DEF EntryResumes, YieldEffect
<1> SUFFICES ASSUME Well(y)
             PROVE  /\ Served(frames[1])' /\ Sole(c.server, PagesBy(y.op)) /\ Answered(y)
                    /\ (ViewKnown(frames[1], controls[frames[1].ref].response))'
  BY <1>1 DEF GeneratorWell, CookieKnown, ListKnown
<1>2. /\ Served(frames[1])' /\ Sole(c.server, PagesBy(x.op)) /\ ViewKnown(x, c.response) /\ view' = view
  BY <1>1, WellOn
<1>3. Answered(y)
  BY <1>1 DEF Answered
<1>4. (ViewKnown(frames[1], controls[frames[1].ref].response))'
  BY <1>1, <1>2 DEF ViewKnown
<1> QED
  BY <1>1, <1>2, <1>3, <1>4

LEMMA PageYieldsWell ==
  ASSUME TypeInv, GeneratorWell, Holds, GoesOn(1), PageYields
  PROVE  GeneratorWell'
<1> DEFINE x == frames[1]
           y == frames'[1]
           c == controls[x.ref]
           d == controls'[x.ref]
           m == Message(1)
<1>1. /\ x.phase = "poll" /\ x.op = "paginated" /\ x.msgs # <<>> /\ m.err = "ok"
      /\ Controlling(1, Received(1))
      /\ y.phase = "yield" /\ y.op = x.op /\ y.ref = x.ref /\ y.msgs = <<>>
  BY DEF PageYields, YieldEffect, Accepted
<1>2. x.ref \in 0 .. 2 /\ FrameOK(x)
  BY FrameFacts
<1>3. m = x.msgs[1] /\ 1 \in DOMAIN x.msgs /\ d.response = m.resp /\ d.server = c.server
  BY <1>1, <1>2, FrameFacts, MessageFacts, ReceivedFacts
<1> HIDE DEF m
<1>4. m.resp.vlv # None
  BY <1>1, <1>2, <1>3 DEF FrameOK
<1> SUFFICES ASSUME Well(y)
             PROVE  /\ Served(frames[1])' /\ Sole(d.server, PagesBy(y.op)) /\ Answered(y)
                    /\ (ViewKnown(frames[1], controls[frames[1].ref].response))'
  BY <1>1 DEF GeneratorWell, CookieKnown, ListKnown
<1>5. /\ Served(frames[1])' /\ Sole(c.server, PagesBy(x.op)) /\ ListKnown(x, c.server) /\ view' = view
  BY <1>1, WellOn
<1>6. Answered(y)
  BY <1>1 DEF Answered
<1>7. m.resp.vlv.context = view
  BY <1>1, <1>3, <1>5 DEF ListKnown
<1>8. (ViewKnown(frames[1], controls[frames[1].ref].response))'
  BY <1>1, <1>3, <1>4, <1>5, <1>7 DEF ViewKnown
<1> QED
  BY <1>1, <1>3, <1>5, <1>6, <1>8

LEMMA PageTurnsWell ==
  ASSUME TypeInv, CompleteInv, GeneratorWell, Holds, GoesOn(1), PageTurns
  PROVE  GeneratorWell'
<1> DEFINE x == frames[1]
           y == frames'[1]
           list == controls[x.ref].server
           new == controls'[x.ref].server
           cookie == Message(1).resp.paged
<1>1. /\ x.phase = "poll" /\ x.op = "paged" /\ x.msgs # <<>> /\ Message(1).final /\ cookie # None
      /\ y.phase = "ask" /\ y.msgs = <<>> /\ y.op = x.op /\ y.ref = x.ref /\ y.page = x.page + 1
      /\ \E n \in DOMAIN new : new[n].type = "paged" /\ new[n].at = cookie
      /\ \A n \in DOMAIN new : n \in DOMAIN list /\ new[n].type = list[n].type
  BY DEF PageTurns, TurnEffect
<1> SUFFICES ASSUME Well(y)
             PROVE  /\ Served(frames[1])' /\ Sole(new, PagesBy(y.op)) /\ Answered(y)
                    /\ (CookieKnown(frames[1], controls[frames[1].ref].server))'
  BY <1>1 DEF GeneratorWell, ListKnown, ViewKnown
<1>2. /\ Served(frames[1])' /\ Sole(list, PagesBy(x.op)) /\ CookieKnown(x, list) /\ after' = after
  BY <1>1, WellOn
<1>3. Last(x) = Message(1)
  BY <1>1, LastMessage DEF CompleteInv, GeneratorComplete
<1>4. cookie = after
  BY <1>1, <1>2, <1>3 DEF CookieKnown
<1>5. y.page > 1
  BY <1>1, FrameFacts, FrameNumbers
<1> HIDE DEF list, new, cookie
<1>6. Sole(new, "paged")
  BY <1>1, <1>2 DEF Sole, PagesBy
<1>7. \A k \in DOMAIN new : new[k].type = "paged" => new[k].at = cookie
  BY <1>1, <1>6 DEF Sole
<1>8. (CookieKnown(frames[1], controls[frames[1].ref].server))'
  BY <1>1, <1>2, <1>4, <1>5, <1>7 DEF CookieKnown, new
<1>9. Answered(y)
  BY <1>1 DEF Answered
<1> QED
  BY <1>1, <1>2, <1>6, <1>8, <1>9 DEF PagesBy

LEMMA WindowTurnsWell ==
  ASSUME TypeInv, GeneratorNumbered, GeneratorWell, Holds, GoesOn(1), WindowTurns
  PROVE  GeneratorWell'
<1> DEFINE x == frames[1]
           y == frames'[1]
           c == controls[x.ref]
           vlv == c.response.vlv
           new == controls'[x.ref].server
           control == VirtualListView(x.page * PageSize + 1, vlv.context)
<1>1. /\ x.phase = "yield" /\ x.op = "paginated" /\ vlv # None
      /\ y.phase = "ask" /\ y.msgs = <<>> /\ y.op = x.op /\ y.ref = x.ref /\ y.page = x.page + 1
      /\ \A n \in DOMAIN new : new[n].type = "vlv" => new[n].context = vlv.context
      /\ controls'[x.ref] = SetServer(c, control)
  BY DEF WindowTurns, TurnEffect
<1> SUFFICES ASSUME Well(y)
             PROVE  /\ Served(frames[1])' /\ Sole(new, PagesBy(y.op)) /\ Answered(y)
                    /\ (ListKnown(frames[1], controls[frames[1].ref].server))'
  BY <1>1 DEF GeneratorWell, CookieKnown, ViewKnown
<1>2. /\ Well(x) /\ Served(frames[1])' /\ Sole(c.server, PagesBy(x.op)) /\ ViewKnown(x, c.response)
      /\ view' = view /\ Total(y) = Total(x)
  BY <1>1, WellOn
<1>3. x \in Frame /\ x.ref \in 0 .. 2 /\ x.page \in Nat \ {0} /\ PageSize \in Nat
  BY FrameFacts, FrameNumbers, ConstantsAssumption
<1>4. c \in ControlsType /\ Request(c.server) /\ vlv \in View
  BY <1>1, <1>3 DEF TypeInv, ControlsOK, ControlsType, ResponseType
<1>5. control \in Control /\ control.type = "vlv"
  <2> DEFINE at == x.page * PageSize + 1
  <2>1. at \in Place
    BY <1>3 DEF Place
  <2> HIDE DEF at
  <2>2. vlv.context \in Seq(Entries)
    BY <1>4 DEF View
  <2> QED
    BY <2>1, <2>2 DEF VirtualListView, Control, at
<1> HIDE DEF control
<1>6. Sole(new, "vlv")
  <2>1. Sole(c.server, "vlv")
    BY <1>1, <1>2 DEF PagesBy
  <2> HIDE DEF c
  <2>2. Sole(SetServer(c, control).server, "vlv")
    BY <1>4, <1>5, <2>1, SetServerSole
  <2> QED
    BY <1>1, <2>2
<1>7. vlv.count = Total(x)
  <2>1. Numbering(x) /\ Open(x)
    BY <1>1, <1>2 DEF Well, Numbering, Open
  <2>2. ViewGiven(x, c.response)
    BY <2>1 DEF GeneratorNumbered
  <2> QED
    BY <1>1, <2>2 DEF ViewGiven, Viewed
<1>8. Before(y) <= Total(y)
  <2> DEFINE before == Before(y)
             total == Total(y)
  <2>1. before \in Nat /\ total \in Nat
    BY <1>2, <1>3, WindowTurnsBefore, BeforeFacts, TotalFacts
  <2>2. ~(before > total)
    BY <1>2, <1>7, WindowTurnsBefore
  <2> HIDE DEF before, total
  <2>3. before <= total
    BY <2>1, <2>2
  <2> QED
    BY <2>3 DEF before, total
<1>9. vlv.context = view'
  <2> HIDE DEF vlv
  <2>1. x.op = "paginated" /\ x.phase = "yield"
    BY <1>1
  <2> QED
    BY <1>2, <2>1 DEF ViewKnown, vlv
<1>10. y.page > 1
  BY WindowTurnsBefore
<1> DEFINE context == vlv.context
<1>11. \A n \in DOMAIN new : new[n].type = "vlv" => new[n].context = context
  BY <1>1
<1>12. y.op = "paginated" /\ y.phase = "ask" /\ y.msgs = <<>> /\ y.ref = x.ref
  BY <1>1
<1>13. context = view'
  BY <1>9
<1> HIDE DEF context
<1>14. (ListKnown(frames[1], controls[frames[1].ref].server))'
  BY <1>8, <1>10, <1>11, <1>12, <1>13 DEF ListKnown
<1>15. Answered(y)
  BY <1>12 DEF Answered
<1> QED
  BY <1>2, <1>6, <1>12, <1>14, <1>15 DEF PagesBy

\* A generator that is done, or disturbed, claims nothing.
LEMMA NotWell ==
  ASSUME Open(frames'[1]) => ~Well(frames'[1])
  PROVE  GeneratorWell'
BY DEF GeneratorWell

\* A step that holds the session keeps the invariant of the generator.
LEMMA HoldsWell ==
  ASSUME TypeInv, CompleteInv, GeneratorNumbered, GeneratorWell, Holds, Progress, GoesOn(1)
  PROVE  GeneratorWell'
<1>1. /\ Disturbed /\ after' = after /\ view' = view
      /\ Served(frames[1]) /\ InSession(frames[1]) => Served(frames[1])'
  BY ServedHolds DEF CompleteInv, Holds
<1>2. CASE QuietStep
  BY <1>1, <1>2, QuietStill, StillWell
<1>3. CASE Asks
  BY <1>3 DEF Asks, AskEffect, Holds
<1>4. CASE Returned
  <2>1. PICK f \in 1 .. 2 : ReturnsEffect(f)
    BY <1>4 DEF Returned
  <2>2. CASE f = 1
    BY <2>1, <2>2, NotWell DEF ReturnsEffect, Open
  <2>3. CASE f = 2
    BY <1>1, <2>1, <2>3, ReturnsStill, StillWell
  <2> QED
    BY <2>2, <2>3
<1>5. CASE Ends
  BY <1>5, NotWell DEF Ends, Open
<1> QED
  BY <1>2, <1>3, <1>4, <1>5, EntryYieldsWell, EntryResumesWell, PageTurnsWell, PageYieldsWell,
     WindowTurnsWell DEF Progress

\* Every step begins a call, or goes on with both frames and does one of these to the session.
LEMMA NextGoesLinked ==
  ASSUME TypeInv, [Next]_vars
  PROVE  /\ TypeInv'
         /\ (Started /\ Holds) \/ (Progress /\ Linked /\ \A g \in 1 .. 2 : GoesOn(g))
<1>1. TypeInv' /\ Linked /\ (Begins \/ Proceeds)
  BY NextMoves, NextLinked, BeginsOrProceeds
<1>2. ASSUME Begins
      PROVE  Started /\ Holds
  BY <1>2, CallStarts, BeginHolds DEF Begins
<1>3. ASSUME Proceeds
      PROVE  Progress /\ \A g \in 1 .. 2 : GoesOn(g)
  BY <1>3, ProceedsProgress, ProceedsGoesOn
<1> QED
  BY <1>1, <1>2, <1>3

\* Every step keeps the invariant of the generator.
LEMMA GeneratorWellStep ==
  ASSUME TypeInv, OrderInv, CompleteInv, GeneratorNumbered, GeneratorWell, CallWell, [Next]_vars
  PROVE  GeneratorWell'
<1>1. /\ TypeInv'
      /\ (Started /\ Holds) \/ (Progress /\ Linked /\ \A g \in 1 .. 2 : GoesOn(g))
  BY NextGoesLinked
<1>2. ASSUME Started, Holds
      PROVE  GeneratorWell'
  BY <1>1, <1>2, StartedWell
<1>3. ASSUME Progress, Linked, \A g \in 1 .. 2 : GoesOn(g)
      PROVE  GeneratorWell'
  <2>1. GoesOn(1) /\ Disturbed
    BY <1>3 DEF CompleteInv
  <2>2. CASE Holds
    BY <1>3, <2>1, <2>2, HoldsWell
  <2>3. CASE Answering
    BY <1>3, <2>3, AskWell
  <2>4. CASE Severed
    BY <2>1, <2>4, SeveredWell
  <2>5. CASE Unsettled
    BY <2>5, NotWell DEF Unsettled, Well
  <2> QED
    BY <1>3, <2>2, <2>3, <2>4, <2>5 DEF Linked
<1> QED
  BY <1>1, <1>2, <1>3

(***************************************************************************)
(* The invariant of the call.                                              *)
(***************************************************************************)
LEMMA CallStays ==
  ASSUME CallWell, GoesOn(1), GoesOn(2), Working(2)' => Working(2), frames'[2].ref = frames[2].ref,
         controls'[frames[2].ref].server = controls[frames[2].ref].server,
         Working(2)' => frames'[2].msgs \in {frames[2].msgs, <<>>}
  PROVE  CallWell'
<1>1. frames'[2].fresh = frames[2].fresh /\ frames[1].meddled \subseteq frames'[1].meddled
  BY DEF GoesOn, Goes, Aged
<1>2. DOMAIN <<>> = {}
  OBVIOUS
<1> SUFFICES ASSUME Working(2)'
             PROVE  LET list == controls[frames[2].ref].server
                    IN /\ frames'[2].fresh =>
                            /\ list = <<>>
                            /\ \A k \in DOMAIN frames'[2].msgs :
                                 frames'[2].msgs[k].err \in {"ok", "noSuchObject"}
                       /\ "server" \notin frames'[1].meddled => Plain(list)
  BY DEF CallWell
<1>3. LET list == controls[frames[2].ref].server
      IN /\ frames[2].fresh => /\ list = <<>>
                               /\ \A k \in DOMAIN frames[2].msgs :
                                    frames[2].msgs[k].err \in {"ok", "noSuchObject"}
         /\ "server" \notin frames[1].meddled => Plain(list)
  BY DEF CallWell
<1>4. frames'[2].msgs = frames[2].msgs \/ frames'[2].msgs = <<>>
  OBVIOUS
<1> QED
  BY <1>1, <1>2, <1>3, <1>4

\* A call works only while the generator is suspended.
LEMMA NoCallWell ==
  ASSUME TypeInv, TypeInv',
         \/ frames'[1].phase # "yield"
         \/ frames[1].phase # "yield" /\ frames'[2] = frames[2]
  PROVE  CallWell'
<1>1. ~Working(2)'
  BY DEF TypeInv, Roles, Working
<1> QED
  BY <1>1 DEF CallWell

LEMMA StartedCallWell ==
  ASSUME TypeInv, Started, TypeInv'
  PROVE  CallWell'
<1>1. PICK f \in 1 .. 2, sorted \in BOOLEAN, unique \in BOOLEAN : \E op, ref :
        Starts(f, op, ref, sorted, unique)
  BY DEF Started
<1>2. PICK op, ref : Starts(f, op, ref, sorted, unique)
  BY <1>1
<1>3. /\ Call(f, op, ref, sorted, unique) /\ BeginEffect(f, op, ref, sorted, unique) /\ Begun(f, ref)
  BY <1>2 DEF Starts
<1>4. CASE f = 1
  <2>1. frames'[1].phase = "ask"
    BY <1>3, <1>4 DEF BeginEffect
  <2> QED
    BY <2>1, NoCallWell
<1>5. CASE f = 2
  <2> DEFINE given == Given(ref)
             meddling == Meddling(2, ref, given, frames[1])
  <2>1. /\ op = "get" /\ ~sorted /\ ref \in {0, 2}
        /\ frames'[2].ref = ref /\ frames'[2].msgs = <<>>
        /\ controls'[ref] = Prepared(op, given, sorted)
    BY <1>3, <1>5 DEF Call, BeginEffect
  <2>2. given \in ControlsType /\ Request(given.server)
    BY <2>1, GivenFacts
  <2>3. frames'[2].fresh = (given.server = <<>>)
    BY <1>3, <1>5 DEF Begun
  <2>4. frames'[1].meddled = frames[1].meddled \cup meddling
    BY <1>2, <1>5 DEF Starts
  <2> HIDE DEF given
  <2>5. controls'[ref] = given
    BY <2>1, <2>2, PreparedFacts
  <2>6. frames'[2].fresh => given.server = <<>>
    BY <2>3, Zenon
  <2>7. "server" \notin frames'[1].meddled => Plain(given.server)
    <3>1. Paging(given) => "server" \in meddling
      BY DEF Meddling
    <3> QED
      BY <2>4, <3>1 DEF Paging, Plain
  <2>8. DOMAIN <<>> = {}
    OBVIOUS
  <2> QED
    BY <2>1, <2>5, <2>6, <2>7, <2>8 DEF CallWell
<1> QED
  BY <1>4, <1>5

LEMMA AskCallWell ==
  ASSUME TypeInv, CallWell, Asks, GoesOn(1), GoesOn(2)
  PROVE  CallWell'
<1>1. PICK f \in 1 .. 2 : \E a : AskEffect(f, a)
  BY DEF Asks
<1>2. PICK a : AskEffect(f, a)
  BY <1>1
<1>3. CASE f = 1
  <2>1. frames'[2] = frames[2] /\ controls' = controls
    BY <1>2, <1>3 DEF AskEffect
  <2> QED
    BY <2>1, CallStays DEF Working
<1>4. CASE f = 2
  <2> DEFINE list == controls[frames[2].ref].server
  <2>1. /\ frames[2].phase = "ask" /\ frames'[2].ref = frames[2].ref /\ controls' = controls
        /\ frames'[1] = frames[1] /\ 2 \in 1 .. 2
    BY <1>2, <1>4 DEF AskEffect
  <2>2. Working(2)
    BY <2>1 DEF Working
  <2>3. /\ frames[2].fresh => list = <<>>
        /\ "server" \notin frames[1].meddled => Plain(list)
    BY <2>2 DEF CallWell
  <2>4. frames'[2].fresh = frames[2].fresh
    BY DEF GoesOn, Goes, Aged
  <2>5. Request(list) /\ a \in Answers(list, 1)
    BY <1>2, <1>4, AskRequest DEF Base
  <2>6. \A k \in DOMAIN frames'[2].msgs : frames'[2].msgs[k].err \in {"ok", a.err}
    BY <1>2, <1>4, AskRefuses
  <2> HIDE DEF list
  <2>7. list = <<>> => a.err \in {"ok", "noSuchObject"}
    <3>1. DOMAIN <<>> = {}
      OBVIOUS
    <3>2. list = <<>> => Plain(list)
      BY <3>1 DEF Plain
    <3> QED
      BY <2>5, <3>2, PlainAnswer
  <2>8. frames'[2].fresh => \A k \in DOMAIN frames'[2].msgs :
          frames'[2].msgs[k].err \in {"ok", "noSuchObject"}
    BY <2>3, <2>4, <2>6, <2>7
  <2> QED
    BY <2>1, <2>3, <2>4, <2>8 DEF CallWell, list
<1> QED
  BY <1>3, <1>4

LEMMA QuietCallWell ==
  ASSUME TypeInv, CallWell, QuietStep, GoesOn(1), GoesOn(2)
  PROVE  CallWell'
<1>1. Quiet(frames[2], frames'[2]) /\ ControlsKept /\ frames[2].ref \in 0 .. 2
  <2>1. 2 \in 1 .. 2
    OBVIOUS
  <2> QED
    BY <2>1, FrameFacts DEF QuietStep
<1>2. frames[2].phase # "yield"
  BY DEF TypeInv, Roles
<1>3. Working(2)' => Working(2) /\ frames'[2].msgs \in {frames[2].msgs, <<>>}
  BY <1>1, <1>2 DEF Working, Quiet
<1>4. frames'[2].ref = frames[2].ref
  BY <1>1 DEF Quiet
<1>5. controls'[frames[2].ref].server = controls[frames[2].ref].server
  BY <1>1 DEF ControlsKept
<1> QED
  BY <1>3, <1>4, <1>5, CallStays

LEMMA ReturnedCallWell ==
  ASSUME TypeInv, CallWell, Returned, GoesOn(1), GoesOn(2)
  PROVE  CallWell'
<1>1. PICK f \in 1 .. 2 : ReturnsEffect(f)
  BY DEF Returned
<1>2. CASE f = 1
  <2>1. frames'[2] = frames[2] /\ Controlling(1, Received(1)) /\ frames[1].msgs # <<>>
    BY <1>1, <1>2 DEF ReturnsEffect
  <2>2. frames[2].ref \in 0 .. 2 /\ 1 \in 1 .. 2
    BY FrameFacts
  <2>3. controls'[frames[2].ref].server = controls[frames[2].ref].server
    BY <2>1, <2>2, ReceivedFacts
  <2> QED
    BY <2>1, <2>3, CallStays DEF Working
<1>3. CASE f = 2
  <2>1. ~Working(2)'
    BY <1>1, <1>3 DEF ReturnsEffect, Working
  <2> QED
    BY <2>1 DEF CallWell
<1> QED
  BY <1>2, <1>3

LEMMA CallWellStep ==
  ASSUME TypeInv, CallWell, [Next]_vars
  PROVE  CallWell'
<1>1. TypeInv' /\ (Started \/ (Progress /\ \A g \in 1 .. 2 : GoesOn(g)))
  BY NextGoesOn
<1>2. CASE Started
  BY <1>1, <1>2, StartedCallWell
<1>3. ASSUME Progress, \A g \in 1 .. 2 : GoesOn(g)
      PROVE  CallWell'
  <2>1. GoesOn(1) /\ GoesOn(2)
    BY <1>3
  <2>2. CASE EntryYields
    BY <1>1, <2>2, NoCallWell DEF EntryYields, YieldEffect
  <2>3. CASE EntryResumes
    <3>1. ~Working(2)'
      BY <2>3 DEF EntryResumes, YieldEffect, Working
    <3> QED
      BY <3>1 DEF CallWell
  <2>4. CASE PageTurns
    BY <1>1, <2>4, NoCallWell DEF PageTurns, TurnEffect
  <2>5. CASE PageYields
    BY <1>1, <2>5, NoCallWell DEF PageYields, YieldEffect
  <2>6. CASE WindowTurns
    BY <1>1, <2>6, NoCallWell DEF WindowTurns, TurnEffect
  <2>7. CASE Ends
    BY <1>1, <2>7, NoCallWell DEF Ends
  <2> QED
    BY <1>3, <2>1, <2>2, <2>3, <2>4, <2>5, <2>6, <2>7, QuietCallWell, AskCallWell, ReturnedCallWell
    DEF Progress
<1> QED
  BY <1>1, <1>2, <1>3

(***************************************************************************)
(* How a search ends.                                                      *)
(***************************************************************************)
\* A generator that the server refuses has a full last page.
LEMMA GeneratorEnds ==
  ASSUME TypeInv, GeneratorWell, GoesOn(1), NEW res \in Raised, Fails(1, res)
  PROVE  Full(frames'[1]) \/ (res = "notUnique" /\ frames'[1].unique)
<1> DEFINE x == frames[1]
           y == frames'[1]
<1>1. x.phase # "done" /\ y.phase = "done" /\ y.res = res /\ link' = "up" /\ y.calm /\ Well(y)
  BY DEF Fails, Well
<1>2. y.unique = x.unique /\ Well(x) /\ (Full(x) => Full(y)) /\ EndsSo(1, x, y)
  BY <1>1, WellBefore DEF GoesOn, Goes, Aged
<1>3. \/ res = "notUnique" /\ x.unique
      \/ /\ res = "attributeError" /\ x.phase = "yield" /\ x.op = "paginated"
         /\ controls[x.ref].response.vlv = None
      \/ x.phase = "poll" /\ x.msgs # <<>> /\ res = Message(1).err
  BY <1>1, <1>2 DEF EndsSo, Raised, Refused
<1>4. ASSUME x.phase = "yield", x.op = "paginated", controls[x.ref].response.vlv = None
      PROVE  FALSE
  <2>1. Open(x)
    BY <1>4 DEF Open
  <2>2. ViewKnown(x, controls[x.ref].response)
    BY <1>2, <2>1, WellFacts
  <2> QED
    BY <1>4, <2>2 DEF ViewKnown
<1>5. ASSUME x.phase = "poll", x.msgs # <<>>, res = Message(1).err
      PROVE  Full(y)
  <2>1. Open(x)
    BY <1>5 DEF Open
  <2>2. Answered(x)
    BY <1>2, <2>1, WellFacts
  <2>3. Message(1) = x.msgs[1] /\ 1 \in DOMAIN x.msgs
    BY <1>5, FrameFacts, MessageFacts
  <2>4. res # "ok"
    BY DEF Raised
  <2> QED
    BY <1>2, <1>5, <2>2, <2>3, <2>4 DEF Answered
<1> QED
  BY <1>2, <1>3, <1>4, <1>5

\* A get() is not refused but for the want of its entry.
LEMMA CallEnds ==
  ASSUME TypeInv, CallWell, GoesOn(2), NEW res \in Raised, Fails(2, res)
  PROVE  res = "notUnique" /\ frames'[2].unique
<1> DEFINE x == frames[2]
           y == frames'[2]
<1>1. x.phase # "done" /\ y.phase = "done" /\ y.res = res /\ link' = "up" /\ y.calm /\ y.fresh
  BY DEF Fails
<1>2. y.unique = x.unique /\ y.fresh = x.fresh /\ EndsSo(2, x, y)
  BY DEF GoesOn, Goes, Aged
<1>3. x.op # "paginated"
  BY DEF TypeInv, Roles
<1>4. \/ res = "notUnique" /\ x.unique
      \/ x.phase = "poll" /\ x.msgs # <<>> /\ res = Message(2).err
  BY <1>1, <1>2, <1>3 DEF EndsSo, Raised, Refused
<1>5. ASSUME x.phase = "poll", x.msgs # <<>>, res = Message(2).err
      PROVE  FALSE
  <2>1. Working(2)
    BY <1>5 DEF Working
  <2>2. x.fresh
    BY <1>1, <1>2
  <2>3. \A k \in DOMAIN x.msgs : x.msgs[k].err \in {"ok", "noSuchObject"}
    BY <2>1, <2>2 DEF CallWell
  <2>4. Message(2) = x.msgs[1] /\ 1 \in DOMAIN x.msgs
    BY <1>5, FrameFacts, MessageFacts
  <2>5. res \notin {"ok", "noSuchObject"}
    BY DEF Raised
  <2> QED
    BY <1>5, <2>3, <2>4, <2>5
<1> QED
  BY <1>2, <1>4, <1>5

\* Nothing but NotUnique, and a full last page of search_paginated(), ends one of the two so.
LEMMA EndsWellStep ==
  ASSUME TypeInv, GeneratorWell, CallWell, [Next]_vars, NEW f \in 1 .. 2, NEW res \in Raised, Fails(f, res)
  PROVE  Full(frames'[f]) \/ (res = "notUnique" /\ frames'[f].unique)
<1>1. Started \/ (Progress /\ \A g \in 1 .. 2 : GoesOn(g))
  BY NextGoesOn
<1>2. GoesOn(f)
  <2>1. ASSUME Started
        PROVE  GoesOn(f)
    <3>1. PICK g \in 1 .. 2, sorted \in BOOLEAN, unique \in BOOLEAN : \E op, ref :
            Starts(g, op, ref, sorted, unique)
      BY <2>1 DEF Started
    <3>2. PICK op, ref : Starts(g, op, ref, sorted, unique)
      BY <3>1
    <3>3. frames'[g].phase = "ask"
      BY <3>2 DEF Starts, BeginEffect
    <3>4. f # g
      BY <3>3 DEF Fails
    <3> QED
      BY <3>2, <3>4 DEF Starts
  <2> QED
    BY <1>1, <2>1
<1>3. CASE f = 1
  BY <1>2, <1>3, GeneratorEnds
<1>4. CASE f = 2
  BY <1>2, <1>4, CallEnds
<1> QED
  BY <1>3, <1>4

\* At the start there is neither.
LEMMA InitWell ==
  ASSUME Init
  PROVE  GeneratorWell /\ CallWell
<1>1. frames[1] = NoFrame /\ frames[2] = NoFrame /\ NoFrame.phase = "idle"
  BY DEF Init, NoFrame
<1> QED
  BY <1>1 DEF GeneratorWell, CallWell, Open, Working

\* A search (519-717) of a connection that works, which nothing has disturbed, raises nothing but
\* NotUnique, if it was to be unique, and NoSuchObject: every cookie and every list that it asks the
\* server for are those of the session, no page is asked for behind the end of the list, but that
\* after a full last page of search_paginated(), and no response is without what the next request is
\* made of.
THEOREM SearchesEndWell == Spec => EndsWell
<1> DEFINE Inv == TypeInv /\ OrderInv /\ CompleteInv /\ GeneratorNumbered /\ GeneratorWell /\ CallWell
           Ending == \A f \in 1 .. 2, res \in Raised : Fails(f, res) =>
                       Full(frames'[f]) \/ (res = "notUnique" /\ frames'[f].unique)
<1>1. Init => Inv
  <2> SUFFICES ASSUME Init
               PROVE  Inv
    OBVIOUS
  <2>1. frames[1].op = "none"
    BY DEF Init, NoFrame
  <2> QED
    BY <2>1, InitType, InitOrder, InitComplete, InitWell DEF GeneratorNumbered, Numbering
<1>2. Inv /\ [Next]_vars => Inv'
  BY NextMoves, OrderStep, CompleteStep, NumberedStep, GeneratorWellStep, CallWellStep
<1>3. Inv /\ [Next]_vars => [Ending]_vars
  BY EndsWellStep
<1> HIDE DEF Inv, Ending
<1>4. Spec => [][Ending]_vars
  BY <1>1, <1>2, <1>3, PTL DEF Spec
<1> QED
  BY <1>4 DEF EndsWell, Ending
=============================================================================
