--------------------------- MODULE Searches_proofs ---------------------------
(***************************************************************************)
(* Proofs about the searches of a Connection, for every number of entries, *)
(* page size, number of attempts, calls and disturbances.                  *)
(*                                                                         *)
(* First what Sorted and Picked return; then what a server's answer has;   *)
(* then the invariants, one action at a time.                              *)
(***************************************************************************)
EXTENDS Searches, FiniteSetTheorems, SequenceTheorems, WellFoundedInduction, TLAPS

-----------------------------------------------------------------------------
(***************************************************************************)
(* Finite sets of numbers.                                                 *)
(***************************************************************************)

\* A set of finite sets has a member that none of its members is strictly within.
LEMMA SmallestSet ==
  ASSUME NEW S, NEW T, T \subseteq FiniteSubsetsOf(S), T # {}
  PROVE  \E x \in T : \A y \in T : ~(y \subseteq x /\ y # x)
<1>1. \E x \in T : \A y \in T : ~(<<y, x>> \in StrictSubsetOrdering(S))
  BY FS_StrictSubsetOrderingWellFounded, WFMin
<1> QED
  BY <1>1 DEF StrictSubsetOrdering, FiniteSubsetsOf

\* A set of numbers has a least one.
LEMMA LeastNumber ==
  ASSUME NEW S, S \subseteq Nat, S # {}
  PROVE  \E x \in S : \A y \in S : x <= y
<1> DEFINE Upto(n) == S \cap (0 .. n)
           T == {Upto(n) : n \in S}
<1>1. \A n \in S : IsFiniteSet(Upto(n))
  <2> TAKE n \in S
  <2>1. IsFiniteSet(0 .. n)
    BY FS_Interval
  <2> QED
    BY <2>1, FS_Subset
<1>2. T \subseteq FiniteSubsetsOf(Nat) /\ T # {}
  BY <1>1 DEF FiniteSubsetsOf
<1>3. PICK x \in T : \A y \in T : ~(y \subseteq x /\ y # x)
  <2> HIDE DEF T
  <2> QED
    BY <1>2, SmallestSet
<1>4. PICK n \in S : x = Upto(n)
  BY <1>3
<1>5. \A m \in S : n <= m
  <2> SUFFICES ASSUME NEW m \in S, ~(n <= m)
               PROVE  FALSE
    OBVIOUS
  <2>1. n \in Nat /\ m \in Nat /\ m < n
    OBVIOUS
  <2>2. Upto(m) \subseteq Upto(n) /\ n \in Upto(n) /\ n \notin Upto(m)
    BY <2>1
  <2> QED
    BY <2>2, <1>3, <1>4
<1> QED
  BY <1>5

\* A finite set of numbers that is not empty has a greatest one.
LEMMA GreatestIndex ==
  ASSUME NEW k \in Nat, NEW S, S \subseteq 1 .. k, S # {}
  PROVE  \E x \in S : \A y \in S : y <= x
<1> DEFINE T == {k - n : n \in S}
<1>1. \A n \in S : k - n \in Nat
  OBVIOUS
<1>2. PICK x \in T : \A y \in T : x <= y
  <2>1. T \subseteq Nat /\ T # {}
    BY <1>1
  <2> HIDE DEF T
  <2> QED
    BY <2>1, LeastNumber
<1>3. PICK n \in S : x = k - n
  BY <1>2
<1>4. ASSUME NEW m \in S
      PROVE  m <= n
  <2>1. k - m \in T
    OBVIOUS
  <2>2. k - n <= k - m
    BY <1>2, <1>3, <2>1
  <2>3. m \in Nat /\ n \in Nat
    BY <1>3
  <2> HIDE DEF T
  <2> QED
    BY <2>2, <2>3
<1> QED
  BY <1>4

\* s lists the members of set in order.
Sorts(s, set) == s \in [1 .. Cardinality(set) -> set] /\ Ascends(s) /\ set = {s[n] : n \in DOMAIN s}

\* A number less than all that a sequence lists is put in front of it.
LEMMA SortedWithLeast ==
  ASSUME NEW set \in SUBSET Nat, IsFiniteSet(set), NEW least \in set, \A e \in set : least <= e,
         NEW t, Sorts(t, set \ {least})
  PROVE  \E s : Sorts(s, set)
<1> DEFINE rest == set \ {least}
           k == Cardinality(rest)
           s == [n \in 1 .. k + 1 |-> IF n = 1 THEN least ELSE t[n - 1]]
<1>1. k \in Nat /\ Cardinality(set) = k + 1
  <2>1. IsFiniteSet(rest) /\ k = Cardinality(set) - 1
    BY FS_RemoveElement
  <2>2. Cardinality(set) \in Nat /\ k \in Nat
    BY <2>1, FS_CardinalityType
  <2> HIDE DEF k
  <2> QED
    BY <2>1, <2>2
<1>2. t \in [1 .. k -> rest] /\ Ascends(t) /\ rest = {t[n] : n \in 1 .. k}
  BY DEF Sorts
<1> HIDE DEF k
<1>3. \A n \in 2 .. k + 1 : n - 1 \in 1 .. k /\ t[n - 1] \in rest
  BY <1>1, <1>2
<1>4. s \in [1 .. k + 1 -> set]
  BY <1>1, <1>3
<1>5. Ascends(s)
  <2> SUFFICES ASSUME NEW m \in 1 .. k + 1, NEW n \in 1 .. k + 1, m < n
               PROVE  s[m] < s[n]
    BY <1>4 DEF Ascends
  <2>1. n \in 2 .. k + 1 /\ s[n] = t[n - 1]
    BY <1>1
  <2>2. CASE m = 1
    <3>1. t[n - 1] \in set /\ t[n - 1] # least
      BY <2>1, <1>3
    <3>2. least <= t[n - 1] /\ least \in Nat /\ t[n - 1] \in Nat
      BY <3>1
    <3>3. s[m] = least
      BY <2>2
    <3> HIDE DEF s
    <3> QED
      BY <2>1, <3>1, <3>2, <3>3
  <2>3. CASE m # 1
    <3>1. m \in 2 .. k + 1 /\ s[m] = t[m - 1] /\ m - 1 \in 1 .. k /\ n - 1 \in 1 .. k /\ m - 1 < n - 1
      BY <2>1, <2>3, <1>1
    <3> QED
      BY <3>1, <2>1, <1>2 DEF Ascends
  <2> QED
    BY <2>2, <2>3
<1>6. set = {s[n] : n \in 1 .. k + 1}
  <2>1. \A e \in set : \E n \in 1 .. k + 1 : s[n] = e
    <3> TAKE e \in set
    <3>1. CASE e = least
      <4>1. 1 \in 1 .. k + 1 /\ s[1] = least
        BY <1>1
      <4> QED
        BY <4>1, <3>1
    <3>2. CASE e # least
      <4>1. PICK n \in 1 .. k : t[n] = e
        BY <3>2, <1>2
      <4>2. n + 1 \in 1 .. k + 1 /\ n + 1 # 1 /\ (n + 1) - 1 = n
        BY <1>1
      <4>3. s[n + 1] = e
        BY <4>1, <4>2
      <4> QED
        BY <4>2, <4>3
    <3> QED
      BY <3>1, <3>2
  <2>2. \A n \in 1 .. k + 1 : s[n] \in set
    BY <1>4
  <2> HIDE DEF s
  <2> QED
    BY <2>1, <2>2
<1>7. Sorts(s, set)
  BY <1>1, <1>4, <1>5, <1>6 DEF Sorts
<1> QED
  BY <1>7

\* Every finite set of numbers can be sorted.
LEMMA SortedExists ==
  ASSUME NEW set \in SUBSET Nat, IsFiniteSet(set)
  PROVE  \E s : Sorts(s, set)
<1> DEFINE Unsorted == {T \in SUBSET set : ~\E s : Sorts(s, T)}
<1> SUFFICES ASSUME Unsorted # {} PROVE FALSE
  OBVIOUS
<1>1. \A T \in SUBSET set : IsFiniteSet(T)
  BY FS_Subset
<1>2. PICK x \in Unsorted : \A y \in Unsorted : ~(y \subseteq x /\ y # x)
  <2>1. Unsorted \subseteq FiniteSubsetsOf(Nat)
    BY <1>1 DEF FiniteSubsetsOf
  <2> HIDE DEF Unsorted
  <2> QED
    BY <2>1, SmallestSet
<1>3. x # {}
  <2> DEFINE none == [n \in 1 .. 0 |-> 0]
  <2>1. Cardinality({}) = 0
    BY FS_EmptySet
  <2>2. none \in [1 .. 0 -> {}] /\ Ascends(none) /\ {} = {none[n] : n \in DOMAIN none}
    BY DEF Ascends
  <2>3. Sorts(none, {})
    BY <2>1, <2>2 DEF Sorts
  <2> QED
    BY <2>3
<1>4. PICK least \in x : \A e \in x : least <= e
  BY <1>3, LeastNumber
<1>5. PICK t : Sorts(t, x \ {least})
  BY <1>2, <1>4
<1>6. \E s : Sorts(s, x)
  BY <1>1, <1>4, <1>5, SortedWithLeast
<1> QED
  BY <1>6

\* What Sorted returns.
LEMMA SortedFacts ==
  ASSUME NEW set \in SUBSET Nat, IsFiniteSet(set)
  PROVE  /\ Sorted(set) \in Seq(set)
         /\ Cardinality(set) \in Nat
         /\ Len(Sorted(set)) = Cardinality(set)
         /\ DOMAIN Sorted(set) = 1 .. Cardinality(set)
         /\ Ascends(Sorted(set))
         /\ \A n \in 1 .. Cardinality(set) : Sorted(set)[n] \in set
         /\ \A e \in set : \E n \in 1 .. Cardinality(set) : Sorted(set)[n] = e
<1>1. Cardinality(set) \in Nat
  BY FS_CardinalityType
<1>2. Sorts(Sorted(set), set)
  <2>1. PICK s : Sorts(s, set)
    BY SortedExists
  <2> QED
    BY <2>1 DEF Sorts, Sorted
<1>3. Sorted(set) \in [1 .. Cardinality(set) -> set]
  BY <1>2 DEF Sorts
<1>4. Sorted(set) \in Seq(set) /\ Len(Sorted(set)) = Cardinality(set)
  BY <1>1, <1>3, SeqDef
<1> QED
  BY <1>1, <1>2, <1>3, <1>4 DEF Sorts

-----------------------------------------------------------------------------
(***************************************************************************)
(* Sequences.                                                              *)
(***************************************************************************)

\* What Picked returns: the elements at the chosen places, each and no other.
LEMMA PickedFacts ==
  ASSUME NEW S, NEW s \in Seq(S), NEW ns \in SUBSET DOMAIN s
  PROVE  /\ Picked(s, ns) \in Seq(S)
         /\ IsFiniteSet(ns) /\ Cardinality(ns) \in Nat
         /\ Len(Picked(s, ns)) = Cardinality(ns)
         /\ DOMAIN Picked(s, ns) = 1 .. Cardinality(ns)
         /\ \A n \in 1 .. Cardinality(ns) : \E k \in ns : Picked(s, ns)[n] = s[k]
         /\ \A k \in ns : \E n \in 1 .. Cardinality(ns) : Picked(s, ns)[n] = s[k]
<1> DEFINE c == Cardinality(ns)
           at == Sorted(ns)
<1>1. Len(s) \in Nat /\ DOMAIN s = 1 .. Len(s) /\ ns \in SUBSET Nat
  OBVIOUS
<1>2. IsFiniteSet(ns)
  <2>1. IsFiniteSet(1 .. Len(s))
    BY <1>1, FS_Interval
  <2> QED
    BY <1>1, <2>1, FS_Subset
<1>3. /\ c \in Nat
      /\ \A n \in 1 .. c : at[n] \in ns
      /\ \A k \in ns : \E n \in 1 .. c : at[n] = k
  BY <1>1, <1>2, SortedFacts
<1>4. Picked(s, ns) = [n \in 1 .. c |-> s[at[n]]]
  BY DEF Picked
<1> HIDE DEF c, at
<1>5. Picked(s, ns) \in [1 .. c -> S]
  BY <1>3, <1>4
<1>6. Picked(s, ns) \in Seq(S) /\ Len(Picked(s, ns)) = c /\ DOMAIN Picked(s, ns) = 1 .. c
  BY <1>3, <1>5, SeqDef
<1>7. \A n \in 1 .. c : Picked(s, ns)[n] = s[at[n]]
  BY <1>4
<1> QED
  BY <1>2, <1>3, <1>6, <1>7 DEF c

\* The order stays.
LEMMA PickedAscends ==
  ASSUME NEW s \in Seq(Nat), Ascends(s), NEW ns \in SUBSET DOMAIN s
  PROVE  Ascends(Picked(s, ns))
<1>1. Len(s) \in Nat /\ DOMAIN s = 1 .. Len(s) /\ ns \in SUBSET Nat
  OBVIOUS
<1>2. IsFiniteSet(ns) /\ DOMAIN Picked(s, ns) = 1 .. Cardinality(ns)
  BY PickedFacts
<1>3. /\ DOMAIN Sorted(ns) = 1 .. Cardinality(ns)
      /\ Ascends(Sorted(ns))
      /\ \A n \in 1 .. Cardinality(ns) : Sorted(ns)[n] \in ns
  BY <1>1, <1>2, SortedFacts
<1>4. \A m, n \in 1 .. Cardinality(ns) : m < n => Sorted(ns)[m] < Sorted(ns)[n]
  BY <1>3 DEF Ascends
<1>5. \A n \in 1 .. Cardinality(ns) : Picked(s, ns)[n] = s[Sorted(ns)[n]]
  BY DEF Picked
<1>6. \A j, k \in ns : j < k => s[j] < s[k]
  BY DEF Ascends
<1> QED
  BY <1>2, <1>3, <1>4, <1>5, <1>6 DEF Ascends

\* One choice: what is picked is that one.
LEMMA PickedOne ==
  ASSUME NEW S, NEW s \in Seq(S), NEW ns \in SUBSET DOMAIN s, NEW k \in ns
  PROVE  /\ Picked(s, ns) # <<>>
         /\ Len(Picked(s, ns)) <= 1 => Picked(s, ns)[1] = s[k]
<1>1. /\ Len(Picked(s, ns)) \in Nat /\ Len(Picked(s, ns)) = Cardinality(ns)
      /\ \E n \in 1 .. Cardinality(ns) : Picked(s, ns)[n] = s[k]
  BY PickedFacts
<1> QED
  BY <1>1

\* What First returns.
LEMMA FirstFacts ==
  ASSUME NEW S, NEW s \in Seq(S), NEW n \in Nat
  PROVE  /\ First(n, s) \in Seq(S)
         /\ Len(First(n, s)) = IF n < Len(s) THEN n ELSE Len(s)
         /\ \A i \in 1 .. Len(First(n, s)) : i \in 1 .. Len(s) /\ First(n, s)[i] = s[i]
<1> DEFINE m == IF n < Len(s) THEN n ELSE Len(s)
<1>1. m \in Nat /\ m <= Len(s) /\ 1 .. m \subseteq 1 .. Len(s) /\ Len(s) \in Nat
  OBVIOUS
<1>2. First(n, s) = SubSeq(s, 1, m)
  BY DEF First
<1> HIDE DEF m
<1>3. \A i \in 1 .. m : s[i] \in S
  BY <1>1
<1>4. /\ SubSeq(s, 1, m) \in Seq(S)
      /\ Len(SubSeq(s, 1, m)) = IF 1 <= m THEN m - 1 + 1 ELSE 0
      /\ \A i \in 1 .. m - 1 + 1 : SubSeq(s, 1, m)[i] = s[1 + i - 1]
  BY <1>1, <1>3, SubSeqProperties
<1>5. Len(SubSeq(s, 1, m)) = m
  BY <1>1, <1>4
<1>6. \A i \in 1 .. m : SubSeq(s, 1, m)[i] = s[i]
  BY <1>1, <1>4
<1> QED
  BY <1>1, <1>2, <1>4, <1>5, <1>6 DEF m

\* The window of a list.
LEMMA WindowFacts ==
  ASSUME NEW S, NEW s \in Seq(S), NEW n \in Nat, NEW at \in Nat \ {0}
  PROVE  LET w == First(n, SubSeq(s, at, Len(s)))
         IN /\ w \in Seq(S) /\ Len(w) \in Nat
            /\ \A i \in 1 .. Len(w) :
                 i <= n /\ at + i - 1 \in 1 .. Len(s) /\ w[i] = s[at + i - 1]
            /\ at = 1 => Len(w) = IF n < Len(s) THEN n ELSE Len(s)
<1> DEFINE r == SubSeq(s, at, Len(s))
           w == First(n, r)
<1>1. Len(s) \in Nat /\ \A i \in at .. Len(s) : s[i] \in S
  OBVIOUS
<1>2. /\ r \in Seq(S)
      /\ Len(r) = IF at <= Len(s) THEN Len(s) - at + 1 ELSE 0
      /\ \A i \in 1 .. Len(s) - at + 1 : r[i] = s[at + i - 1]
  BY <1>1, SubSeqProperties
<1> HIDE DEF r
<1>3. /\ w \in Seq(S)
      /\ Len(w) = IF n < Len(r) THEN n ELSE Len(r)
      /\ \A i \in 1 .. Len(w) : i \in 1 .. Len(r) /\ w[i] = r[i]
  BY <1>2, FirstFacts
<1> HIDE DEF w
<1>4. Len(w) \in Nat /\ Len(w) <= n
  BY <1>2, <1>3
<1>5. \A i \in 1 .. Len(r) : i \in 1 .. Len(s) - at + 1 /\ at + i - 1 \in 1 .. Len(s)
  BY <1>1, <1>2
<1>6. at = 1 => Len(r) = Len(s)
  BY <1>1, <1>2
<1> QED
  BY <1>1, <1>2, <1>3, <1>4, <1>5, <1>6 DEF w, r

-----------------------------------------------------------------------------
(***************************************************************************)
(* The answers of the server.                                              *)
(***************************************************************************)
Place == Nat \cup {None}
Control == [type : {"paged", "sss", "vlv"}, at : Place, context : Seq(Entries) \cup {None}]
View == [count : Nat, context : Seq(Entries)]
ResponseType == [paged : Place, vlv : View \cup {None}]
Refused == {"unwillingToPerform", "vlvError", "protocolError", "noSuchObject"}
AnswerType ==
  [found : Seq(Entries), resp : ResponseType, err : Refused \cup {"ok"}, after : Place,
   view : Seq(Entries) \cup {None}]

\* A list view asks for a place in the list.
Request(list) ==
  /\ list \in Seq(Control)
  /\ \A n \in DOMAIN list : list[n].type = "vlv" => list[n].at \in Nat \ {0}

ServerOK ==
  /\ dir \subseteq Entries /\ after \in Place
  /\ view # None => view \in Seq(Entries) /\ Ascends(view)

\* An answer has entries of the server in order, and nothing when it is a refusal.
Ordered(a) ==
  /\ a \in AnswerType
  /\ a.view # None => Ascends(a.view)
  /\ Ascends(a.found) /\ \A n \in DOMAIN a.found : a.found[n] \in dir
  /\ a.err # "ok" => a.found = <<>> /\ a.resp = NoResponse

\* A page is full if it has a cookie, and none of it is behind the cookie.
FullPage(a) ==
  a.resp.paged # None =>
    /\ a.resp.vlv = None /\ Len(a.found) = PageSize
    /\ \A n \in DOMAIN a.found : a.found[n] <= a.resp.paged

\* The answer has a window of the list that it names, from the place of the control on.
InWindow(a, control) ==
  a.err = "ok" =>
    /\ a.resp.paged = None /\ a.resp.vlv # None
    /\ Ascends(a.resp.vlv.context) /\ a.resp.vlv.count = Len(a.resp.vlv.context)
    /\ control.context # None => a.resp.vlv.context = control.context
    /\ \A n \in DOMAIN a.found :
         \E i \in DOMAIN a.resp.vlv.context :
            i < control.at + PageSize /\ i >= control.at /\ a.found[n] = a.resp.vlv.context[i]

\* A new list is that of the matches; from its start the window is full or has the whole list.
NewList(a, control, matches) ==
  a.err = "ok" /\ control.context = None =>
    /\ Len(a.resp.vlv.context) = Cardinality(matches)
    /\ control.at = 1 /\ matches = dir =>
         Len(a.found) = IF PageSize < Len(a.resp.vlv.context) THEN PageSize
                        ELSE Len(a.resp.vlv.context)

\* A refusal leaves the session as it was.
LEMMA RefusalFacts ==
  ASSUME ServerOK, NEW err \in Refused
  PROVE  Ordered(Refusal(err)) /\ Refusal(err).err # "ok" /\ Refusal(err).resp = NoResponse
         /\ Refusal(err).found = <<>>
<1>1. NoResponse \in ResponseType
  BY DEF NoResponse, ResponseType, Place
<1>2. Refusal(err) = [found |-> <<>>, resp |-> NoResponse, err |-> err, after |-> after, view |-> view]
  BY DEF Refusal, Answer
<1>3. <<>> \in Seq(Entries) /\ DOMAIN <<>> = {}
  OBVIOUS
<1>4. Refusal(err) \in AnswerType
  BY <1>1, <1>2, <1>3 DEF AnswerType, ServerOK
<1> QED
  BY <1>2, <1>3, <1>4 DEF Ordered, Ascends, ServerOK, Refused

\* The sorted list of some of the server's entries.
LEMMA ListFacts ==
  ASSUME ServerOK, NEW S \in SUBSET dir
  PROVE  /\ Sorted(S) \in Seq(Entries) /\ Sorted(S) \in Seq(Nat)
         /\ Ascends(Sorted(S)) /\ Len(Sorted(S)) = Cardinality(S) /\ Cardinality(S) \in Nat
         /\ \A n \in DOMAIN Sorted(S) : Sorted(S)[n] \in S
<1>1. S \in SUBSET Entries /\ S \in SUBSET Nat /\ IsFiniteSet(S)
  BY ConstantsAssumption, FS_Subset DEF ServerOK
<1>2. Sorted(S) \in Seq(S)
  BY <1>1, SortedFacts
<1>3. Sorted(S) \in Seq(Entries) /\ Sorted(S) \in Seq(Nat)
  BY <1>1, <1>2, SeqMonotonic
<1> QED
  BY <1>1, <1>3, SortedFacts

\* A page after a cookie: later entries, at most PageSize of them, and a cookie only with all of those.
LEMMA PageFacts ==
  ASSUME ServerOK, NEW cookie \in Place, NEW matches \in SUBSET dir,
         NEW a \in PagedAnswers(cookie, matches)
  PROVE  /\ Ordered(a) /\ FullPage(a) /\ a.resp.vlv = None
         /\ cookie # None => \A n \in DOMAIN a.found : a.found[n] > cookie
<1> DEFINE later == {e \in matches : cookie = None \/ e > cookie}
           rest == Sorted(later)
           page == First(PageSize, rest)
           cookies == IF Len(rest) > PageSize THEN {page[PageSize]}
                      ELSE {None} \cup {page[n] : n \in DOMAIN page \cap {PageSize}}
<1>1. CASE cookie # None /\ cookie # after
  <2>1. a = Refusal("unwillingToPerform")
    BY <1>1 DEF PagedAnswers
  <2>2. Ordered(a) /\ a.resp = NoResponse /\ a.found = <<>>
    BY <2>1, RefusalFacts DEF Refused
  <2>3. a.resp.paged = None /\ a.resp.vlv = None /\ DOMAIN a.found = {}
    BY <2>2 DEF NoResponse
  <2> QED
    BY <2>2, <2>3 DEF FullPage
<1>2. CASE ~(cookie # None /\ cookie # after)
  <2>1. PICK c \in cookies : a = Answer(page, [NoResponse EXCEPT !.paged = c], "ok", c, view)
    BY <1>2 DEF PagedAnswers
  <2>2. a = [found |-> page, resp |-> [paged |-> c, vlv |-> None], err |-> "ok", after |-> c, view |-> view]
    BY <2>1 DEF Answer, NoResponse
  <2>3. /\ rest \in Seq(Entries) /\ Ascends(rest) /\ Len(rest) \in Nat
        /\ \A n \in 1 .. Len(rest) : rest[n] \in later
    BY ListFacts
  <2>4. PageSize \in Nat \ {0} /\ Entries \subseteq Nat
    BY ConstantsAssumption
  <2> HIDE DEF later, rest
  <2>5. /\ page \in Seq(Entries) /\ DOMAIN page = 1 .. Len(page) /\ Len(page) \in Nat
        /\ Len(page) = IF PageSize < Len(rest) THEN PageSize ELSE Len(rest)
        /\ \A n \in 1 .. Len(page) : n \in 1 .. Len(rest) /\ page[n] = rest[n]
        /\ \A n \in 1 .. Len(page) : page[n] \in Nat
    <3>1. /\ page \in Seq(Entries)
          /\ Len(page) = IF PageSize < Len(rest) THEN PageSize ELSE Len(rest)
          /\ \A n \in 1 .. Len(page) : n \in 1 .. Len(rest) /\ page[n] = rest[n]
      BY <2>3, <2>4, FirstFacts
    <3> HIDE DEF page
    <3> QED
      BY <3>1, <2>4, ElementOfSeq, LenProperties
  <2> HIDE DEF page
  <2>6. \A n \in 1 .. Len(page) : page[n] \in dir /\ (cookie # None => page[n] > cookie)
    BY <2>3, <2>5 DEF later
  <2>7. Ascends(page)
    BY <2>3, <2>5 DEF Ascends
  <2>8. c # None => PageSize \in 1 .. Len(page) /\ Len(page) = PageSize /\ c = page[PageSize]
    BY <2>3, <2>4, <2>5
  <2>9. c # None => c \in Nat /\ \A n \in 1 .. Len(page) : page[n] <= c
    <3> SUFFICES ASSUME c # None PROVE c \in Nat /\ \A n \in 1 .. Len(page) : page[n] <= c
      OBVIOUS
    <3>1. c \in Nat
      BY <2>4, <2>5, <2>8
    <3>2. \A n \in 1 .. Len(page) : page[n] \in Nat /\ (n = PageSize \/ n < PageSize)
      BY <2>4, <2>5, <2>8
    <3>3. \A n \in 1 .. Len(page) : n < PageSize => page[n] < page[PageSize]
      BY <2>5, <2>7, <2>8 DEF Ascends
    <3> QED
      BY <3>1, <3>2, <3>3, <2>8
  <2>10. c \in Place
    BY <2>9 DEF Place
  <2>11. a \in AnswerType
    <3> HIDE DEF cookies
    <3>1. view \in Seq(Entries) \cup {None} /\ None \in View \cup {None}
      BY DEF ServerOK
    <3>2. [paged |-> c, vlv |-> None] \in ResponseType
      BY <2>10, <3>1 DEF ResponseType
    <3> QED
      BY <2>2, <2>5, <2>10, <3>1, <3>2, Zenon DEF AnswerType
  <2>12. Ordered(a)
    BY <2>2, <2>5, <2>6, <2>7, <2>11 DEF Ordered, ServerOK
  <2>13. FullPage(a)
    BY <2>2, <2>5, <2>8, <2>9 DEF FullPage
  <2> QED
    BY <2>2, <2>5, <2>6, <2>12, <2>13
<1> QED
  BY <1>1, <1>2

\* A window of the list that the session keeps, or of a new one.
LEMMA ViewFacts ==
  ASSUME ServerOK, NEW control \in Control, control.at \in Nat \ {0}, NEW matches \in SUBSET dir,
         NEW a \in ViewAnswers(control, matches)
  PROVE  /\ Ordered(a) /\ a.resp.paged = None
         /\ InWindow(a, control) /\ NewList(a, control, matches)
<1> DEFINE list == IF control.context = None THEN Sorted(matches) ELSE view
           window == First(PageSize, SubSeq(list, control.at, Len(list)))
           kept == {n \in DOMAIN window : window[n] \in dir}
           there == Picked(window, kept)
           refusals == {Refusal("unwillingToPerform"), Refusal("vlvError")}
<1>1. CASE a \in refusals
  <2>1. Ordered(a) /\ a.err # "ok" /\ a.resp = NoResponse
    <3>1. CASE a = Refusal("unwillingToPerform")
      BY <3>1, RefusalFacts DEF Refused
    <3>2. CASE a = Refusal("vlvError")
      BY <3>2, RefusalFacts DEF Refused
    <3> QED
      BY <1>1, <3>1, <3>2
  <2> QED
    BY <2>1 DEF InWindow, NewList, NoResponse
<1>2. CASE a \notin refusals
  <2>1. /\ control.context # None => control.context = view
        /\ a = Answer(there, [NoResponse EXCEPT !.vlv = [count |-> Len(list), context |-> list]],
                      "ok", after, list)
    BY <1>2 DEF ViewAnswers
  <2>2. a = [found |-> there, resp |-> [paged |-> None, vlv |-> [count |-> Len(list), context |-> list]],
             err |-> "ok", after |-> after, view |-> list]
    BY <2>1 DEF Answer, NoResponse
  <2>3. list \in Seq(Entries) /\ Ascends(list) /\ Len(list) \in Nat /\ DOMAIN list = 1 .. Len(list)
    <3>1. CASE control.context = None
      BY <3>1, ListFacts
    <3>2. CASE control.context # None
      BY <3>2, <2>1 DEF ServerOK
    <3> QED
      BY <3>1, <3>2
  <2>4. control.context # None => list = control.context
    BY <2>1
  <2>5. control.context = None => Len(list) = Cardinality(matches) /\ \A n \in DOMAIN list : list[n] \in matches
    BY ListFacts
  <2>6. PageSize \in Nat \ {0} /\ Entries \subseteq Nat
    BY ConstantsAssumption
  <2> HIDE DEF list
  <2>7. /\ window \in Seq(Entries) /\ Len(window) \in Nat /\ DOMAIN window = 1 .. Len(window)
        /\ window \in Seq(Nat)
        /\ \A i \in 1 .. Len(window) : i <= PageSize /\ control.at + i - 1 \in 1 .. Len(list)
                                       /\ window[i] = list[control.at + i - 1]
        /\ control.at = 1 => Len(window) = IF PageSize < Len(list) THEN PageSize ELSE Len(list)
    <3>1. /\ window \in Seq(Entries) /\ Len(window) \in Nat
          /\ \A i \in 1 .. Len(window) :
               i <= PageSize /\ control.at + i - 1 \in 1 .. Len(list)
                 /\ window[i] = list[control.at + i - 1]
          /\ control.at = 1 => Len(window) = IF PageSize < Len(list) THEN PageSize ELSE Len(list)
      BY <2>3, <2>6, WindowFacts, ZenonT(30)
    <3> HIDE DEF window
    <3>2. window \in Seq(Nat)
      BY <3>1, <2>6, SeqMonotonic
    <3> QED
      BY <3>1, <3>2, LenProperties
  <2> HIDE DEF window
  <2>8. Ascends(window)
    <3> SUFFICES ASSUME NEW m \in 1 .. Len(window), NEW n \in 1 .. Len(window), m < n
                 PROVE  window[m] < window[n]
      BY <2>7 DEF Ascends
    <3>1. control.at + m - 1 < control.at + n - 1
      BY <2>7, SMTT(30)
    <3> QED
      BY <3>1, <2>3, <2>7 DEF Ascends
  <2>9. kept \in SUBSET DOMAIN window
    OBVIOUS
  <2>10. /\ there \in Seq(Entries) /\ DOMAIN there = 1 .. Len(there) /\ Len(there) = Cardinality(kept)
         /\ \A n \in DOMAIN there : \E k \in kept : there[n] = window[k]
    <3>0. \A ns \in SUBSET DOMAIN window :
            /\ Picked(window, ns) \in Seq(Entries) /\ Len(Picked(window, ns)) = Cardinality(ns)
            /\ DOMAIN Picked(window, ns) = 1 .. Cardinality(ns)
            /\ \A n \in 1 .. Cardinality(ns) : \E k \in ns : Picked(window, ns)[n] = window[k]
      <4>1. window \in Seq(Entries)
        BY <2>7
      <4> QED
        BY <4>1, PickedFacts
    <3>1. /\ there \in Seq(Entries) /\ Len(there) = Cardinality(kept)
          /\ DOMAIN there = 1 .. Cardinality(kept)
          /\ \A n \in 1 .. Cardinality(kept) : \E k \in kept : there[n] = window[k]
      BY <2>9, <3>0, Zenon
    <3> HIDE DEF there
    <3> QED
      BY <3>1
  <2>11. Ascends(there)
    BY <2>7, <2>8, <2>9, PickedAscends
  <2>12. \A n \in DOMAIN there : there[n] \in dir
    BY <2>10
  <2>13. control.context = None /\ control.at = 1 /\ matches = dir =>
           Len(there) = IF PageSize < Len(list) THEN PageSize ELSE Len(list)
    <3> SUFFICES ASSUME control.context = None, control.at = 1, matches = dir
                 PROVE  Len(there) = Len(window)
      BY <2>7
    <3>1. \A n \in 1 .. Len(window) : window[n] \in dir
      BY <2>3, <2>5, <2>7
    <3>2. kept = 1 .. Len(window)
      <4>1. DOMAIN window \subseteq kept
        BY <3>1, <2>7
      <4> QED
        BY <4>1, <2>7, Zenon
    <3>3. Cardinality(1 .. Len(window)) = Len(window)
      <4> DEFINE k == Len(window)
      <4>1. k \in Nat
        BY <2>7
      <4> HIDE DEF k
      <4>2. Cardinality(1 .. k) = IF 1 > k THEN 0 ELSE k - 1 + 1
        BY <4>1, FS_Interval
      <4> QED
        BY <4>1, <4>2 DEF k
    <3> QED
      BY <3>2, <3>3, <2>10
  <2>14. \A n \in DOMAIN there : \E i \in DOMAIN list :
            i < control.at + PageSize /\ i >= control.at /\ there[n] = list[i]
    <3> TAKE n \in DOMAIN there
    <3>1. PICK k \in 1 .. Len(window) : there[n] = window[k]
      BY <2>7, <2>10
    <3>2. k <= PageSize /\ control.at + k - 1 \in DOMAIN list /\ there[n] = list[control.at + k - 1]
      BY <3>1, <2>3, <2>7
    <3>3. control.at + k - 1 < control.at + PageSize /\ control.at + k - 1 >= control.at
      <4> DEFINE at == control.at
      <4>1. at \in Nat /\ k \in Nat \ {0} /\ PageSize \in Nat
        BY <2>6, <2>7
      <4> HIDE DEF at
      <4>2. at + k - 1 < at + PageSize /\ at + k - 1 >= at
        BY <4>1, <3>2
      <4> QED
        BY <4>2 DEF at
    <3> QED
      BY <3>2, <3>3
  <2> HIDE DEF there
  <2>15. a \in AnswerType
    BY <2>2, <2>3, <2>10 DEF AnswerType, ResponseType, View, Place, ServerOK
  <2>16. Ordered(a)
    BY <2>2, <2>3, <2>11, <2>12, <2>15 DEF Ordered
  <2>17. a.resp.vlv # None
    BY <2>2, <2>3, ConstantsAssumption
  <2>18. InWindow(a, control)
    BY <2>2, <2>3, <2>4, <2>14, <2>17 DEF InWindow
  <2>19. NewList(a, control, matches)
    BY <2>2, <2>5, <2>13 DEF NewList
  <2> QED
    BY <2>2, <2>16, <2>18, <2>19
<1> QED
  BY <1>1, <1>2

\* A refusal satisfies what is said of the answers to requests with paging controls.
LEMMA RefusedFacts ==
  ASSUME ServerOK, NEW err \in Refused, NEW a, a = Refusal(err)
  PROVE  /\ Ordered(a) /\ FullPage(a) /\ a.resp.vlv = None /\ DOMAIN a.found = {}
         /\ \A control : InWindow(a, control)
         /\ \A control, matches : NewList(a, control, matches)
<1>1. Ordered(a) /\ a.err # "ok" /\ a.resp = NoResponse /\ a.found = <<>>
  BY RefusalFacts
<1>2. a.resp.paged = None /\ a.resp.vlv = None /\ DOMAIN a.found = {}
  BY <1>1 DEF NoResponse
<1> QED
  BY <1>1, <1>2 DEF FullPage, InWindow, NewList

\* The controls of one type in a request.
LEMMA OfTypeFacts ==
  ASSUME NEW list, Request(list), NEW type
  PROVE  /\ OfType(list, type) \in Seq(Control)
         /\ \A k \in DOMAIN list : list[k].type = type =>
              /\ OfType(list, type) # <<>>
              /\ Len(OfType(list, type)) <= 1 => OfType(list, type)[1] = list[k]
         /\ OfType(list, type) # <<>> =>
              \E k \in DOMAIN list : list[k].type = type /\ OfType(list, type)[1] = list[k]
<1> DEFINE ns == {n \in DOMAIN list : list[n].type = type}
<1>1. list \in Seq(Control) /\ ns \in SUBSET DOMAIN list
  BY DEF Request
<1>2. OfType(list, type) = Picked(list, ns)
  BY DEF OfType
<1>3. \A k \in DOMAIN list : list[k].type = type => k \in ns
  OBVIOUS
<1>4. \A k \in ns : k \in DOMAIN list /\ list[k].type = type
  OBVIOUS
<1> HIDE DEF ns
<1>5. /\ Picked(list, ns) \in Seq(Control) /\ Len(Picked(list, ns)) = Cardinality(ns)
      /\ \A n \in 1 .. Cardinality(ns) : \E k \in ns : Picked(list, ns)[n] = list[k]
  BY <1>1, PickedFacts
<1>6. \A k \in ns : /\ Picked(list, ns) # <<>>
                    /\ Len(Picked(list, ns)) <= 1 => Picked(list, ns)[1] = list[k]
  BY <1>1, PickedOne
<1>7. Picked(list, ns) # <<>> => 1 \in 1 .. Cardinality(ns)
  BY <1>5
<1> QED
  BY <1>2, <1>3, <1>4, <1>5, <1>6, <1>7

Matches(base) == IF base = None THEN dir ELSE dir \cap {base}

\* What an answer has, by the controls of the request.
LEMMA AnswerFacts ==
  ASSUME ServerOK, NEW list, Request(list), NEW base, NEW a \in Answers(list, base)
  PROVE  /\ Ordered(a) /\ FullPage(a)
         /\ a.resp.vlv # None => \E k \in DOMAIN list : list[k].type = "vlv"
         /\ \A k \in DOMAIN list : list[k].type = "paged" =>
              (list[k].at # None => \A n \in DOMAIN a.found : a.found[n] > list[k].at)
         /\ \A k \in DOMAIN list : list[k].type = "vlv" =>
              InWindow(a, list[k]) /\ NewList(a, list[k], Matches(base))
<1> DEFINE matches == Matches(base)
           paged == OfType(list, "paged")
           vlv == OfType(list, "vlv")
<1>1. matches \in SUBSET dir
  BY DEF Matches
<1>2. a \in IF Len(paged) + Len(vlv) > 1 THEN {Refusal("protocolError")}
            ELSE IF matches = {} /\ base # None THEN {Refusal("noSuchObject")}
            ELSE IF paged # <<>> THEN PagedAnswers(paged[1].at, matches)
            ELSE IF vlv # <<>> THEN ViewAnswers(vlv[1], matches)
            ELSE {Answer(Sorted(matches), NoResponse, "ok", after, view)}
  BY DEF Answers, Matches
<1>3. /\ paged \in Seq(Control) /\ Len(paged) \in Nat
      /\ \A k \in DOMAIN list : list[k].type = "paged" =>
           paged # <<>> /\ (Len(paged) <= 1 => paged[1] = list[k])
      /\ paged # <<>> => paged[1] \in Control
  BY OfTypeFacts DEF Request
<1>4. /\ vlv \in Seq(Control) /\ Len(vlv) \in Nat
      /\ \A k \in DOMAIN list : list[k].type = "vlv" =>
           vlv # <<>> /\ (Len(vlv) <= 1 => vlv[1] = list[k])
      /\ vlv # <<>> => vlv[1] \in Control /\ vlv[1].at \in Nat \ {0}
      /\ vlv # <<>> => \E k \in DOMAIN list : list[k].type = "vlv"
  BY OfTypeFacts DEF Request
<1> HIDE DEF matches, paged, vlv
<1>5. CASE a = Refusal("protocolError") \/ a = Refusal("noSuchObject")
  <2>1. \E err \in Refused : a = Refusal(err)
    BY <1>5 DEF Refused
  <2> QED
    BY <2>1, RefusedFacts
<1>6. ASSUME Len(paged) + Len(vlv) <= 1, paged # <<>>, a \in PagedAnswers(paged[1].at, matches)
      PROVE  /\ Ordered(a) /\ FullPage(a) /\ a.resp.vlv = None /\ vlv = <<>>
             /\ \A k \in DOMAIN list : list[k].type = "paged" =>
                  (list[k].at # None => \A n \in DOMAIN a.found : a.found[n] > list[k].at)
  <2>1. Len(paged) <= 1 /\ vlv = <<>>
    BY <1>3, <1>4, <1>6
  <2>2. paged[1].at \in Place
    BY <1>3, <1>6 DEF Control
  <2>3. /\ Ordered(a) /\ FullPage(a) /\ a.resp.vlv = None
        /\ paged[1].at # None => \A n \in DOMAIN a.found : a.found[n] > paged[1].at
    BY <1>1, <1>6, <2>2, PageFacts
  <2> QED
    BY <1>3, <2>1, <2>3
<1>7. ASSUME Len(paged) + Len(vlv) <= 1, paged = <<>>, vlv # <<>>, a \in ViewAnswers(vlv[1], matches)
      PROVE  /\ Ordered(a) /\ FullPage(a)
             /\ \A k \in DOMAIN list : list[k].type = "vlv" =>
                  InWindow(a, list[k]) /\ NewList(a, list[k], matches)
  <2>1. Len(vlv) <= 1
    BY <1>3, <1>4, <1>7
  <2>2. Ordered(a) /\ a.resp.paged = None /\ InWindow(a, vlv[1]) /\ NewList(a, vlv[1], matches)
    BY <1>1, <1>4, <1>7, ViewFacts
  <2>3. FullPage(a)
    BY <2>2 DEF FullPage
  <2> QED
    BY <1>4, <2>1, <2>2, <2>3
<1>8. ASSUME paged = <<>>, vlv = <<>>, a = Answer(Sorted(matches), NoResponse, "ok", after, view)
      PROVE  Ordered(a) /\ FullPage(a) /\ a.resp.vlv = None
  <2>1. a = [found |-> Sorted(matches), resp |-> [paged |-> None, vlv |-> None], err |-> "ok",
             after |-> after, view |-> view]
    BY <1>8 DEF Answer, NoResponse
  <2>2. /\ Sorted(matches) \in Seq(Entries) /\ Ascends(Sorted(matches))
        /\ \A n \in DOMAIN Sorted(matches) : Sorted(matches)[n] \in dir
    BY <1>1, ListFacts
  <2>3. a \in AnswerType
    BY <2>1, <2>2 DEF AnswerType, ResponseType, Place, ServerOK
  <2> QED
    BY <2>1, <2>2, <2>3 DEF Ordered, FullPage, ServerOK
<1>9. CASE Len(paged) + Len(vlv) <= 1 /\ paged # <<>> /\ a \in PagedAnswers(paged[1].at, matches)
  BY <1>4, <1>6, <1>9
<1>10. CASE Len(paged) + Len(vlv) <= 1 /\ paged = <<>> /\ vlv # <<>> /\ a \in ViewAnswers(vlv[1], matches)
  BY <1>3, <1>4, <1>7, <1>10 DEF matches
<1>11. CASE paged = <<>> /\ vlv = <<>> /\ a = Answer(Sorted(matches), NoResponse, "ok", after, view)
  BY <1>3, <1>4, <1>8, <1>11
<1> QED
  BY <1>2, <1>3, <1>4, <1>5, <1>9, <1>10, <1>11

-----------------------------------------------------------------------------
(***************************************************************************)
(* The type invariant: types, and which calls and generators there can be  *)
(* in which phase with which messages and controls.                        *)
(***************************************************************************)
ControlsType == [server : Seq(Control), response : ResponseType]
Reply == [found : Seq(Entries), resp : ResponseType, err : Refused \cup {"ok"}, final : BOOLEAN]
Out ==
  [e : Entries, page : Nat \ {0}, entry : Nat, results : Place, lastPage : Int \cup {None}]
Results == Refused \cup {"ok", "failed", "notUnique", "attributeError", "closed"}
Frame ==
  [op : {"none", "search", "iter", "paged", "paginated", "get"}, ref : 0 .. 2, unique : BOOLEAN,
   phase : {"idle", "ask", "poll", "yield", "done"}, sleeping : BOOLEAN, tries : 0 .. Attempts,
   msgs : Seq(Reply), page : Nat \ {0}, entry : Nat, left : Seq(Entries), length : Place,
   lastPage : Int \cup {None}, out : Seq(Out), res : Results, seen : SUBSET Entries,
   stayed : SUBSET Entries, calm : BOOLEAN, fresh : BOOLEAN,
   meddled : SUBSET {"controls", "server"}, hollow : BOOLEAN]

\* Every response of an operation that is iterated has an entry, but the last, which has none.
Singles(msgs) ==
  \A m \in DOMAIN msgs : /\ ~msgs[m].final => Len(msgs[m].found) = 1
                         /\ msgs[m].final => msgs[m].found = <<>> /\ m = Len(msgs)

\* What the phase and the operation of a frame say of the rest of it.
FrameOK(fr) ==
  /\ fr \in Frame
  /\ fr.phase \in {"ask", "poll"} => fr.tries > 0
  /\ fr.phase \in {"idle", "done"} => fr.msgs = <<>>
  /\ fr.left # <<>> => fr.phase = "yield" /\ fr.op = "paginated"
  /\ fr.op = "paginated" => (fr.phase = "yield" => fr.msgs = <<>>)
                            /\ \A m \in DOMAIN fr.msgs :
                                 fr.msgs[m].err = "ok" => fr.msgs[m].resp.vlv # None
  /\ fr.op \in Iterates => Singles(fr.msgs)

\* A search is the generator, a get() the call.
Roles ==
  /\ frames[1].op # "get" /\ frames[1].ref \in {0, 1}
  /\ frames[2].op \in {"none", "get"} /\ frames[2].ref \in {0, 2} /\ frames[2].phase # "yield"
  /\ Working(2) => frames[1].phase = "yield"

FramesOK ==
  /\ frames \in [1 .. 2 -> Frame]
  /\ \A f \in 1 .. 2 : FrameOK(frames[f])

ControlsOK ==
  /\ controls \in [0 .. 2 -> ControlsType]
  /\ \A c \in 0 .. 2 : Request(controls[c].server)

TypeInv ==
  /\ ServerOK /\ link \in {"up", "lost", "gone"}
  /\ searches \in 0 .. MaxSearches /\ others \in 0 .. MaxOthers
  /\ ControlsOK /\ FramesOK /\ Roles
  /\ Controlled(frames[1], controls[frames[1].ref].server)
  /\ \A f \in 1 .. 2 : Open(frames[f]) => dir \subseteq frames[f].seen

(***************************************************************************)
(* Steps that find nothing: a frame waits, fails, is closed or goes on.    *)
(***************************************************************************)
\* The frame y has found what x has, and is done or as far as x.
Quiet(x, y) ==
  /\ y.op = x.op /\ y.ref = x.ref /\ y.unique = x.unique /\ y.out = x.out /\ x.seen \subseteq y.seen
  /\ \/ y.phase = "done" /\ y.msgs = <<>> /\ y.left = <<>>
     \/ /\ y.page = x.page /\ y.entry = x.entry /\ y.left = x.left /\ y.msgs \in {x.msgs, <<>>}
        /\ y.phase = x.phase \/ (x.phase = "yield" /\ y.phase = "poll" /\ x.op \in Iterates)

\* The controls of all requests stay; a response that is kept is one of the call's.
ControlsKept ==
  /\ ControlsOK'
  /\ \A c \in 0 .. 2 :
       /\ controls'[c].server = controls[c].server
       /\ \/ controls'[c].response = controls[c].response
          \/ frames'[1].phase = "done"
          \/ c = frames[2].ref /\ \E k \in DOMAIN frames[2].msgs :
               controls'[c].response = frames[2].msgs[k].resp

QuietStep ==
  /\ ServerOK' /\ (link \in {"up", "lost", "gone"})'
  /\ (searches \in 0 .. MaxSearches /\ others \in 0 .. MaxOthers)'
  /\ FramesOK' /\ Roles' /\ ControlsKept
  /\ \A f \in 1 .. 2 : Quiet(frames[f], frames'[f]) /\ (Open(frames'[f]) => dir' \subseteq frames'[f].seen)

\* A frame that is done has no messages and no entries left.
LEMMA FinishedFacts ==
  ASSUME NEW fr \in Frame, NEW res \in Results
  PROVE  /\ Finished(fr, res) \in Frame /\ FrameOK(Finished(fr, res))
         /\ Finished(fr, res).phase = "done" /\ Finished(fr, res).msgs = <<>>
         /\ Finished(fr, res).left = <<>>
         /\ Finished(fr, res).op = fr.op /\ Finished(fr, res).ref = fr.ref
         /\ Finished(fr, res).unique = fr.unique /\ Finished(fr, res).out = fr.out
         /\ Finished(fr, res).seen = fr.seen
<1> DEFINE new == Finished(fr, res)
<1>1. new = [fr EXCEPT !.phase = "done", !.res = res, !.msgs = <<>>, !.left = <<>>, !.tries = 0]
  BY DEF Finished
<1>2. <<>> \in Seq(Reply) /\ <<>> \in Seq(Entries) /\ 0 \in 0 .. Attempts
  BY ConstantsAssumption
<1>3. new \in Frame
  <2> DEFINE f1 == [fr EXCEPT !.phase = "done"]
             f2 == [f1 EXCEPT !.res = res]
             f3 == [f2 EXCEPT !.msgs = <<>>]
             f4 == [f3 EXCEPT !.left = <<>>]
             f5 == [f4 EXCEPT !.tries = 0]
  <2>1. f1 \in Frame
    BY ZenonT(30) DEF Frame
  <2>2. f2 \in Frame
    <3> HIDE DEF f1
    <3> QED
      BY <2>1, ZenonT(30) DEF Frame
  <2>3. f3 \in Frame
    <3> HIDE DEF f2
    <3> QED
      BY <1>2, <2>2, ZenonT(30) DEF Frame
  <2>4. f4 \in Frame
    <3> HIDE DEF f3
    <3> QED
      BY <1>2, <2>3, ZenonT(30) DEF Frame
  <2>5. f5 \in Frame
    <3> HIDE DEF f4
    <3> QED
      BY <1>2, <2>4, ZenonT(30) DEF Frame
  <2>6. new = f5
    BY <1>1
  <2> QED
    BY <2>5, <2>6
<1>4. /\ new.phase = "done" /\ new.msgs = <<>> /\ new.left = <<>>
      /\ new.op = fr.op /\ new.ref = fr.ref /\ new.unique = fr.unique
      /\ new.out = fr.out /\ new.seen = fr.seen
  BY <1>1 DEF Frame
<1> HIDE DEF new
<1>5. FrameOK(new)
  BY <1>3, <1>4 DEF FrameOK, Singles
<1> QED
  BY <1>3, <1>4, <1>5 DEF new

\* A frame that waits for the next attempt, or has had the last one.
LEMMA FailedFacts ==
  ASSUME NEW fr, FrameOK(fr), fr.tries > 0
  PROVE  /\ FrameOK(Failed(fr)) /\ Quiet(fr, Failed(fr))
         /\ Failed(fr).phase \in {fr.phase, "done"}
<1> DEFINE new == [fr EXCEPT !.tries = @ - 1, !.sleeping = TRUE]
<1>1. fr \in Frame /\ fr.tries \in 0 .. Attempts /\ Attempts \in Nat
  BY ConstantsAssumption DEF FrameOK, Frame
<1>2. CASE fr.tries = 1
  <2>1. "failed" \in Results /\ Failed(fr) = Finished(fr, "failed")
    BY <1>2 DEF Failed, Results
  <2> QED
    BY <1>1, <2>1, FinishedFacts DEF Quiet
<1>3. CASE fr.tries # 1
  <2>1. Failed(fr) = new
    BY <1>3 DEF Failed
  <2>2. fr.tries - 1 \in 0 .. Attempts /\ fr.tries - 1 > 0
    BY <1>1, <1>3
  <2>3. new \in Frame
    BY <1>1, <2>2 DEF Frame
  <2>4. /\ new.op = fr.op /\ new.ref = fr.ref /\ new.unique = fr.unique /\ new.out = fr.out
        /\ new.seen = fr.seen /\ new.page = fr.page /\ new.entry = fr.entry /\ new.left = fr.left
        /\ new.msgs = fr.msgs /\ new.phase = fr.phase /\ new.tries = fr.tries - 1
    BY <1>1 DEF Frame
  <2> HIDE DEF new
  <2>5. FrameOK(new) /\ Quiet(fr, new)
    BY <2>2, <2>3, <2>4 DEF FrameOK, Quiet
  <2> QED
    BY <2>1, <2>4, <2>5
<1> QED
  BY <1>2, <1>3

\* The messages of a frame are lost.
LEMMA ForgottenFacts ==
  ASSUME NEW fr, FrameOK(fr)
  PROVE  LET new == [fr EXCEPT !.msgs = <<>>]
         IN FrameOK(new) /\ Quiet(fr, new) /\ new.phase = fr.phase /\ new.tries = fr.tries
<1> DEFINE new == [fr EXCEPT !.msgs = <<>>]
<1>1. fr \in Frame /\ <<>> \in Seq(Reply)
  BY DEF FrameOK
<1>2. new \in Frame
  BY <1>1 DEF Frame
<1>3. /\ new.op = fr.op /\ new.ref = fr.ref /\ new.unique = fr.unique /\ new.out = fr.out
      /\ new.seen = fr.seen /\ new.page = fr.page /\ new.entry = fr.entry /\ new.left = fr.left
      /\ new.msgs = <<>> /\ new.phase = fr.phase /\ new.tries = fr.tries
  BY <1>1 DEF Frame
<1> HIDE DEF new
<1>4. DOMAIN new.msgs = {}
  BY <1>3
<1>5. FrameOK(new) /\ Quiet(fr, new)
  BY <1>2, <1>3, <1>4 DEF FrameOK, Quiet, Singles
<1> QED
  BY <1>3, <1>5 DEF new

\* A frame that only other fields change of.
LEMMA SameFacts ==
  ASSUME NEW fr, FrameOK(fr)
  PROVE  /\ Quiet(fr, fr)
         /\ \A calm \in BOOLEAN : LET new == [fr EXCEPT !.calm = calm]
                                  IN FrameOK(new) /\ Quiet(fr, new) /\ new.phase = fr.phase
         /\ LET new == [fr EXCEPT !.sleeping = FALSE]
            IN FrameOK(new) /\ Quiet(fr, new) /\ new.phase = fr.phase /\ new.tries = fr.tries
<1>1. fr \in Frame
  BY DEF FrameOK
<1>2. Quiet(fr, fr)
  BY DEF Quiet
<1>3. ASSUME NEW calm \in BOOLEAN
      PROVE  LET new == [fr EXCEPT !.calm = calm]
             IN FrameOK(new) /\ Quiet(fr, new) /\ new.phase = fr.phase
  <2> DEFINE new == [fr EXCEPT !.calm = calm]
  <2>1. new \in Frame
    BY <1>1 DEF Frame
  <2>2. /\ new.op = fr.op /\ new.ref = fr.ref /\ new.unique = fr.unique /\ new.out = fr.out
        /\ new.seen = fr.seen /\ new.page = fr.page /\ new.entry = fr.entry /\ new.left = fr.left
        /\ new.msgs = fr.msgs /\ new.phase = fr.phase /\ new.tries = fr.tries
    BY <1>1 DEF Frame
  <2> HIDE DEF new
  <2>3. FrameOK(new) /\ Quiet(fr, new)
    BY <2>1, <2>2 DEF FrameOK, Quiet
  <2> QED
    BY <2>2, <2>3 DEF new
<1>4. LET new == [fr EXCEPT !.sleeping = FALSE]
      IN FrameOK(new) /\ Quiet(fr, new) /\ new.phase = fr.phase /\ new.tries = fr.tries
  <2> DEFINE new == [fr EXCEPT !.sleeping = FALSE]
  <2>1. new \in Frame
    BY <1>1 DEF Frame
  <2>2. /\ new.op = fr.op /\ new.ref = fr.ref /\ new.unique = fr.unique /\ new.out = fr.out
        /\ new.seen = fr.seen /\ new.page = fr.page /\ new.entry = fr.entry /\ new.left = fr.left
        /\ new.msgs = fr.msgs /\ new.phase = fr.phase /\ new.tries = fr.tries
    BY <1>1 DEF Frame
  <2> HIDE DEF new
  <2>3. FrameOK(new) /\ Quiet(fr, new)
    BY <2>1, <2>2 DEF FrameOK, Quiet
  <2> QED
    BY <2>2, <2>3 DEF new
<1> QED
  BY <1>2, <1>3, <1>4

\* The facts compose.
LEMMA QuietTwice ==
  ASSUME NEW x, NEW y, NEW z, Quiet(x, y), Quiet(y, z)
  PROVE  Quiet(x, z)
<1>1. CASE z.phase = "done" /\ z.msgs = <<>> /\ z.left = <<>>
  BY <1>1 DEF Quiet
<1>2. CASE ~(z.phase = "done" /\ z.msgs = <<>> /\ z.left = <<>>)
  BY <1>2 DEF Quiet
<1> QED
  BY <1>1, <1>2

\* The step is quiet if each frame is.
LEMMA QuietFrames ==
  ASSUME TypeInv, dir' = dir, (ServerOK)', (link \in {"up", "lost", "gone"})',
         (searches \in 0 .. MaxSearches /\ others \in 0 .. MaxOthers)', ControlsKept,
         NEW new, frames' = new, DOMAIN new = 1 .. 2,
         \A f \in 1 .. 2 : FrameOK(new[f]) /\ Quiet(frames[f], new[f]),
         new = [f \in 1 .. 2 |-> new[f]],
         Working(2) => frames'[1].phase = "yield" \/ frames'[2].phase = "done"
  PROVE  QuietStep
<1>1. \A f \in 1 .. 2 : new[f] \in Frame
  BY DEF FrameOK
<1>2. new \in [1 .. 2 -> Frame]
  BY <1>1
<1>3. FramesOK'
  BY <1>2 DEF FramesOK
<1>4. \A f \in 1 .. 2 : Open(new[f]) => Open(frames[f]) /\ frames[f].seen \subseteq new[f].seen
  BY DEF Open, Quiet
<1>5. \A f \in 1 .. 2 : Open(frames'[f]) => dir' \subseteq frames'[f].seen
  BY <1>4 DEF TypeInv
<1>6. 1 \in 1 .. 2 /\ 2 \in 1 .. 2
  OBVIOUS
<1>7. /\ frames'[1].op = frames[1].op /\ frames'[1].ref = frames[1].ref
      /\ frames'[2].op = frames[2].op /\ frames'[2].ref = frames[2].ref
  BY <1>6 DEF Quiet
<1>8. frames'[2].phase \in {"ask", "poll"} => frames[2].phase \in {"ask", "poll"}
  BY <1>6 DEF Quiet, TypeInv, Roles
<1>9. frames'[2].phase # "yield"
  BY <1>6 DEF Quiet, TypeInv, Roles
<1>10. Roles'
  BY <1>7, <1>8, <1>9 DEF TypeInv, Roles, Working
<1> QED
  BY <1>3, <1>5, <1>10 DEF QuietStep

\* Controls that nobody touches.
LEMMA ControlsUnchanged ==
  ASSUME TypeInv, UNCHANGED controls
  PROVE  ControlsKept
<1>1. ControlsOK'
  BY DEF TypeInv, ControlsOK
<1> QED
  BY <1>1 DEF ControlsKept

\* A frame of the program is replaced by one that is quiet.
LEMMA QuietChange ==
  ASSUME TypeInv, NEW f \in 1 .. 2, NEW new, FrameOK(new), Quiet(frames[f], new), Changes(f, new),
         dir' = dir, (ServerOK)', (link \in {"up", "lost", "gone"})', UNCHANGED <<searches, others>>,
         ControlsKept,
         f = 1 /\ Working(2) => new.phase = "yield"
  PROVE  QuietStep
<1> DEFINE all == [frames EXCEPT ![f] = new]
<1>1. frames \in [1 .. 2 -> Frame] /\ \A g \in 1 .. 2 : FrameOK(frames[g])
  BY DEF TypeInv, FramesOK
<1>2. /\ all = [g \in 1 .. 2 |-> IF g = f THEN new ELSE frames[g]] /\ DOMAIN all = 1 .. 2
      /\ all[f] = new /\ \A g \in 1 .. 2 : g # f => all[g] = frames[g]
  BY <1>1
<1>3. frames' = all /\ all = [g \in 1 .. 2 |-> all[g]]
  BY <1>2 DEF Changes
<1>4. \A g \in 1 .. 2 : FrameOK(all[g]) /\ Quiet(frames[g], all[g])
  BY <1>1, <1>2, SameFacts
<1> HIDE DEF all
<1>5. (searches \in 0 .. MaxSearches /\ others \in 0 .. MaxOthers)'
  BY DEF TypeInv
<1>6. Working(2) => frames'[1].phase = "yield" \/ frames'[2].phase = "done"
  BY <1>2, <1>3 DEF TypeInv, Roles
<1> QED
  BY <1>2, <1>3, <1>4, <1>5, <1>6, QuietFrames

\* The new handle has no session at the server, and no messages for anyone.
LEMMA ReplacedFacts ==
  ASSUME TypeInv, NEW f \in 1 .. 2, NEW fr, FrameOK(fr), Quiet(frames[f], fr), Replaced(f, fr),
         UNCHANGED <<dir, controls, searches, others>>,
         f = 1 /\ Working(2) => fr.phase = "yield"
  PROVE  QuietStep
<1> DEFINE old(g) == IF g = f THEN fr ELSE frames[g]
           all == [g \in 1 .. 2 |-> [old(g) EXCEPT !.msgs = <<>>]]
<1>1. DOMAIN frames = 1 .. 2 /\ \A g \in 1 .. 2 : FrameOK(frames[g])
  BY DEF TypeInv, FramesOK
<1>2. frames' = all /\ DOMAIN all = 1 .. 2 /\ all = [g \in 1 .. 2 |-> all[g]]
  BY <1>1 DEF Replaced
<1>3. \A g \in 1 .. 2 : FrameOK(old(g)) /\ Quiet(frames[g], old(g))
  BY <1>1, SameFacts
<1>4. \A g \in 1 .. 2 : FrameOK(all[g]) /\ Quiet(old(g), all[g]) /\ all[g].phase = old(g).phase
  <2> TAKE g \in 1 .. 2
  <2>1. all[g] = [old(g) EXCEPT !.msgs = <<>>]
    OBVIOUS
  <2>2. FrameOK(old(g))
    BY <1>3
  <2> HIDE DEF old, all
  <2> QED
    BY <2>1, <2>2, ForgottenFacts
<1>5. \A g \in 1 .. 2 : Quiet(frames[g], all[g])
  BY <1>3, <1>4, QuietTwice
<1>6. (ServerOK)' /\ (link \in {"up", "lost", "gone"})'
  BY DEF TypeInv, ServerOK, Replaced, Place
<1>7. (searches \in 0 .. MaxSearches /\ others \in 0 .. MaxOthers)' /\ ControlsKept
  BY ControlsUnchanged DEF TypeInv
<1>8. Working(2) => frames'[1].phase = "yield" \/ frames'[2].phase = "done"
  BY <1>2, <1>4 DEF TypeInv, Roles
<1> HIDE DEF all
<1> QED
  BY <1>2, <1>4, <1>5, <1>6, <1>7, <1>8, QuietFrames

\* One call at a time works.
LEMMA OneWorks ==
  ASSUME TypeInv, Working(1)
  PROVE  ~Working(2)
BY DEF TypeInv, Roles, Working

\* A reconnect in _retry, and its failure, are quiet: messages are lost, nothing is found.
LEMMA RetryQuiet ==
  ASSUME TypeInv, NEW f \in 1 .. 2, Retry(f)
  PROVE  QuietStep
<1>1. FrameOK(frames[f]) /\ Working(f) /\ frames[f].tries > 0
  BY DEF Retry, TypeInv, FramesOK, FrameOK, Working
<1>2. f = 1 => ~Working(2)
  BY <1>1, OneWorks DEF Retry
<1>3. UNCHANGED <<dir, controls, searches, others>>
  BY DEF Retry
<1>4. CASE Replaced(f, [frames[f] EXCEPT !.sleeping = FALSE])
  <2> DEFINE fr == [frames[f] EXCEPT !.sleeping = FALSE]
  <2>1. FrameOK(fr) /\ Quiet(frames[f], fr)
    BY <1>1, SameFacts
  <2> HIDE DEF fr
  <2>2. Replaced(f, fr)
    BY <1>4 DEF fr
  <2> QED
    BY <1>2, <1>3, <2>1, <2>2, ReplacedFacts
<1>5. CASE /\ link' = "gone" /\ after' = None /\ view' = None
           /\ Changes(f, Failed([frames[f] EXCEPT !.msgs = <<>>]))
  <2> DEFINE fr == [frames[f] EXCEPT !.msgs = <<>>]
             new == Failed(fr)
  <2>1. FrameOK(fr) /\ Quiet(frames[f], fr) /\ fr.tries > 0
    BY <1>1, ForgottenFacts
  <2>2. FrameOK(new) /\ Quiet(fr, new)
    <3> HIDE DEF fr
    <3> QED
      BY <2>1, FailedFacts
  <2> HIDE DEF fr
  <2>3. Changes(f, new)
    BY <1>5 DEF fr
  <2> HIDE DEF new
  <2>4. Quiet(frames[f], new)
    BY <2>1, <2>2, QuietTwice
  <2>5. (ServerOK)' /\ (link \in {"up", "lost", "gone"})' /\ ControlsKept
    BY <1>3, <1>5, ControlsUnchanged DEF TypeInv, ServerOK, Place
  <2> QED
    BY <1>2, <1>3, <2>2, <2>3, <2>4, <2>5, QuietChange
<1> QED
  BY <1>4, <1>5 DEF Retry

\* Finishing is quiet.
LEMMA FinishQuiet ==
  ASSUME TypeInv, NEW f \in 1 .. 2, NEW res \in Results, Finishes(f, res),
         dir' = dir, (ServerOK)', (link \in {"up", "lost", "gone"})', UNCHANGED <<searches, others>>,
         ControlsKept, f = 1 => ~Working(2)
  PROVE  QuietStep
<1> DEFINE new == Finished(frames[f], res)
<1>1. frames[f] \in Frame
  BY DEF TypeInv, FramesOK
<1>2. FrameOK(new) /\ Quiet(frames[f], new)
  BY <1>1, FinishedFacts DEF Quiet
<1>3. Changes(f, new)
  BY DEF Finishes
<1> HIDE DEF new
<1> QED
  BY <1>2, <1>3, QuietChange

\* A call that has no handle ends.
LEMMA NoHandleQuiet ==
  ASSUME TypeInv, NEW f \in 1 .. 2, NoHandle(f)
  PROVE  QuietStep
<1>1. f = 1 => ~Working(2)
  BY OneWorks DEF NoHandle
<1>2. Finishes(f, "failed") /\ "failed" \in Results
  BY DEF NoHandle, Results
<1>3. UNCHANGED <<dir, after, view, link, controls, searches, others>>
  BY DEF NoHandle, server
<1>4. (ServerOK)' /\ (link \in {"up", "lost", "gone"})' /\ ControlsKept
  BY <1>3, ControlsUnchanged DEF TypeInv, ServerOK
<1> QED
  BY <1>1, <1>2, <1>3, <1>4, FinishQuiet

\* A request or a result that meets a lost connection waits in _retry or ends the call.
LEMMA ServerDownQuiet ==
  ASSUME TypeInv, NEW f \in 1 .. 2, ServerDown(f)
  PROVE  QuietStep
<1> DEFINE new == Failed(frames[f])
<1>1. FrameOK(frames[f]) /\ frames[f].tries > 0
  BY DEF ServerDown, TypeInv, FramesOK, FrameOK, Working
<1>2. f = 1 => ~Working(2)
  BY OneWorks DEF ServerDown
<1>3. FrameOK(new) /\ Quiet(frames[f], new)
  BY <1>1, FailedFacts
<1>4. Changes(f, new) /\ UNCHANGED <<dir, after, view, link, controls, searches, others>>
  BY DEF ServerDown, server
<1> HIDE DEF new
<1>5. (ServerOK)' /\ (link \in {"up", "lost", "gone"})' /\ ControlsKept
  BY <1>4, ControlsUnchanged DEF TypeInv, ServerOK
<1> QED
  BY <1>2, <1>3, <1>4, <1>5, QuietChange

\* A result that does not come in time does the same.
LEMMA TimeoutQuiet ==
  ASSUME TypeInv, NEW f \in 1 .. 2, Timeout(f)
  PROVE  QuietStep
<1> DEFINE old(g) == IF g = f THEN Failed(frames[f]) ELSE frames[g]
           all == [g \in 1 .. 2 |-> [old(g) EXCEPT !.calm = FALSE]]
<1>1. DOMAIN frames = 1 .. 2 /\ \A g \in 1 .. 2 : FrameOK(frames[g])
  BY DEF TypeInv, FramesOK
<1>2. frames' = all /\ DOMAIN all = 1 .. 2 /\ all = [g \in 1 .. 2 |-> all[g]]
  BY <1>1 DEF Timeout
<1>3. Working(f) /\ frames[f].tries > 0
  BY <1>1 DEF Timeout, Awake, Working, FrameOK
<1>4. \A g \in 1 .. 2 : FrameOK(old(g)) /\ Quiet(frames[g], old(g))
  BY <1>1, <1>3, SameFacts, FailedFacts
<1>5. \A g \in 1 .. 2 : FrameOK(all[g]) /\ Quiet(old(g), all[g]) /\ all[g].phase = old(g).phase
  <2> TAKE g \in 1 .. 2
  <2>1. all[g] = [old(g) EXCEPT !.calm = FALSE]
    OBVIOUS
  <2>2. FrameOK(old(g))
    BY <1>4
  <2> HIDE DEF old, all
  <2> QED
    BY <2>1, <2>2, SameFacts
<1>6. \A g \in 1 .. 2 : Quiet(frames[g], all[g])
  BY <1>4, <1>5, QuietTwice
<1>7. UNCHANGED <<dir, after, view, link, controls, searches, others>>
  BY DEF Timeout, server
<1>8. /\ (ServerOK)' /\ (link \in {"up", "lost", "gone"})' /\ ControlsKept
      /\ (searches \in 0 .. MaxSearches /\ others \in 0 .. MaxOthers)'
  BY <1>7, ControlsUnchanged DEF TypeInv, ServerOK
<1>9. Working(2) => frames'[1].phase = "yield" \/ frames'[2].phase = "done"
  BY <1>2, <1>3, <1>5, OneWorks DEF TypeInv, Roles
<1> HIDE DEF all
<1> QED
  BY <1>2, <1>5, <1>6, <1>7, <1>8, <1>9, QuietFrames

\* The next message of a frame.
LEMMA MessageFacts ==
  ASSUME TypeInv, NEW f \in 1 .. 2, frames[f].msgs # <<>>
  PROVE  /\ Message(f) \in Reply /\ Message(f) = frames[f].msgs[1] /\ 1 \in DOMAIN frames[f].msgs
         /\ Received(f) \in ControlsType /\ Received(f).response = Message(f).resp
         /\ Received(f).server = controls[frames[f].ref].server
         /\ frames[f].ref \in 0 .. 2 /\ Gotten(Received(f), "paged") = Message(f).resp.paged
         /\ Gotten(Received(f), "vlv") = Message(f).resp.vlv
<1>1. frames[f] \in Frame
  BY DEF TypeInv, FramesOK
<1>2. frames[f].msgs \in Seq(Reply) /\ frames[f].ref \in 0 .. 2
  BY <1>1 DEF Frame
<1>3. Message(f) \in Reply /\ Message(f) = frames[f].msgs[1] /\ 1 \in DOMAIN frames[f].msgs
  BY <1>2 DEF Message
<1>4. controls[frames[f].ref] \in ControlsType /\ Message(f).resp \in ResponseType
  BY <1>2, <1>3 DEF TypeInv, ControlsOK, Reply
<1>5. /\ Received(f) \in ControlsType /\ Received(f).response = Message(f).resp
      /\ Received(f).server = controls[frames[f].ref].server
  BY <1>4 DEF Received, SetResponse, ControlsType
<1> QED
  BY <1>2, <1>3, <1>5 DEF Gotten

\* The controls of a frame when a message was received.
LEMMA ReceivedFacts ==
  ASSUME TypeInv, NEW f \in 1 .. 2, frames[f].msgs # <<>>, Controlling(f, Received(f))
  PROVE  /\ ControlsOK' /\ \A c \in 0 .. 2 : controls'[c].server = controls[c].server
         /\ controls'[frames[f].ref].response = Message(f).resp
         /\ \A c \in 0 .. 2 : c # frames[f].ref => controls'[c] = controls[c]
<1> DEFINE r == frames[f].ref
           new == Received(f)
<1>1. /\ r \in 0 .. 2 /\ new \in ControlsType /\ new.response = Message(f).resp
      /\ new.server = controls[r].server
  BY MessageFacts
<1>2. /\ controls \in [0 .. 2 -> ControlsType] /\ controls' = [controls EXCEPT ![r] = new]
      /\ \A c \in 0 .. 2 : Request(controls[c].server)
  BY DEF TypeInv, ControlsOK, Controlling
<1> HIDE DEF r, new
<1>3. /\ controls' \in [0 .. 2 -> ControlsType] /\ controls'[r] = new
      /\ \A c \in 0 .. 2 : c # r => controls'[c] = controls[c]
  BY <1>1, <1>2
<1>4. \A c \in 0 .. 2 : controls'[c].server = controls[c].server
  BY <1>1, <1>3
<1> QED
  BY <1>1, <1>2, <1>3, <1>4 DEF ControlsOK, r

\* An error, or too many results, ends the call.
LEMMA RaiseQuiet ==
  ASSUME TypeInv, NEW f \in 1 .. 2, Raise(f)
  PROVE  QuietStep
<1> DEFINE res == IF Message(f).err # "ok" THEN Message(f).err ELSE "notUnique"
<1>1. Working(f) /\ frames[f].msgs # <<>>
  BY DEF Raise, Ready, Awake, Working
<1>2. f = 1 => ~Working(2)
  BY <1>1, OneWorks
<1>3. res \in Results /\ Finishes(f, res)
  BY <1>1, MessageFacts DEF Reply, Results, Raise
<1>4. UNCHANGED <<dir, after, view, link, searches, others>>
  BY DEF Raise, server
<1>5. (ServerOK)' /\ (link \in {"up", "lost", "gone"})'
  BY <1>4 DEF TypeInv, ServerOK
<1>6. ControlsKept
  <2>1. CASE UNCHANGED controls
    BY <2>1, ControlsUnchanged
  <2>2. CASE Controlling(f, Received(f))
    <3>1. /\ ControlsOK' /\ \A c \in 0 .. 2 : controls'[c].server = controls[c].server
          /\ controls'[frames[f].ref].response = Message(f).resp
          /\ \A c \in 0 .. 2 : c # frames[f].ref => controls'[c] = controls[c]
      BY <1>1, <2>2, ReceivedFacts
    <3>2. Message(f) = frames[f].msgs[1] /\ 1 \in DOMAIN frames[f].msgs
      BY <1>1, MessageFacts
    <3>3. f = 1 => frames'[1].phase = "done"
      <4>1. frames[f] \in Frame /\ DOMAIN frames = 1 .. 2
        BY DEF TypeInv, FramesOK
      <4>2. frames'[f] = Finished(frames[f], res)
        BY <1>3, <4>1 DEF Finishes, Changes
      <4> QED
        BY <1>3, <4>1, <4>2, FinishedFacts
    <3> QED
      BY <3>1, <3>2, <3>3 DEF ControlsKept
  <2> QED
    BY <2>1, <2>2 DEF Raise
<1> HIDE DEF res
<1> QED
  BY <1>2, <1>3, <1>4, <1>5, <1>6, FinishQuiet

\* A frame is asked for its next result.
LEMMA PollingFacts ==
  ASSUME NEW fr \in Frame
  PROVE  /\ Polling(fr) \in Frame /\ Polling(fr).phase = "poll" /\ Polling(fr).tries > 0
         /\ Polling(fr).op = fr.op /\ Polling(fr).ref = fr.ref /\ Polling(fr).unique = fr.unique
         /\ Polling(fr).out = fr.out /\ Polling(fr).seen = fr.seen /\ Polling(fr).page = fr.page
         /\ Polling(fr).entry = fr.entry /\ Polling(fr).left = fr.left /\ Polling(fr).msgs = fr.msgs
<1>1. Attempts \in 0 .. Attempts /\ Attempts > 0
  BY ConstantsAssumption
<1>2. Polling(fr) = [fr EXCEPT !.phase = "poll", !.tries = Attempts]
  BY DEF Polling
<1> DEFINE f1 == [fr EXCEPT !.phase = "poll"]
           f2 == [f1 EXCEPT !.tries = Attempts]
<1>3. Polling(fr) = f2
  BY <1>2
<1>4. f1 \in Frame
  BY ZenonT(30) DEF Frame
<1>5. f2 \in Frame
  <2> HIDE DEF f1
  <2> QED
    BY <1>1, <1>4, ZenonT(30) DEF Frame
<1>6. /\ f2.phase = "poll" /\ f2.tries = Attempts
      /\ f2.op = fr.op /\ f2.ref = fr.ref /\ f2.unique = fr.unique
      /\ f2.out = fr.out /\ f2.seen = fr.seen /\ f2.page = fr.page
      /\ f2.entry = fr.entry /\ f2.left = fr.left /\ f2.msgs = fr.msgs
  BY DEF Frame
<1> HIDE DEF f2
<1> QED
  BY <1>1, <1>3, <1>5, <1>6

\* A generator that is asked for its next response waits for it.
LEMMA ResumeIterQuiet ==
  ASSUME TypeInv, NEW f \in 1 .. 2, ResumeIter(f)
  PROVE  QuietStep
<1> DEFINE fr == frames[f]
           new == Polling(fr)
<1>1. FrameOK(fr) /\ fr \in Frame
  BY DEF TypeInv, FramesOK
<1>2. fr.phase = "yield" /\ fr.op \in Iterates /\ Free(3 - f) /\ Changes(f, new)
  BY DEF ResumeIter
<1>3. f = 1
  BY <1>2 DEF TypeInv, Roles
<1>4. ~Working(2)
  BY <1>2, <1>3 DEF Free, Working
<1>5. /\ new \in Frame /\ new.phase = "poll" /\ new.tries > 0
      /\ new.op = fr.op /\ new.ref = fr.ref /\ new.unique = fr.unique
      /\ new.out = fr.out /\ new.seen = fr.seen /\ new.page = fr.page
      /\ new.entry = fr.entry /\ new.left = fr.left /\ new.msgs = fr.msgs
  BY <1>1, PollingFacts
<1>6. "paginated" \notin Iterates
  BY DEF Iterates
<1> HIDE DEF new
<1>7. FrameOK(new)
  BY <1>1, <1>2, <1>5, <1>6 DEF FrameOK
<1>8. Quiet(fr, new)
  BY <1>2, <1>5 DEF Quiet
<1>9. UNCHANGED <<dir, after, view, link, controls, searches, others>>
  BY DEF ResumeIter, server
<1>10. (ServerOK)' /\ (link \in {"up", "lost", "gone"})' /\ ControlsKept
  BY <1>9, ControlsUnchanged DEF TypeInv, ServerOK
<1> QED
  BY <1>2, <1>4, <1>7, <1>8, <1>9, <1>10, QuietChange

\* A generator that is closed is done.
LEMMA CloseQuiet ==
  ASSUME TypeInv, NEW f \in 1 .. 2, Close(f)
  PROVE  QuietStep
<1> DEFINE new == Finished(frames[f], "closed")
<1>1. "closed" \in Results /\ "failed" \in Results
  BY DEF Results
<1>2. FrameOK(new) /\ Quiet(frames[f], new)
  BY <1>1, FinishedFacts DEF Quiet, TypeInv, FramesOK
<1>3. f = 1 => ~Working(2)
  BY DEF Close, Free, Working
<1>4. UNCHANGED <<dir, controls, searches, others>>
  BY DEF Close
<1>5. CASE Replaced(f, new)
  <2> HIDE DEF new
  <2> QED
    BY <1>2, <1>3, <1>4, <1>5, ReplacedFacts
<1>6. CASE link' = "gone" /\ Finishes(f, "failed") /\ UNCHANGED <<after, view>>
  <2>1. (ServerOK)' /\ (link \in {"up", "lost", "gone"})' /\ ControlsKept
    BY <1>4, <1>6, ControlsUnchanged DEF TypeInv, ServerOK
  <2> QED
    BY <1>1, <1>3, <1>4, <1>6, <2>1, FinishQuiet
<1>7. CASE Finishes(f, "closed") /\ UNCHANGED <<link, after, view>>
  <2>1. (ServerOK)' /\ (link \in {"up", "lost", "gone"})' /\ ControlsKept
    BY <1>4, <1>7, ControlsUnchanged DEF TypeInv, ServerOK
  <2> QED
    BY <1>1, <1>3, <1>4, <1>7, <2>1, FinishQuiet
<1> QED
  BY <1>5, <1>6, <1>7 DEF Close

\* Another client's change: every open search has seen the new entries.
LEMMA ChangedFacts ==
  ASSUME NEW fr, FrameOK(fr), NEW new \in SUBSET Entries
  PROVE  LET all == [fr EXCEPT !.seen = @ \cup new, !.stayed = @ \cap new, !.calm = FALSE]
         IN FrameOK(all) /\ Quiet(fr, all) /\ all.phase = fr.phase /\ new \subseteq all.seen
<1> DEFINE all == [fr EXCEPT !.seen = @ \cup new, !.stayed = @ \cap new, !.calm = FALSE]
<1>1. fr \in Frame
  BY DEF FrameOK
<1>2. fr.seen \cup new \in SUBSET Entries /\ fr.stayed \cap new \in SUBSET Entries
  BY <1>1 DEF Frame
<1>3. all \in Frame
  BY <1>1, <1>2 DEF Frame
<1>4. /\ all.op = fr.op /\ all.ref = fr.ref /\ all.unique = fr.unique /\ all.out = fr.out
      /\ all.seen = fr.seen \cup new /\ all.page = fr.page /\ all.entry = fr.entry /\ all.left = fr.left
      /\ all.msgs = fr.msgs /\ all.phase = fr.phase /\ all.tries = fr.tries
  BY <1>1 DEF Frame
<1> HIDE DEF all
<1>5. FrameOK(all) /\ Quiet(fr, all)
  BY <1>3, <1>4 DEF FrameOK, Quiet
<1> QED
  BY <1>4, <1>5 DEF all

\* Another client adds to what was there during the searches.
LEMMA ChangedQuiet ==
  ASSUME TypeInv, NEW new \in SUBSET Entries, Changed(new)
  PROVE  QuietStep
<1> DEFINE one(f) == [frames[f] EXCEPT !.seen = @ \cup new, !.stayed = @ \cap new, !.calm = FALSE]
           all == [f \in 1 .. 2 |-> IF ~Open(frames[f]) THEN frames[f] ELSE one(f)]
<1>1. DOMAIN frames = 1 .. 2 /\ \A g \in 1 .. 2 : FrameOK(frames[g])
  BY DEF TypeInv, FramesOK
<1>2. frames' = all
  BY <1>1 DEF Changed
<1>3. \A f \in 1 .. 2 : /\ FrameOK(one(f)) /\ Quiet(frames[f], one(f))
                        /\ one(f).phase = frames[f].phase /\ new \subseteq one(f).seen
  BY <1>1, ChangedFacts
<1> HIDE DEF one
<1>4. \A f \in 1 .. 2 : /\ FrameOK(all[f]) /\ Quiet(frames[f], all[f])
                        /\ all[f].phase = frames[f].phase
                        /\ Open(frames[f]) => new \subseteq all[f].seen
  BY <1>1, <1>3, SameFacts
<1>5. all \in [1 .. 2 -> Frame]
  BY <1>4 DEF FrameOK
<1> HIDE DEF all
<1>6. FramesOK'
  BY <1>2, <1>4, <1>5 DEF FramesOK
<1>7. /\ dir' = new /\ UNCHANGED <<after, view, link, controls, searches>>
      /\ others < MaxOthers /\ others' = others + 1
  BY DEF Changed
<1>8. \A f \in 1 .. 2 : Open(frames'[f]) => dir' \subseteq frames'[f].seen
  BY <1>2, <1>4, <1>7 DEF Open
<1>9. 1 \in 1 .. 2 /\ 2 \in 1 .. 2
  OBVIOUS
<1>10. /\ frames'[1].op = frames[1].op /\ frames'[1].ref = frames[1].ref
       /\ frames'[2].op = frames[2].op /\ frames'[2].ref = frames[2].ref
       /\ frames'[1].phase = frames[1].phase /\ frames'[2].phase = frames[2].phase
  BY <1>2, <1>4, <1>9 DEF Quiet
<1>11. Roles'
  BY <1>10 DEF TypeInv, Roles, Working
<1>12. (ServerOK)' /\ (link \in {"up", "lost", "gone"})' /\ ControlsKept
  BY <1>7, ControlsUnchanged DEF TypeInv, ServerOK
<1>13. (searches \in 0 .. MaxSearches /\ others \in 0 .. MaxOthers)'
  BY <1>7, ConstantsAssumption DEF TypeInv
<1> QED
  BY <1>2, <1>4, <1>6, <1>8, <1>11, <1>12, <1>13 DEF QuietStep

\* A lost connection takes messages away.
LEMMA ConnectionLostQuiet ==
  ASSUME TypeInv, ConnectionLost
  PROVE  QuietStep
<1>1. PICK read \in BOOLEAN :
        frames' = [f \in DOMAIN frames |-> IF ~Open(frames[f]) THEN frames[f] ELSE
                     [frames[f] EXCEPT !.calm = FALSE, !.msgs = IF read THEN @ ELSE <<>>]]
  BY DEF ConnectionLost
<1> DEFINE calmed(f) == [frames[f] EXCEPT !.calm = FALSE]
           one(f) == [frames[f] EXCEPT !.calm = FALSE, !.msgs = IF read THEN @ ELSE <<>>]
           all == [f \in 1 .. 2 |-> IF ~Open(frames[f]) THEN frames[f] ELSE one(f)]
<1>2. DOMAIN frames = 1 .. 2 /\ \A g \in 1 .. 2 : FrameOK(frames[g]) /\ frames[g] \in Frame
  BY DEF TypeInv, FramesOK
<1>3. frames' = all
  BY <1>1, <1>2
<1>4. \A f \in 1 .. 2 : FrameOK(calmed(f)) /\ Quiet(frames[f], calmed(f)) /\ calmed(f).phase = frames[f].phase
  BY <1>2, SameFacts
<1>5. \A f \in 1 .. 2 : FrameOK(one(f)) /\ Quiet(frames[f], one(f)) /\ one(f).phase = frames[f].phase
  <2> TAKE f \in 1 .. 2
  <2>1. CASE read
    <3>1. one(f) = calmed(f)
      BY <1>2, <2>1 DEF Frame
    <3> QED
      BY <1>4, <3>1
  <2>2. CASE ~read
    <3>1. one(f) = [calmed(f) EXCEPT !.msgs = <<>>]
      BY <1>2, <2>2 DEF Frame
    <3> DEFINE old == calmed(f)
    <3>2. FrameOK(old) /\ Quiet(frames[f], old) /\ old.phase = frames[f].phase
      BY <1>4
    <3> HIDE DEF old
    <3> DEFINE new == [old EXCEPT !.msgs = <<>>]
    <3>3. FrameOK(new) /\ Quiet(old, new) /\ new.phase = old.phase
      BY <3>2, ForgottenFacts
    <3> HIDE DEF new
    <3>4. Quiet(frames[f], new)
      BY <3>2, <3>3, QuietTwice
    <3>5. one(f) = new
      BY <3>1 DEF new, old
    <3> QED
      BY <3>2, <3>3, <3>4, <3>5
  <2> QED
    BY <2>1, <2>2
<1> HIDE DEF one
<1>6. \A f \in 1 .. 2 : /\ FrameOK(all[f]) /\ Quiet(frames[f], all[f])
                        /\ all[f].phase = frames[f].phase
  BY <1>2, <1>5, SameFacts
<1>7. DOMAIN all = 1 .. 2 /\ all = [f \in 1 .. 2 |-> all[f]]
  OBVIOUS
<1> HIDE DEF all
<1>8. /\ UNCHANGED <<dir, controls, searches>> /\ link' = "lost" /\ after' = None /\ view' = None
      /\ others < MaxOthers /\ others' = others + 1
  BY DEF ConnectionLost
<1>9. (ServerOK)' /\ (link \in {"up", "lost", "gone"})' /\ ControlsKept
  BY <1>8, ControlsUnchanged DEF TypeInv, ServerOK, Place
<1>10. (searches \in 0 .. MaxSearches /\ others \in 0 .. MaxOthers)'
  BY <1>8, ConstantsAssumption DEF TypeInv
<1>11. Working(2) => frames'[1].phase = "yield" \/ frames'[2].phase = "done"
  BY <1>3, <1>6 DEF TypeInv, Roles
<1> QED
  BY <1>3, <1>6, <1>7, <1>8, <1>9, <1>10, <1>11, QuietFrames

-----------------------------------------------------------------------------
(***************************************************************************)
(* Controls of the requests.                                               *)
(***************************************************************************)
LEMMA AppendServerFacts ==
  ASSUME NEW c \in ControlsType, Request(c.server), NEW control \in Control,
         control.type = "vlv" => control.at \in Nat \ {0}
  PROVE  LET new == AppendServer(c, control)
         IN /\ new \in ControlsType /\ Request(new.server) /\ new.response = c.response
            /\ \E n \in DOMAIN new.server : new.server[n] = control
            /\ \A n \in DOMAIN new.server : \/ new.server[n] = control
                                            \/ \E k \in DOMAIN c.server : new.server[n] = c.server[k]
<1> DEFINE new == AppendServer(c, control)
           list == c.server
<1>1. list \in Seq(Control) /\ \A n \in DOMAIN list : list[n].type = "vlv" => list[n].at \in Nat \ {0}
  BY DEF Request
<1>2. new = [c EXCEPT !.server = Append(list, control)]
  BY DEF AppendServer
<1> HIDE DEF list
<1>4. /\ Append(list, control) \in Seq(Control) /\ Len(list) \in Nat
      /\ Len(Append(list, control)) = Len(list) + 1
      /\ \A n \in 1 .. Len(list) : Append(list, control)[n] = list[n]
      /\ Append(list, control)[Len(list) + 1] = control
  BY <1>1, AppendProperties
<1>3. new \in ControlsType /\ new.response = c.response /\ new.server = Append(list, control)
  BY <1>2, <1>4 DEF ControlsType
<1>5. \A n \in 1 .. Len(list) + 1 : n \in 1 .. Len(list) \/ n = Len(list) + 1
  BY <1>4
<1>6. Len(list) + 1 \in DOMAIN Append(list, control)
  BY <1>4
<1>8. \A n \in DOMAIN Append(list, control) :
        Append(list, control)[n] = control \/ \E k \in DOMAIN list : Append(list, control)[n] = list[k]
  <2> TAKE n \in DOMAIN Append(list, control)
  <2>1. n \in 1 .. Len(list) \/ n = Len(list) + 1
    BY <1>4
  <2>2. n \in 1 .. Len(list) => n \in DOMAIN list
    BY <1>1
  <2> QED
    BY <1>4, <2>1, <2>2
<1>7. Request(Append(list, control))
  <2> SUFFICES ASSUME NEW n \in DOMAIN Append(list, control), Append(list, control)[n].type = "vlv"
               PROVE  Append(list, control)[n].at \in Nat \ {0}
    BY <1>4 DEF Request
  <2>1. n \in 1 .. Len(list) \/ n = Len(list) + 1
    BY <1>4
  <2>2. CASE n \in 1 .. Len(list)
    <3>1. n \in DOMAIN list /\ Append(list, control)[n] = list[n]
      BY <1>1, <1>4, <2>2
    <3> QED
      BY <3>1, <1>1
  <2> QED
    BY <1>4, <2>1, <2>2
<1> HIDE DEF new
<1> QED
  BY <1>3, <1>4, <1>6, <1>7, <1>8 DEF new, list

\* set_server(): one control of its type, and all those of the other types.
LEMMA SetServerFacts ==
  ASSUME NEW c \in ControlsType, Request(c.server), NEW control \in Control,
         control.type = "vlv" => control.at \in Nat \ {0}
  PROVE  LET new == SetServer(c, control)
         IN /\ new \in ControlsType /\ Request(new.server) /\ new.response = c.response
            /\ \E n \in DOMAIN new.server : new.server[n] = control
            /\ \A n \in DOMAIN new.server : new.server[n].type = control.type => new.server[n] = control
            /\ \A k \in DOMAIN c.server : c.server[k].type # control.type =>
                 \E n \in DOMAIN new.server : new.server[n] = c.server[k]
            /\ \A n \in DOMAIN new.server : \/ new.server[n] = control
                                            \/ \E k \in DOMAIN c.server : new.server[n] = c.server[k]
<1> DEFINE list == c.server
           ns == {n \in DOMAIN list : list[n].type # control.type}
           kept == Picked(list, ns)
           new == SetServer(c, control)
<1>1. list \in Seq(Control) /\ \A n \in DOMAIN list : list[n].type = "vlv" => list[n].at \in Nat \ {0}
  BY DEF Request
<1>2. new = [c EXCEPT !.server = Append(kept, control)]
  BY DEF SetServer
<1>3. ns \in SUBSET DOMAIN list /\ \A k \in ns : list[k].type # control.type
  OBVIOUS
<1>4. \A k \in DOMAIN list : list[k].type # control.type => k \in ns
  OBVIOUS
<1> HIDE DEF list, ns
<1>5. /\ kept \in Seq(Control) /\ Cardinality(ns) \in Nat
      /\ Len(kept) = Cardinality(ns)
      /\ \A n \in 1 .. Cardinality(ns) : \E k \in ns : kept[n] = list[k]
      /\ \A k \in ns : \E n \in 1 .. Cardinality(ns) : kept[n] = list[k]
  BY <1>1, <1>3, PickedFacts
<1> HIDE DEF kept
<1>6. /\ Append(kept, control) \in Seq(Control) /\ Len(kept) \in Nat
      /\ Len(Append(kept, control)) = Len(kept) + 1
      /\ \A n \in 1 .. Len(kept) : Append(kept, control)[n] = kept[n]
      /\ Append(kept, control)[Len(kept) + 1] = control
  BY <1>5, AppendProperties
<1>7. new \in ControlsType /\ new.response = c.response /\ new.server = Append(kept, control)
  BY <1>2, <1>6 DEF ControlsType
<1> DEFINE all == Append(kept, control)
<1>8. DOMAIN all = 1 .. Len(kept) + 1 /\ Len(kept) + 1 \in DOMAIN all
  BY <1>6
<1>9. \A n \in DOMAIN all : (\E k \in ns : all[n] = list[k]) \/ all[n] = control
  <2> TAKE n \in DOMAIN all
  <2>1. n \in 1 .. Len(kept) \/ n = Len(kept) + 1
    BY <1>6, <1>8
  <2> QED
    BY <2>1, <1>5, <1>6
<1>10. \A k \in ns : \E n \in DOMAIN all : all[n] = list[k]
  <2> TAKE k \in ns
  <2>1. PICK n \in 1 .. Len(kept) : kept[n] = list[k]
    BY <1>5
  <2>2. n \in DOMAIN all
    BY <1>6, <1>8
  <2> QED
    BY <1>6, <2>1, <2>2
<1>11. \E n \in DOMAIN all : all[n] = control
  BY <1>6, <1>8
<1> HIDE DEF all
<1>12. \A n \in DOMAIN all : all[n].type = control.type => all[n] = control
  BY <1>3, <1>9
<1>13. all \in Seq(Control) /\ \A n \in DOMAIN all : all[n].type = "vlv" => all[n].at \in Nat \ {0}
  BY <1>1, <1>3, <1>6, <1>9 DEF all
<1>14. Request(all)
  BY <1>13 DEF Request
<1>15. new.server = all
  BY <1>7 DEF all
<1>16. \A n \in DOMAIN all : all[n] = control \/ \E k \in DOMAIN list : all[n] = list[k]
  BY <1>3, <1>9
<1> HIDE DEF new
<1> QED
  BY <1>4, <1>7, <1>10, <1>11, <1>12, <1>14, <1>15, <1>16 DEF new, list

\* The controls that requests are made of.
LEMMA ControlTypes ==
  /\ \A cookie \in Place : Paged(cookie) \in Control /\ Paged(cookie).type = "paged"
                           /\ Paged(cookie).at = cookie
  /\ Sorting \in Control /\ Sorting.type = "sss"
  /\ \A offset \in Nat, context \in Seq(Entries) \cup {None} :
       LET control == VirtualListView(offset, context)
       IN control \in Control /\ control.type = "vlv" /\ control.at = offset /\ control.context = context
BY DEF Paged, Sorting, VirtualListView, Control, Place

\* The controls of the first request.
LEMMA PreparedFacts ==
  ASSUME NEW c \in ControlsType, Request(c.server), NEW op, NEW sorted \in BOOLEAN
  PROVE  LET new == Prepared(op, c, sorted)
         IN /\ new \in ControlsType /\ Request(new.server) /\ new.response = c.response
            /\ op = "get" /\ ~sorted => new = c
            /\ op = "paged" => \E n \in DOMAIN new.server : new.server[n].type = "paged"
            /\ op = "paginated" =>
                 /\ \E n \in DOMAIN new.server : new.server[n].type = "vlv"
                 /\ \A n \in DOMAIN new.server : new.server[n].type = "vlv" =>
                      new.server[n].at = 1 /\ new.server[n].context = None
<1> DEFINE appended == IF op = "paged" THEN AppendServer(c, Paged(None)) ELSE c
           ordered == IF sorted \/ op = "paginated" THEN SetServer(appended, Sorting) ELSE appended
           new == IF op = "paginated" THEN SetServer(ordered, VirtualListView(1, None)) ELSE ordered
<1>1. Prepared(op, c, sorted) = new
  BY DEF Prepared
<1>2. /\ Paged(None) \in Control /\ Paged(None).type = "paged"
      /\ Sorting \in Control /\ Sorting.type = "sss"
      /\ VirtualListView(1, None) \in Control /\ VirtualListView(1, None).type = "vlv"
      /\ VirtualListView(1, None).at = 1 /\ VirtualListView(1, None).context = None
  BY DEF Paged, Sorting, VirtualListView, Control, Place
<1>3. /\ appended \in ControlsType /\ Request(appended.server) /\ appended.response = c.response
      /\ op = "paged" => \E n \in DOMAIN appended.server : appended.server[n].type = "paged"
      /\ op # "paged" => appended = c
  <2>1. CASE op = "paged"
    BY <1>2, <2>1, AppendServerFacts
  <2> QED
    BY <2>1
<1> HIDE DEF appended
<1>4. /\ ordered \in ControlsType /\ Request(ordered.server) /\ ordered.response = c.response
      /\ op = "paged" => \E n \in DOMAIN ordered.server : ordered.server[n].type = "paged"
      /\ op = "get" /\ ~sorted => ordered = c
  <2>1. CASE sorted \/ op = "paginated"
    <3>1. LET o == SetServer(appended, Sorting)
          IN /\ o \in ControlsType /\ Request(o.server) /\ o.response = appended.response
             /\ \A k \in DOMAIN appended.server : appended.server[k].type # Sorting.type =>
                  \E n \in DOMAIN o.server : o.server[n] = appended.server[k]
      BY <1>2, <1>3, SetServerFacts
    <3> QED
      BY <1>2, <1>3, <2>1, <3>1
  <2>2. CASE ~(sorted \/ op = "paginated")
    BY <1>3, <2>2
  <2> QED
    BY <2>1, <2>2
<1> HIDE DEF ordered
<1>5. CASE op = "paginated"
  <2> DEFINE control == VirtualListView(1, None)
  <2>1. /\ control \in Control /\ control.type = "vlv" /\ control.at = 1 /\ control.context = None
        /\ control.at \in Nat \ {0}
    BY <1>2
  <2> HIDE DEF control
  <2>2. LET o == SetServer(ordered, control)
        IN /\ o \in ControlsType /\ Request(o.server) /\ o.response = ordered.response
           /\ \E n \in DOMAIN o.server : o.server[n] = control
           /\ \A n \in DOMAIN o.server : o.server[n].type = control.type => o.server[n] = control
    BY <1>4, <2>1, SetServerFacts
  <2>3. new = SetServer(ordered, control)
    BY <1>5 DEF control
  <2> QED
    BY <1>1, <1>4, <1>5, <2>1, <2>2, <2>3
<1>6. CASE op # "paginated"
  BY <1>1, <1>4, <1>6
<1> QED
  BY <1>5, <1>6

-----------------------------------------------------------------------------
(***************************************************************************)
(* Steps that begin, ask or find: what they do to the frame and its        *)
(* controls, and that the types stay.                                      *)
(***************************************************************************)
\* Frames that differ in fields that no invariant is about.
Alike(x, y) ==
  /\ y.op = x.op /\ y.ref = x.ref /\ y.unique = x.unique /\ y.phase = x.phase /\ y.tries = x.tries
  /\ y.msgs = x.msgs /\ y.page = x.page /\ y.entry = x.entry /\ y.left = x.left
  /\ y.out = x.out /\ y.seen = x.seen

\* The calls of the program.
Call(f, op, ref, sorted, unique) ==
  \/ f = 1 /\ op \in {"search", "iter", "paged", "paginated"} /\ ref \in {0, 1}
  \/ f = 2 /\ op = "get" /\ ref \in {0, 2} /\ ~sorted /\ ~unique /\ frames[1].phase = "yield"

Given(ref) == IF ref = 0 THEN controls[0] ELSE NoControls

BeginEffect(f, op, ref, sorted, unique) ==
  /\ LET new == frames'[f]
     IN /\ new.op = op /\ new.ref = ref /\ new.unique = unique /\ new.phase = "ask"
        /\ new.out = <<>> /\ new.msgs = <<>> /\ new.left = <<>> /\ new.page = 1 /\ new.entry = 0
  /\ \A g \in 1 .. 2 : g # f => Alike(frames[g], frames'[g])
  /\ controls'[ref] = Prepared(op, Given(ref), sorted)
  /\ \A c \in 0 .. 2 : c # ref => controls'[c] = controls[c]

\* The frame of no call.
LEMMA NoFrameFacts == NoFrame \in Frame
<1>1. /\ <<>> \in Seq(Reply) /\ <<>> \in Seq(Entries) /\ <<>> \in Seq(Out)
      /\ 0 \in 0 .. Attempts /\ "ok" \in Results /\ {} \in SUBSET Entries /\ None \in Place
  BY ConstantsAssumption DEF Results, Place
<1> QED
  BY <1>1 DEF NoFrame, Frame

\* The controls that a call is given.
LEMMA GivenFacts ==
  ASSUME TypeInv, NEW ref \in 0 .. 2
  PROVE  Given(ref) \in ControlsType /\ Request(Given(ref).server)
<1>1. NoControls \in ControlsType
  BY DEF NoControls, NoResponse, ControlsType, ResponseType, Place
<1>2. Request(NoControls.server)
  BY DEF NoControls, Request
<1> QED
  BY <1>1, <1>2 DEF Given, TypeInv, ControlsOK

\* The frames when a call begins.
LEMMA BeginFrames ==
  ASSUME TypeInv, NEW f \in 1 .. 2, NEW op, NEW ref, NEW sorted \in BOOLEAN, NEW unique \in BOOLEAN,
         Call(f, op, ref, sorted, unique), Begin(f, op, ref, sorted, unique)
  PROVE  /\ FramesOK' /\ frames'[f].seen = dir
         /\ LET new == frames'[f]
            IN /\ new.op = op /\ new.ref = ref /\ new.unique = unique /\ new.phase = "ask"
               /\ new.out = <<>> /\ new.msgs = <<>> /\ new.left = <<>> /\ new.page = 1 /\ new.entry = 0
         /\ \A g \in 1 .. 2 : g # f => Alike(frames[g], frames'[g])
<1> DEFINE fresh == Given(ref).server = <<>>
           frame == [NoFrame EXCEPT !.op = op, !.ref = ref, !.unique = unique, !.seen = dir,
                                    !.stayed = dir, !.fresh = fresh]
           asking == Asking(frame)
           meddles(g) == Meddling(f, ref, Given(ref), frames[g])
           other(g) == [frames[g] EXCEPT !.meddled = @ \cup meddles(g)]
<1>1. op \in {"search", "iter", "paged", "paginated", "get"} /\ ref \in 0 .. 2
  BY DEF Call
<1>2. /\ frames \in [1 .. 2 -> Frame] /\ dir \in SUBSET Entries
      /\ \A g \in 1 .. 2 : FrameOK(frames[g]) /\ frames[g] \in Frame
  BY DEF TypeInv, FramesOK, ServerOK
<1>3. NoFrame \in Frame /\ Attempts \in 0 .. Attempts /\ Attempts > 0 /\ fresh \in BOOLEAN
  BY NoFrameFacts, ConstantsAssumption
<1>4. asking = [frame EXCEPT !.phase = "ask", !.tries = Attempts]
  BY DEF Asking
<1>5. frames' = [g \in 1 .. 2 |-> IF g = f THEN asking ELSE other(g)]
  BY <1>2 DEF Begin, Given
<1>3a. \A g \in 1 .. 2 : meddles(g) \subseteq {"controls", "server"}
  BY DEF Meddling
<1> HIDE DEF fresh, meddles
<1>6. frame \in Frame
  BY <1>1, <1>2, <1>3, ZenonT(30) DEF Frame
<1>7. /\ frame.out = <<>> /\ frame.msgs = <<>> /\ frame.left = <<>> /\ frame.page = 1 /\ frame.entry = 0
      /\ frame.op = op /\ frame.ref = ref /\ frame.unique = unique /\ frame.seen = dir
  BY <1>1, <1>3 DEF NoFrame
<1> HIDE DEF frame
<1>8. /\ asking \in Frame /\ asking.phase = "ask" /\ asking.tries > 0
      /\ asking.out = <<>> /\ asking.msgs = <<>> /\ asking.left = <<>>
      /\ asking.page = 1 /\ asking.entry = 0 /\ asking.op = op /\ asking.ref = ref
      /\ asking.unique = unique /\ asking.seen = dir
  <2>1. asking \in Frame
    <3> DEFINE new == [frame EXCEPT !.phase = "ask", !.tries = Attempts]
    <3>1. new \in Frame
      BY <1>3, <1>6, ZenonT(30) DEF Frame
    <3> QED
      BY <1>4, <3>1
  <2>2. /\ asking.phase = "ask" /\ asking.tries = Attempts /\ asking.out = frame.out
        /\ asking.msgs = frame.msgs /\ asking.left = frame.left /\ asking.page = frame.page
        /\ asking.entry = frame.entry /\ asking.op = frame.op /\ asking.ref = frame.ref
        /\ asking.unique = frame.unique /\ asking.seen = frame.seen
    BY <1>4, <1>6 DEF Frame
  <2> HIDE DEF asking
  <2> QED
    BY <2>1, <2>2, <1>3, <1>7
<1> HIDE DEF asking
<1>9. FrameOK(asking)
  BY <1>8 DEF FrameOK, Singles
<1>10. \A g \in 1 .. 2 : other(g) \in Frame /\ Alike(frames[g], other(g))
  <2> TAKE g \in 1 .. 2
  <2> DEFINE meddled == frames[g].meddled \cup meddles(g)
             new == [frames[g] EXCEPT !.meddled = meddled]
  <2>1. meddled \in SUBSET {"controls", "server"} /\ other(g) = new
    BY <1>2, <1>3a DEF Frame
  <2> HIDE DEF meddled
  <2>2. frames[g] \in Frame
    BY <1>2
  <2>3. new \in Frame
    BY <2>1, <2>2, ZenonT(30) DEF Frame
  <2>4. Alike(frames[g], new)
    BY <2>2 DEF Frame, Alike
  <2> QED
    BY <2>1, <2>3, <2>4
<1> HIDE DEF other
<1>11. \A g \in 1 .. 2 : FrameOK(other(g))
  BY <1>2, <1>10 DEF FrameOK, Alike
<1>12. frames' \in [1 .. 2 -> Frame] /\ frames'[f] = asking /\ \A g \in 1 .. 2 : g # f => frames'[g] = other(g)
  BY <1>5, <1>8, <1>10
<1>13. FramesOK'
  BY <1>9, <1>11, <1>12 DEF FramesOK
<1> QED
  BY <1>8, <1>10, <1>12, <1>13

\* A call that begins keeps the types, and has its effect.
LEMMA BeginType ==
  ASSUME TypeInv, NEW f \in 1 .. 2, NEW op, NEW ref, NEW sorted \in BOOLEAN, NEW unique \in BOOLEAN,
         Call(f, op, ref, sorted, unique), Begin(f, op, ref, sorted, unique)
  PROVE  TypeInv' /\ BeginEffect(f, op, ref, sorted, unique)
<1> DEFINE made == Prepared(op, Given(ref), sorted)
<1>1. ref \in 0 .. 2 /\ (f = 1 \/ f = 2)
  BY DEF Call
<1>2. /\ FramesOK' /\ frames'[f].seen = dir
      /\ LET new == frames'[f]
         IN /\ new.op = op /\ new.ref = ref /\ new.unique = unique /\ new.phase = "ask"
            /\ new.out = <<>> /\ new.msgs = <<>> /\ new.left = <<>> /\ new.page = 1 /\ new.entry = 0
      /\ \A g \in 1 .. 2 : g # f => Alike(frames[g], frames'[g])
  BY BeginFrames
<1>3. Given(ref) \in ControlsType /\ Request(Given(ref).server)
  BY <1>1, GivenFacts
<1>4. /\ made \in ControlsType /\ Request(made.server)
      /\ op = "get" /\ ~sorted => made = Given(ref)
      /\ op = "paged" => \E n \in DOMAIN made.server : made.server[n].type = "paged"
      /\ op = "paginated" => \E n \in DOMAIN made.server : made.server[n].type = "vlv"
  BY <1>3, PreparedFacts
<1>5. controls' = [controls EXCEPT ![ref] = made]
  BY DEF Begin, Given
<1>6. controls \in [0 .. 2 -> ControlsType] /\ \A c \in 0 .. 2 : Request(controls[c].server)
  BY DEF TypeInv, ControlsOK
<1> HIDE DEF made
<1>7. /\ controls' \in [0 .. 2 -> ControlsType] /\ controls'[ref] = made
      /\ \A c \in 0 .. 2 : c # ref => controls'[c] = controls[c]
  BY <1>1, <1>4, <1>5, <1>6
<1>8. ControlsOK'
  BY <1>4, <1>6, <1>7 DEF ControlsOK
<1>9. BeginEffect(f, op, ref, sorted, unique)
  BY <1>2, <1>7 DEF BeginEffect, made
<1>10. /\ UNCHANGED <<dir, after, view, link, others>> /\ Free(f)
       /\ searches < MaxSearches /\ searches' = searches + 1
  BY DEF Begin, server
<1>11. (ServerOK)' /\ (link \in {"up", "lost", "gone"})'
       /\ (searches \in 0 .. MaxSearches /\ others \in 0 .. MaxOthers)'
  BY <1>10, ConstantsAssumption DEF TypeInv, ServerOK
<1>12. Roles'
  <2>1. CASE f = 1
    <3>1. Alike(frames[2], frames'[2]) /\ frames'[1].op = op /\ frames'[1].ref = ref
      BY <1>2, <2>1
    <3>2. op # "get" /\ ref \in {0, 1}
      BY <2>1 DEF Call
    <3>3. ~Working(2)
      BY <1>10, <2>1 DEF Free, TypeInv, Roles
    <3> QED
      BY <3>1, <3>2, <3>3 DEF TypeInv, Roles, Working, Alike
  <2>2. CASE f = 2
    <3>1. frames'[2].op = "get" /\ frames'[2].ref \in {0, 2} /\ frames'[2].phase = "ask"
          /\ frames[1].phase = "yield"
      BY <1>2, <2>2 DEF Call
    <3> QED
      BY <1>2, <2>2, <3>1 DEF TypeInv, Roles, Working, Alike
  <2> QED
    BY <1>1, <2>1, <2>2
<1>13. (Controlled(frames[1], controls[frames[1].ref].server))'
  <2>1. CASE f = 1
    BY <1>2, <1>4, <1>7, <2>1 DEF Controlled
  <2>2. CASE f = 2
    <3>1. op = "get" /\ ~sorted /\ ref \in {0, 2} /\ frames[1].ref \in {0, 1}
      BY <2>2 DEF Call, TypeInv, Roles
    <3>2. controls'[frames[1].ref] = controls[frames[1].ref]
      BY <1>4, <1>7, <3>1 DEF Given
    <3>3. Alike(frames[1], frames'[1])
      BY <1>2, <2>2
    <3> QED
      BY <3>2, <3>3 DEF TypeInv, Controlled, Alike, Open
  <2> QED
    BY <1>1, <2>1, <2>2
<1>14. \A g \in 1 .. 2 : Open(frames'[g]) => dir' \subseteq frames'[g].seen
  BY <1>1, <1>2, <1>10 DEF TypeInv, Alike, Open
<1> QED
  BY <1>2, <1>8, <1>9, <1>11, <1>12, <1>13, <1>14 DEF TypeInv

\* The one message with the whole answer.
LEMMA WholeFacts ==
  ASSUME NEW a \in AnswerType
  PROVE  /\ Whole(a) \in Seq(Reply) /\ DOMAIN Whole(a) = {1}
         /\ Whole(a)[1].found = a.found /\ Whole(a)[1].resp = a.resp /\ Whole(a)[1].err = a.err
<1> DEFINE m == [found |-> a.found, resp |-> a.resp, err |-> a.err, final |-> TRUE]
<1>1. m \in Reply /\ Whole(a) = <<m>>
  BY DEF AnswerType, Reply, Whole, Response
<1> HIDE DEF m
<1>2. <<m>> \in Seq(Reply) /\ DOMAIN <<m>> = {1} /\ <<m>>[1] = m
  BY <1>1
<1>3. m.found = a.found /\ m.resp = a.resp /\ m.err = a.err
  BY DEF m
<1> QED
  BY <1>1, <1>2, <1>3

\* One message for each entry, and the last one.
LEMMA MessagesFacts ==
  ASSUME NEW a \in AnswerType
  PROVE  /\ Messages(a) \in Seq(Reply) /\ Len(Messages(a)) = Len(a.found) + 1 /\ Len(a.found) \in Nat
         /\ \A n \in 1 .. Len(a.found) :
              Messages(a)[n] = [found |-> <<a.found[n]>>, resp |-> NoResponse, err |-> "ok", final |-> FALSE]
         /\ Messages(a)[Len(a.found) + 1] =
              [found |-> <<>>, resp |-> a.resp, err |-> a.err, final |-> TRUE]
<1> DEFINE k == Len(a.found)
           each(n) == [found |-> <<a.found[n]>>, resp |-> NoResponse, err |-> "ok", final |-> FALSE]
           entries == [n \in 1 .. k |-> each(n)]
           last == [found |-> <<>>, resp |-> a.resp, err |-> a.err, final |-> TRUE]
<1>1. a.found \in Seq(Entries) /\ k \in Nat /\ \A n \in 1 .. k : a.found[n] \in Entries
  BY DEF AnswerType
<1>2. NoResponse \in ResponseType
  BY DEF NoResponse, ResponseType, Place
<1>3. \A n \in 1 .. k : each(n) \in Reply
  <2> TAKE n \in 1 .. k
  <2>1. <<a.found[n]>> \in Seq(Entries)
    BY <1>1
  <2> QED
    BY <1>2, <2>1 DEF Reply
<1>4. last \in Reply
  <2>1. <<>> \in Seq(Entries) /\ a.resp \in ResponseType /\ a.err \in Refused \cup {"ok"}
    BY DEF AnswerType
  <2> QED
    BY <2>1 DEF Reply
<1>5. Messages(a) = entries \o <<last>>
  BY DEF Messages, Response
<1> HIDE DEF k, each, last
<1>6. entries \in Seq(Reply) /\ Len(entries) = k
  <2>1. entries \in [1 .. k -> Reply]
    BY <1>3
  <2> QED
    BY <1>1, <2>1, SeqDef
<1>7. <<last>> \in Seq(Reply) /\ Len(<<last>>) = 1 /\ <<last>>[1] = last
  BY <1>4
<1>8. /\ entries \o <<last>> \in Seq(Reply) /\ Len(entries \o <<last>>) = k + 1
      /\ \A i \in 1 .. k + 1 :
           (entries \o <<last>>)[i] = IF i <= k THEN entries[i] ELSE <<last>>[i - k]
  <2> DEFINE tail == <<last>>
  <2>1. tail \in Seq(Reply) /\ Len(tail) = 1
    BY <1>7
  <2> HIDE DEF entries, tail
  <2>2. /\ entries \o tail \in Seq(Reply) /\ Len(entries \o tail) = Len(entries) + Len(tail)
        /\ \A i \in 1 .. Len(entries) + Len(tail) :
             (entries \o tail)[i] = IF i <= Len(entries) THEN entries[i] ELSE tail[i - Len(entries)]
    BY <1>6, <2>1, ConcatProperties
  <2> QED
    BY <1>6, <2>1, <2>2 DEF tail
<1>9. \A n \in 1 .. k : Messages(a)[n] = each(n)
  BY <1>1, <1>5, <1>8
<1>10. Messages(a)[k + 1] = last
  <2>1. k + 1 \in 1 .. k + 1 /\ ~(k + 1 <= k) /\ (k + 1) - k = 1
    BY <1>1
  <2> QED
    BY <1>5, <1>7, <1>8, <2>1
<1> QED
  BY <1>1, <1>5, <1>8, <1>9, <1>10 DEF k, each, last

\* The responses of an operation that is iterated have one entry each, but the last.
LEMMA MessagesSingle ==
  ASSUME NEW a \in AnswerType
  PROVE  Singles(Messages(a))
<1> DEFINE k == Len(a.found)
           msgs == Messages(a)
           each(n) == [found |-> <<a.found[n]>>, resp |-> NoResponse, err |-> "ok", final |-> FALSE]
           last == [found |-> <<>>, resp |-> a.resp, err |-> a.err, final |-> TRUE]
<1>1. /\ msgs \in Seq(Reply) /\ Len(msgs) = k + 1 /\ k \in Nat
      /\ \A n \in 1 .. k : msgs[n] = each(n)
      /\ msgs[k + 1] = last
  BY MessagesFacts
<1>2. \A n \in 1 .. k : ~each(n).final /\ Len(each(n).found) = 1
  OBVIOUS
<1>3. last.final /\ last.found = <<>>
  OBVIOUS
<1> HIDE DEF msgs, each, last
<1>4. \A n \in DOMAIN msgs : n \in 1 .. k \/ n = Len(msgs)
  BY <1>1
<1> QED
  BY <1>1, <1>2, <1>3, <1>4 DEF Singles, msgs

\* The base of the request: get() reads the first entry.
Base(f) == IF f = 2 THEN 1 ELSE None

\* The frame waits for what the answer gave.
AskEffect(f, a) ==
  /\ a \in Answers(controls[frames[f].ref].server, Base(f))
  /\ LET old == frames[f]
         new == frames'[f]
     IN /\ old.phase = "ask" /\ new.phase = "poll" /\ old.left = <<>> /\ new.left = <<>>
        /\ new.op = old.op /\ new.ref = old.ref /\ new.unique = old.unique /\ new.out = old.out
        /\ new.seen = old.seen /\ new.page = old.page /\ new.entry = old.entry
        /\ new.msgs = IF old.op \in Iterates THEN Messages(a) ELSE Whole(a)
  /\ \A g \in 1 .. 2 : g # f => frames'[g] = frames[g]
  /\ after' = a.after /\ view' = a.view
  /\ UNCHANGED <<controls, dir>>

\* A request that is answered keeps the types, and has its effect.
LEMMA AskType ==
  ASSUME TypeInv, NEW f \in 1 .. 2, Ask(f)
  PROVE  TypeInv' /\ \E a : AskEffect(f, a)
<1> DEFINE old == frames[f]
           list == controls[old.ref].server
<1>1. /\ frames \in [1 .. 2 -> Frame] /\ old \in Frame /\ FrameOK(old) /\ old.phase = "ask"
      /\ \A g \in 1 .. 2 : FrameOK(frames[g])
  BY DEF TypeInv, FramesOK, Ask, Awake
<1>2. PICK a \in Answers(list, Base(f)) :
        /\ Changes(f, [Polling(old) EXCEPT
                         !.msgs = IF old.op \in Iterates THEN Messages(a) ELSE Whole(a),
                         !.hollow = @ \/ (old.op = "paginated" /\ a.found = <<>>)])
        /\ after' = a.after /\ view' = a.view
  BY DEF Ask, Base
<1>3. UNCHANGED <<dir, link, controls, searches, others>>
  BY DEF Ask
<1>4. ServerOK /\ Request(list) /\ old.ref \in 0 .. 2
  BY <1>1 DEF TypeInv, ControlsOK, Frame
<1>5. /\ Ordered(a)
      /\ \A k \in DOMAIN list : list[k].type = "vlv" => InWindow(a, list[k])
  BY <1>2, <1>4, AnswerFacts
<1>6. a \in AnswerType
  BY <1>5 DEF Ordered
<1> DEFINE msgs == IF old.op \in Iterates THEN Messages(a) ELSE Whole(a)
           hollow == Polling(old).hollow \/ (old.op = "paginated" /\ a.found = <<>>)
           new == [Polling(old) EXCEPT !.msgs = msgs, !.hollow = hollow]
<1>7. msgs \in Seq(Reply) /\ hollow \in BOOLEAN
  BY <1>6, WholeFacts, MessagesFacts
<1>8. frames' = [frames EXCEPT ![f] = new]
  BY <1>2 DEF Changes
<1>9. old.op \in Iterates => Singles(msgs)
  BY <1>6, MessagesSingle
<1>10. old.op = "paginated" => \A m \in DOMAIN msgs : msgs[m].err = "ok" => msgs[m].resp.vlv # None
  <2> SUFFICES ASSUME old.op = "paginated", NEW m \in DOMAIN msgs, msgs[m].err = "ok"
               PROVE  msgs[m].resp.vlv # None
    OBVIOUS
  <2>1. msgs = Whole(a)
    BY DEF Iterates
  <2>2. m = 1 /\ msgs[1].resp = a.resp /\ msgs[1].err = a.err
    BY <1>6, <2>1, WholeFacts
  <2>3. f = 1
    BY DEF TypeInv, Roles
  <2>4. PICK k \in DOMAIN list : list[k].type = "vlv"
    BY <1>1, <2>3 DEF TypeInv, Controlled, Open
  <2> QED
    BY <1>5, <2>2, <2>4 DEF InWindow
<1> HIDE DEF msgs, hollow
<1>11. /\ new \in Frame /\ new.msgs = msgs
       /\ new.phase = "poll" /\ new.tries > 0 /\ new.op = old.op /\ new.ref = old.ref
       /\ new.unique = old.unique /\ new.out = old.out /\ new.seen = old.seen /\ new.page = old.page
       /\ new.entry = old.entry /\ new.left = old.left
  <2> DEFINE polling == Polling(old)
  <2>1. /\ polling \in Frame /\ polling.phase = "poll" /\ polling.tries > 0
        /\ polling.op = old.op /\ polling.ref = old.ref /\ polling.unique = old.unique
        /\ polling.out = old.out /\ polling.seen = old.seen /\ polling.page = old.page
        /\ polling.entry = old.entry /\ polling.left = old.left
    BY <1>1, PollingFacts
  <2> HIDE DEF polling
  <2>2. new = [polling EXCEPT !.msgs = msgs, !.hollow = hollow]
    BY DEF polling
  <2>3. new \in Frame
    <3> DEFINE first == [polling EXCEPT !.msgs = msgs]
    <3>1. first \in Frame
      BY <1>7, <2>1 DEF Frame
    <3>2. new = [first EXCEPT !.hollow = hollow]
      BY <2>1, <2>2 DEF Frame
    <3> HIDE DEF first, new
    <3> QED
      BY <1>7, <3>1, <3>2 DEF Frame
  <2>4. /\ new.msgs = msgs /\ new.phase = polling.phase /\ new.tries = polling.tries
        /\ new.op = polling.op /\ new.ref = polling.ref /\ new.unique = polling.unique
        /\ new.out = polling.out /\ new.seen = polling.seen /\ new.page = polling.page
        /\ new.entry = polling.entry /\ new.left = polling.left
    BY <2>1, <2>2 DEF Frame
  <2> HIDE DEF new
  <2> QED
    BY <2>1, <2>3, <2>4
<1> HIDE DEF new
<1>12. old.left = <<>>
  BY <1>1 DEF FrameOK
<1>13. FrameOK(new)
  BY <1>9, <1>10, <1>11, <1>12 DEF FrameOK
<1>14. frames' \in [1 .. 2 -> Frame] /\ frames'[f] = new /\ \A g \in 1 .. 2 : g # f => frames'[g] = frames[g]
  BY <1>1, <1>8, <1>11
<1>15. AskEffect(f, a)
  BY <1>1, <1>2, <1>3, <1>11, <1>12, <1>14 DEF AskEffect, msgs
<1>16. FramesOK'
  BY <1>1, <1>13, <1>14 DEF FramesOK
<1>17. ServerOK'
  BY <1>2, <1>3, <1>4, <1>5, <1>6 DEF ServerOK, Ordered, AnswerType
<1>18. Roles'
  <2>1. f = 1 => ~Working(2)
    BY <1>1, OneWorks DEF Working
  <2>2. f = 2 => frames[1].phase = "yield"
    BY <1>1 DEF TypeInv, Roles, Working
  <2> QED
    BY <1>11, <1>14, <2>1, <2>2 DEF TypeInv, Roles, Working
<1>19. ControlsOK' /\ (link \in {"up", "lost", "gone"})'
       /\ (searches \in 0 .. MaxSearches /\ others \in 0 .. MaxOthers)'
  BY <1>3 DEF TypeInv, ControlsOK
<1>20. (Controlled(frames[1], controls[frames[1].ref].server))'
  <2>1. /\ frames'[1].op = frames[1].op /\ frames'[1].ref = frames[1].ref
        /\ Open(frames'[1]) => Open(frames[1])
    BY <1>1, <1>11, <1>14 DEF Open
  <2>2. Controlled(frames[1], controls[frames[1].ref].server)
    BY DEF TypeInv
  <2> QED
    BY <1>3, <2>1, <2>2 DEF Controlled
<1>21. \A g \in 1 .. 2 : Open(frames'[g]) => dir' \subseteq frames'[g].seen
  BY <1>1, <1>3, <1>11, <1>14 DEF TypeInv, Open
<1> QED
  BY <1>15, <1>16, <1>17, <1>18, <1>19, <1>20, <1>21 DEF TypeInv

\* A frame changes and the rest of the connection does not.
LEMMA ChangeType ==
  ASSUME TypeInv, NEW f \in 1 .. 2, NEW new, FrameOK(new), Changes(f, new), Open(frames[f]),
         new.op = frames[f].op, new.ref = frames[f].ref, new.seen = frames[f].seen,
         UNCHANGED <<dir, after, view, link, searches, others>>, ControlsOK',
         f = 1 /\ Working(2) => new.phase = "yield",
         f = 2 => new.phase = "done",
         f = 1 => Controlled(new, controls'[new.ref].server),
         f = 2 => controls'[frames[1].ref].server = controls[frames[1].ref].server
  PROVE  TypeInv' /\ frames'[f] = new /\ \A g \in 1 .. 2 : g # f => frames'[g] = frames[g]
<1>1. frames \in [1 .. 2 -> Frame] /\ new \in Frame /\ \A g \in 1 .. 2 : FrameOK(frames[g])
  BY DEF TypeInv, FramesOK, FrameOK
<1>2. frames' \in [1 .. 2 -> Frame] /\ frames'[f] = new /\ \A g \in 1 .. 2 : g # f => frames'[g] = frames[g]
  BY <1>1 DEF Changes
<1>3. FramesOK'
  BY <1>1, <1>2 DEF FramesOK
<1>4. Roles'
  BY <1>2 DEF TypeInv, Roles, Working
<1>5. ServerOK' /\ (link \in {"up", "lost", "gone"})'
      /\ (searches \in 0 .. MaxSearches /\ others \in 0 .. MaxOthers)'
  BY DEF TypeInv, ServerOK
<1>6. (Controlled(frames[1], controls[frames[1].ref].server))'
  <2>1. CASE f = 1
    BY <1>2, <2>1
  <2>2. CASE f = 2
    <3>1. frames'[1] = frames[1]
      BY <1>2, <2>2
    <3> QED
      BY <2>2, <3>1 DEF TypeInv, Controlled, Open
  <2> QED
    BY <2>1, <2>2
<1>7. \A g \in 1 .. 2 : Open(frames'[g]) => dir' \subseteq frames'[g].seen
  BY <1>2 DEF TypeInv
<1> QED
  BY <1>2, <1>3, <1>4, <1>5, <1>6, <1>7 DEF TypeInv

\* The results of a call that returns all at once.
Listed(found) ==
  [n \in DOMAIN found |-> [e |-> found[n], page |-> 1, entry |-> n, results |-> None, lastPage |-> None]]

ReturnsEffect(f) ==
  /\ frames[f].phase = "poll" /\ frames[f].op \in {"search", "get"} /\ frames[f].msgs # <<>>
  /\ Accepted(f) /\ Controlling(f, Received(f)) /\ dir' = dir
  /\ LET old == frames[f]
         new == frames'[f]
     IN /\ new.phase = "done" /\ new.msgs = <<>> /\ new.left = <<>> /\ new.op = old.op
        /\ new.ref = old.ref /\ new.unique = old.unique /\ new.seen = old.seen
        /\ new.out = Listed(Message(f).found)
  /\ \A g \in 1 .. 2 : g # f => frames'[g] = frames[g]

\* The results of a call are as many as the entries.
LEMMA ListedFacts ==
  ASSUME NEW found \in Seq(Entries)
  PROVE  /\ Listed(found) \in Seq(Out) /\ Len(Listed(found)) = Len(found)
         /\ DOMAIN Listed(found) = DOMAIN found
         /\ \A n \in DOMAIN found : Listed(found)[n].e = found[n]
<1> DEFINE one(n) == [e |-> found[n], page |-> 1, entry |-> n, results |-> None, lastPage |-> None]
           k == Len(found)
<1>1. k \in Nat /\ DOMAIN found = 1 .. k /\ \A n \in 1 .. k : found[n] \in Entries
  OBVIOUS
<1>2. \A n \in 1 .. k : one(n) \in Out /\ one(n).e = found[n]
  BY <1>1 DEF Out, Place
<1>3. Listed(found) = [n \in 1 .. k |-> one(n)]
  BY <1>1 DEF Listed
<1> HIDE DEF one, k
<1>4. Listed(found) \in [1 .. k -> Out]
  BY <1>2, <1>3
<1>5. Listed(found) \in Seq(Out) /\ Len(Listed(found)) = k
  BY <1>1, <1>4, SeqDef
<1> QED
  BY <1>1, <1>2, <1>3, <1>5 DEF k

\* A call that returns keeps the types, and has its effect.
LEMMA ReturnsType ==
  ASSUME TypeInv, NEW f \in 1 .. 2, Returns(f)
  PROVE  TypeInv' /\ ReturnsEffect(f)
<1> DEFINE old == frames[f]
           out == Listed(Message(f).found)
           listed == [old EXCEPT !.out = out]
           new == Finished(listed, "ok")
<1>1. /\ old.phase = "poll" /\ old.msgs # <<>> /\ old.op \in {"search", "get"}
      /\ Accepted(f) /\ Controlling(f, Received(f))
      /\ UNCHANGED <<dir, after, view, link, searches, others>>
  BY DEF Returns, Ready, Awake, server
<1>2. Changes(f, new)
  BY DEF Returns, Listed
<1>3. /\ Message(f) \in Reply /\ Message(f).found \in Seq(Entries)
      /\ Received(f).server = controls[old.ref].server /\ old.ref \in 0 .. 2
  BY <1>1, MessageFacts DEF Reply
<1>4. out \in Seq(Out)
  BY <1>3, ListedFacts
<1>5. /\ ControlsOK' /\ \A c \in 0 .. 2 : controls'[c].server = controls[c].server
  BY <1>1, ReceivedFacts
<1>6. old \in Frame /\ FrameOK(old)
  BY DEF TypeInv, FramesOK
<1> HIDE DEF out
<1>7. /\ listed \in Frame /\ listed.out = out /\ listed.op = old.op /\ listed.ref = old.ref
      /\ listed.unique = old.unique /\ listed.seen = old.seen
  BY <1>4, <1>6 DEF Frame
<1> HIDE DEF listed
<1>8. /\ FrameOK(new) /\ new.phase = "done" /\ new.msgs = <<>> /\ new.left = <<>>
      /\ new.out = out /\ new.op = old.op /\ new.ref = old.ref
      /\ new.unique = old.unique /\ new.seen = old.seen
  BY <1>7, FinishedFacts DEF Results
<1> HIDE DEF new
<1>9. f = 1 => ~Working(2)
  BY <1>1, OneWorks DEF Working
<1>10. Open(old)
  BY <1>1 DEF Open
<1>11. f = 1 => Controlled(new, controls'[new.ref].server)
  BY <1>8 DEF Controlled, Open
<1>12. f = 2 => controls'[frames[1].ref].server = controls[frames[1].ref].server
  BY <1>5 DEF TypeInv, Roles
<1>13. TypeInv' /\ frames'[f] = new /\ \A g \in 1 .. 2 : g # f => frames'[g] = frames[g]
  BY <1>1, <1>2, <1>5, <1>8, <1>9, <1>10, <1>11, <1>12, ChangeType
<1> QED
  BY <1>1, <1>8, <1>13 DEF ReturnsEffect, out

\* A result for the program.
YieldedOut(x, y, e) ==
  /\ y.out \in Seq(Out) /\ Len(y.out) = Len(x.out) + 1 /\ Len(x.out) \in Nat
  /\ \A n \in 1 .. Len(x.out) : y.out[n] = x.out[n]
  /\ y.out[Len(x.out) + 1].e = e

\* A frame that gives a result.
LEMMA YieldedFacts ==
  ASSUME NEW fr \in Frame, NEW e \in Entries
  PROVE  LET new == Yielded(fr, e)
         IN /\ new \in Frame /\ new.phase = "yield" /\ new.entry = fr.entry + 1
            /\ YieldedOut(fr, new, e)
            /\ new.op = fr.op /\ new.ref = fr.ref /\ new.unique = fr.unique /\ new.seen = fr.seen
            /\ new.page = fr.page /\ new.left = fr.left /\ new.msgs = fr.msgs
<1> DEFINE result == [e |-> e, page |-> fr.page, entry |-> fr.entry + 1,
                      results |-> fr.length, lastPage |-> fr.lastPage]
           new == Yielded(fr, e)
<1>1. result \in Out /\ result.e = e /\ fr.out \in Seq(Out) /\ fr.entry + 1 \in Nat
  BY DEF Frame, Out
<1>2. new = [fr EXCEPT !.phase = "yield", !.entry = fr.entry + 1, !.out = Append(fr.out, result)]
  BY DEF Yielded
<1> HIDE DEF result
<1>3. /\ Append(fr.out, result) \in Seq(Out) /\ Len(Append(fr.out, result)) = Len(fr.out) + 1
      /\ \A n \in 1 .. Len(fr.out) : Append(fr.out, result)[n] = fr.out[n]
      /\ Append(fr.out, result)[Len(fr.out) + 1] = result /\ Len(fr.out) \in Nat
  BY <1>1, AppendProperties
<1> DEFINE out == Append(fr.out, result)
<1>4. new = [fr EXCEPT !.phase = "yield", !.entry = fr.entry + 1, !.out = out]
  BY <1>2
<1> HIDE DEF out, new
<1>5. out \in Seq(Out)
  BY <1>3 DEF out
<1>6. new \in Frame
  BY <1>1, <1>4, <1>5 DEF Frame
<1>7. /\ new.phase = "yield" /\ new.entry = fr.entry + 1 /\ new.out = out
      /\ new.op = fr.op /\ new.ref = fr.ref /\ new.unique = fr.unique /\ new.seen = fr.seen
      /\ new.page = fr.page /\ new.left = fr.left /\ new.msgs = fr.msgs
  BY <1>4 DEF Frame
<1>8. YieldedOut(fr, new, e)
  BY <1>1, <1>3, <1>7 DEF YieldedOut, out
<1> QED
  BY <1>6, <1>7, <1>8 DEF new

\* The generator gives e to the program, and has those messages and entries left.
YieldEffect(e, msgs, left) ==
  /\ LET old == frames[1]
         new == frames'[1]
     IN /\ new.phase = "yield" /\ new.entry = old.entry + 1 /\ YieldedOut(old, new, e)
        /\ new.op = old.op /\ new.ref = old.ref /\ new.unique = old.unique /\ new.seen = old.seen
        /\ new.page = old.page /\ new.msgs = msgs /\ new.left = left
  /\ frames'[2] = frames[2] /\ dir' = dir

\* Only the first frame iterates.
LEMMA Iterating ==
  ASSUME TypeInv, NEW f \in 1 .. 2, frames[f].op \in Iterates \cup {"paginated"}
  PROVE  f = 1 /\ 1 \in 1 .. 2
<1>1. f = 2 => frames[f].op \in {"none", "get"}
  BY DEF TypeInv, Roles
<1> QED
  BY <1>1 DEF Iterates

\* search_iter() and search_paged() give an entry: the types stay.
LEMMA YieldEntryType ==
  ASSUME TypeInv, NEW f \in 1 .. 2, YieldEntry(f)
  PROVE  /\ TypeInv' /\ f = 1 /\ frames[1].phase = "poll" /\ frames[1].op \in Iterates
         /\ frames[1].msgs # <<>> /\ Accepted(1) /\ ~Message(1).final
         /\ Controlling(1, Received(1))
         /\ YieldEffect(Message(1).found[1], Tail(frames[1].msgs), frames[1].left)
<1> DEFINE old == frames[1]
           e == Message(1).found[1]
           rest == [old EXCEPT !.msgs = Tail(@)]
           new == Yielded(rest, e)
<1>1. f = 1 /\ 1 \in 1 .. 2 /\ 2 \in 1 .. 2
  BY Iterating DEF YieldEntry, Ready
<1>2. /\ old.phase = "poll" /\ old.op \in Iterates /\ old.msgs # <<>> /\ Accepted(1)
      /\ ~Message(1).final /\ Controlling(1, Received(1)) /\ Changes(1, new)
      /\ UNCHANGED <<dir, after, view, link, searches, others>>
  BY <1>1 DEF YieldEntry, Ready, Awake, server
<1>3. old \in Frame /\ FrameOK(old) /\ Singles(old.msgs) /\ old.msgs \in Seq(Reply)
  BY <1>1, <1>2 DEF TypeInv, FramesOK, FrameOK, Frame
<1>4. /\ Message(1) = old.msgs[1] /\ 1 \in DOMAIN old.msgs /\ Message(1).found \in Seq(Entries)
      /\ Received(1).server = controls[old.ref].server
  BY <1>1, <1>2, MessageFacts DEF Reply
<1>5. Len(Message(1).found) = 1
  BY <1>2, <1>3, <1>4 DEF Singles
<1>6. e \in Entries
  BY <1>4, <1>5
<1> HIDE DEF e
<1>7. /\ Tail(old.msgs) \in Seq(Reply) /\ Len(Tail(old.msgs)) = Len(old.msgs) - 1
      /\ \A n \in 1 .. Len(Tail(old.msgs)) : Tail(old.msgs)[n] = old.msgs[n + 1]
  BY <1>2, <1>3, HeadTailProperties
<1>8. Singles(Tail(old.msgs))
  <2> SUFFICES ASSUME NEW n \in 1 .. Len(Tail(old.msgs))
               PROVE  /\ ~Tail(old.msgs)[n].final => Len(Tail(old.msgs)[n].found) = 1
                      /\ Tail(old.msgs)[n].final =>
                           Tail(old.msgs)[n].found = <<>> /\ n = Len(Tail(old.msgs))
    BY <1>7 DEF Singles
  <2>1. n + 1 \in DOMAIN old.msgs /\ Tail(old.msgs)[n] = old.msgs[n + 1] /\ Len(old.msgs) \in Nat
    BY <1>3, <1>7
  <2>2. /\ ~old.msgs[n + 1].final => Len(old.msgs[n + 1].found) = 1
        /\ old.msgs[n + 1].final => old.msgs[n + 1].found = <<>> /\ n + 1 = Len(old.msgs)
    BY <1>3, <2>1 DEF Singles
  <2> QED
    BY <1>7, <2>1, <2>2
<1>9. /\ rest \in Frame /\ rest.msgs = Tail(old.msgs) /\ rest.op = old.op /\ rest.ref = old.ref
      /\ rest.unique = old.unique /\ rest.seen = old.seen /\ rest.page = old.page
      /\ rest.left = old.left /\ rest.entry = old.entry /\ rest.out = old.out
  BY <1>3, <1>7 DEF Frame
<1> HIDE DEF rest
<1>10. /\ new \in Frame /\ new.phase = "yield" /\ new.entry = rest.entry + 1
       /\ YieldedOut(rest, new, e)
       /\ new.op = rest.op /\ new.ref = rest.ref /\ new.unique = rest.unique /\ new.seen = rest.seen
       /\ new.page = rest.page /\ new.left = rest.left /\ new.msgs = rest.msgs
  BY <1>6, <1>9, YieldedFacts
<1> HIDE DEF new
<1>11. YieldedOut(old, new, e)
  BY <1>9, <1>10 DEF YieldedOut
<1>12. "paginated" \notin Iterates
  BY DEF Iterates
<1>13. FrameOK(new)
  BY <1>2, <1>3, <1>8, <1>9, <1>10, <1>12 DEF FrameOK
<1>14. ControlsOK' /\ \A c \in 0 .. 2 : controls'[c].server = controls[c].server
  BY <1>1, <1>2, ReceivedFacts
<1>15. Controlled(new, controls'[new.ref].server)
  <2>1. old.ref \in 0 .. 2 /\ new.ref = old.ref /\ new.op = old.op /\ Open(old)
    BY <1>2, <1>3, <1>9, <1>10 DEF Frame, Open
  <2> QED
    BY <1>14, <2>1 DEF TypeInv, Controlled
<1>16. Open(frames[1]) /\ new.op = frames[1].op /\ new.ref = frames[1].ref /\ new.seen = frames[1].seen
  BY <1>2, <1>9, <1>10 DEF Open
<1>17. TypeInv' /\ frames'[1] = new /\ \A g \in 1 .. 2 : g # 1 => frames'[g] = frames[g]
  BY <1>1, <1>2, <1>10, <1>13, <1>14, <1>15, <1>16, ChangeType
<1> QED
  BY <1>1, <1>2, <1>9, <1>10, <1>11, <1>17 DEF YieldEffect, e

\* search_paginated() gives the next entry of its page: the types stay.
LEMMA ResumePageType ==
  ASSUME TypeInv, NEW f \in 1 .. 2, ResumePage(f)
  PROVE  /\ TypeInv' /\ f = 1 /\ frames[1].phase = "yield" /\ frames[1].op = "paginated"
         /\ frames[1].msgs = <<>> /\ frames[1].left # <<>> /\ ~Working(2) /\ controls' = controls
         /\ YieldEffect(frames[1].left[1], frames[1].msgs, Tail(frames[1].left))
<1> DEFINE old == frames[1]
           e == old.left[1]
           rest == [old EXCEPT !.left = Tail(@)]
           new == Yielded(rest, e)
<1>1. f = 1 /\ 1 \in 1 .. 2 /\ 2 \in 1 .. 2
  BY DEF ResumePage, TypeInv, Roles
<1>2. /\ old.phase = "yield" /\ Free(2) /\ old.left # <<>> /\ Changes(1, new)
      /\ UNCHANGED <<dir, after, view, link, controls, searches, others>>
  BY <1>1 DEF ResumePage, server
<1>3. old \in Frame /\ FrameOK(old) /\ old.left \in Seq(Entries) /\ old.op = "paginated" /\ old.msgs = <<>>
  BY <1>1, <1>2 DEF TypeInv, FramesOK, FrameOK, Frame
<1>4. e \in Entries /\ Tail(old.left) \in Seq(Entries)
  BY <1>2, <1>3, HeadTailProperties
<1> HIDE DEF e
<1>5. /\ rest \in Frame /\ rest.msgs = old.msgs /\ rest.op = old.op /\ rest.ref = old.ref
      /\ rest.unique = old.unique /\ rest.seen = old.seen /\ rest.page = old.page
      /\ rest.left = Tail(old.left) /\ rest.entry = old.entry /\ rest.out = old.out
  BY <1>3, <1>4 DEF Frame
<1> HIDE DEF rest
<1>6. /\ new \in Frame /\ new.phase = "yield" /\ new.entry = rest.entry + 1
      /\ YieldedOut(rest, new, e)
      /\ new.op = rest.op /\ new.ref = rest.ref /\ new.unique = rest.unique /\ new.seen = rest.seen
      /\ new.page = rest.page /\ new.left = rest.left /\ new.msgs = rest.msgs
  BY <1>4, <1>5, YieldedFacts
<1> HIDE DEF new
<1>7. YieldedOut(old, new, e)
  BY <1>5, <1>6 DEF YieldedOut
<1>8. FrameOK(new)
  <2>1. DOMAIN new.msgs = {}
    BY <1>3, <1>5, <1>6
  <2> QED
    BY <1>3, <1>5, <1>6, <2>1 DEF FrameOK, Singles
<1>9. ControlsOK'
  BY <1>2 DEF TypeInv, ControlsOK
<1>10. Controlled(new, controls'[new.ref].server)
  BY <1>2, <1>5, <1>6, ZenonT(30) DEF TypeInv, Controlled, Open
<1>11. Open(frames[1]) /\ new.op = frames[1].op /\ new.ref = frames[1].ref /\ new.seen = frames[1].seen
  BY <1>2, <1>5, <1>6 DEF Open
<1>12. TypeInv' /\ frames'[1] = new /\ \A g \in 1 .. 2 : g # 1 => frames'[g] = frames[g]
  BY <1>1, <1>2, <1>6, <1>8, <1>9, <1>10, <1>11, ChangeType
<1>13. ~Working(2)
  BY <1>2 DEF Free, Working
<1> QED
  BY <1>1, <1>2, <1>3, <1>5, <1>6, <1>7, <1>12, <1>13 DEF YieldEffect, e

\* The generator asks for its next page.
TurnEffect ==
  /\ LET old == frames[1]
         new == frames'[1]
     IN /\ new.phase = "ask" /\ new.msgs = <<>> /\ new.left = <<>> /\ new.page = old.page + 1
        /\ new.entry = 0 /\ new.out = old.out /\ new.op = old.op /\ new.ref = old.ref
        /\ new.unique = old.unique /\ new.seen = old.seen
  /\ frames'[2] = frames[2] /\ dir' = dir

\* A frame that asks again.
LEMMA AskingFacts ==
  ASSUME NEW fr \in Frame
  PROVE  /\ Asking(fr) \in Frame /\ Asking(fr).phase = "ask" /\ Asking(fr).tries > 0
         /\ Asking(fr).op = fr.op /\ Asking(fr).ref = fr.ref /\ Asking(fr).unique = fr.unique
         /\ Asking(fr).out = fr.out /\ Asking(fr).seen = fr.seen /\ Asking(fr).page = fr.page
         /\ Asking(fr).entry = fr.entry /\ Asking(fr).left = fr.left /\ Asking(fr).msgs = fr.msgs
<1>1. Attempts \in 0 .. Attempts /\ Attempts > 0
  BY ConstantsAssumption
<1> DEFINE new == [fr EXCEPT !.phase = "ask", !.tries = Attempts]
<1>2. Asking(fr) = new
  BY DEF Asking
<1>3. new \in Frame
  BY <1>1, ZenonT(30) DEF Frame
<1>4. /\ new.phase = "ask" /\ new.tries = Attempts
      /\ new.op = fr.op /\ new.ref = fr.ref /\ new.unique = fr.unique
      /\ new.out = fr.out /\ new.seen = fr.seen /\ new.page = fr.page
      /\ new.entry = fr.entry /\ new.left = fr.left /\ new.msgs = fr.msgs
  BY DEF Frame
<1> HIDE DEF new
<1> QED
  BY <1>1, <1>2, <1>3, <1>4

\* A frame that asks and has nothing.
LEMMA AskingOK ==
  ASSUME NEW fr \in Frame, fr.phase = "ask", fr.tries > 0, fr.msgs = <<>>, fr.left = <<>>
  PROVE  FrameOK(fr)
<1>1. DOMAIN fr.msgs = {}
  OBVIOUS
<1> QED
  BY <1>1 DEF FrameOK, Singles

\* pagination.cookie = ...: one of the paging controls has the cookie.
LEMMA SetCookieFacts ==
  ASSUME NEW c \in ControlsType, Request(c.server), NEW cookie \in Place,
         \E n \in DOMAIN c.server : c.server[n].type = "paged"
  PROVE  LET new == SetCookie(c, cookie)
         IN /\ new \in ControlsType /\ Request(new.server) /\ new.response = c.response
            /\ \E n \in DOMAIN new.server : new.server[n].type = "paged" /\ new.server[n].at = cookie
            /\ \A n \in DOMAIN new.server :
                 new.server[n].at = cookie \/ (n \in DOMAIN c.server /\ new.server[n] = c.server[n])
            /\ \A n \in DOMAIN new.server :
                 n \in DOMAIN c.server /\ new.server[n].type = c.server[n].type
<1> DEFINE list == c.server
           Last(i) == list[i].type = "paged" /\ \A j \in DOMAIN list : list[j].type = "paged" => j <= i
           n == CHOOSE i \in DOMAIN list : Last(i)
           control == Paged(cookie)
           changed == [list EXCEPT ![n] = control]
           new == SetCookie(c, cookie)
<1>1. /\ list \in Seq(Control) /\ Len(list) \in Nat /\ DOMAIN list = 1 .. Len(list)
      /\ \A m \in DOMAIN list : list[m].type = "vlv" => list[m].at \in Nat \ {0}
  BY DEF Request
<1>12. n \in DOMAIN list /\ Last(n)
  <2> DEFINE S == {i \in 1 .. Len(list) : list[i].type = "paged"}
  <2>1. S \subseteq 1 .. Len(list) /\ S # {}
    BY <1>1
  <2>2. PICK x \in S : \A y \in S : y <= x
    <3> HIDE DEF S
    <3> QED
      BY <1>1, <2>1, GreatestIndex
  <2>3. x \in DOMAIN list /\ Last(x)
    BY <1>1, <2>2
  <2> HIDE DEF Last
  <2> QED
    BY <2>3
<1>2. n \in DOMAIN list /\ list[n].type = "paged"
  BY <1>12
<1>3. control \in Control /\ control.type = "paged" /\ control.at = cookie
  BY DEF Paged, Control, Place
<1>4. new = [c EXCEPT !.server = changed]
  BY DEF SetCookie
<1> HIDE DEF n, control, list
<1>5. changed \in Seq(Control) /\ Len(changed) = Len(list)
      /\ \A j \in 1 .. Len(list) : changed[j] = IF j = n THEN control ELSE list[j]
  BY <1>1, <1>2, <1>3, ExceptSeq
<1> HIDE DEF changed
<1>6. new \in ControlsType /\ new.response = c.response /\ new.server = changed
  BY <1>4, <1>5 DEF ControlsType
<1>7. DOMAIN changed = 1 .. Len(list)
  BY <1>5
<1>8. Request(changed)
  BY <1>1, <1>3, <1>5, <1>7 DEF Request
<1>9. n \in DOMAIN changed /\ changed[n].type = "paged" /\ changed[n].at = cookie
  BY <1>1, <1>2, <1>3, <1>5, <1>7
<1>10. \A m \in DOMAIN changed : changed[m].at = cookie \/ (m \in DOMAIN list /\ changed[m] = list[m])
  BY <1>1, <1>3, <1>5, <1>7
<1>11. \A m \in DOMAIN changed : m \in DOMAIN list /\ changed[m].type = list[m].type
  BY <1>1, <1>2, <1>3, <1>5, <1>7
<1> HIDE DEF new
<1> QED
  BY <1>6, <1>8, <1>9, <1>10, <1>11 DEF new, list

\* The generator is done, whatever becomes of its controls.
Ends == frames'[1].phase = "done" /\ Quiet(frames[1], frames'[1]) /\ frames'[2] = frames[2]

PageTurns ==
  /\ frames[1].phase = "poll" /\ frames[1].op = "paged" /\ frames[1].msgs # <<>> /\ frames[1].entry # 0
  /\ Accepted(1) /\ Message(1).final /\ Message(1).resp.paged # None
  /\ TurnEffect
  /\ LET old == controls[frames[1].ref].server
         new == controls'[frames[1].ref].server
     IN /\ \E n \in DOMAIN new : new[n].type = "paged" /\ new[n].at = Message(1).resp.paged
        /\ \A n \in DOMAIN new :
             new[n].at = Message(1).resp.paged \/ (n \in DOMAIN old /\ new[n] = old[n])
        /\ \A n \in DOMAIN new : n \in DOMAIN old /\ new[n].type = old[n].type

\* The end of a page: the generator is done, or asks for the next with the cookie.
LEMMA PageEndsType ==
  ASSUME TypeInv, NEW f \in 1 .. 2, PageEnds(f)
  PROVE  QuietStep \/ (TypeInv' /\ (PageTurns \/ Ends))
<1> DEFINE old == frames[1]
           cookie == Gotten(Received(1), "paged")
           turned == [old EXCEPT !.msgs = <<>>, !.page = @ + 1, !.entry = 0]
           new == Asking(turned)
           made == SetCookie(Received(1), cookie)
           over == Finished(old, "ok")
<1>1. f = 1 /\ 1 \in 1 .. 2 /\ 2 \in 1 .. 2
  BY Iterating DEF PageEnds, Ready
<1>2. /\ old.phase = "poll" /\ old.op \in Iterates /\ old.msgs # <<>> /\ Accepted(1) /\ Message(1).final
      /\ UNCHANGED <<dir, after, view, link, searches, others>>
  BY <1>1 DEF PageEnds, Ready, Awake, server
<1>3. old \in Frame /\ FrameOK(old) /\ frames \in [1 .. 2 -> Frame]
  BY <1>1 DEF TypeInv, FramesOK
<1>4. ~Working(2)
  BY <1>1, <1>2, OneWorks DEF Working
<1>5. /\ Message(1) \in Reply /\ cookie = Message(1).resp.paged
      /\ Received(1) \in ControlsType /\ Received(1).response = Message(1).resp
      /\ Received(1).server = controls[old.ref].server /\ old.ref \in 0 .. 2
  BY <1>1, <1>2, MessageFacts
<1>6. CASE Finishes(1, "ok") /\ Controlling(1, Received(1))
  <2>1. /\ ControlsOK' /\ \A c \in 0 .. 2 : controls'[c].server = controls[c].server
    BY <1>1, <1>2, <1>6, ReceivedFacts
  <2>2. "ok" \in Results
    BY DEF Results
  <2>3. frames'[1].phase = "done"
    BY <1>1, <1>3, <1>6, <2>2, FinishedFacts DEF Finishes, Changes
  <2>4. ControlsKept
    BY <2>1, <2>3 DEF ControlsKept
  <2>5. (ServerOK)' /\ (link \in {"up", "lost", "gone"})'
    BY <1>2 DEF TypeInv, ServerOK
  <2> QED
    BY <1>1, <1>2, <1>4, <1>6, <2>2, <2>4, <2>5, FinishQuiet
<1>7. CASE /\ ~(old.op = "iter" \/ old.entry = 0) /\ Controlling(1, made)
           /\ IF cookie = None THEN Finishes(1, "ok") ELSE Changes(1, new)
  <2>1. old.op = "paged" /\ old.entry # 0
    BY <1>2, <1>7 DEF Iterates
  <2>2. cookie \in Place
    BY <1>5 DEF Reply, ResponseType
  <2>3. Request(Received(1).server)
    BY <1>5 DEF TypeInv, ControlsOK
  <2>4. \E n \in DOMAIN Received(1).server : Received(1).server[n].type = "paged"
    BY <1>2, <1>5, <2>1 DEF TypeInv, Controlled, Open
  <2> HIDE DEF cookie
  <2>5. /\ made \in ControlsType /\ Request(made.server)
        /\ \E n \in DOMAIN made.server : made.server[n].type = "paged" /\ made.server[n].at = cookie
        /\ \A n \in DOMAIN made.server : \/ made.server[n].at = cookie
                                         \/ /\ n \in DOMAIN controls[old.ref].server
                                            /\ made.server[n] = controls[old.ref].server[n]
        /\ \A n \in DOMAIN made.server :
             n \in DOMAIN controls[old.ref].server
             /\ made.server[n].type = controls[old.ref].server[n].type
    BY <1>5, <2>2, <2>3, <2>4, SetCookieFacts
  <2> HIDE DEF made
  <2>6. /\ controls' = [controls EXCEPT ![old.ref] = made] /\ controls \in [0 .. 2 -> ControlsType]
        /\ \A c \in 0 .. 2 : Request(controls[c].server)
    BY <1>7 DEF Controlling, TypeInv, ControlsOK
  <2>7. /\ controls' \in [0 .. 2 -> ControlsType] /\ controls'[old.ref] = made
        /\ \A c \in 0 .. 2 : c # old.ref => controls'[c] = controls[c]
    BY <1>5, <2>5, <2>6
  <2>8. ControlsOK'
    BY <2>5, <2>6, <2>7 DEF ControlsOK
  <2>9. CASE cookie # None /\ Changes(1, new)
    <3>9. /\ turned \in Frame /\ turned.msgs = <<>> /\ turned.page = old.page + 1 /\ turned.entry = 0
          /\ turned.op = old.op /\ turned.ref = old.ref /\ turned.unique = old.unique
          /\ turned.seen = old.seen /\ turned.out = old.out /\ turned.left = old.left
      <4> DEFINE page == old.page + 1
                 emptied == [old EXCEPT !.msgs = <<>>]
                 moved == [emptied EXCEPT !.page = page]
      <4>1. <<>> \in Seq(Reply) /\ page \in Nat \ {0} /\ 0 \in Nat
        BY <1>3, SMTT(30) DEF Frame
      <4>2. turned = [old EXCEPT !.msgs = <<>>, !.page = page, !.entry = 0]
        BY <1>3 DEF Frame
      <4> HIDE DEF page, turned
      <4>3. /\ emptied \in Frame /\ emptied.msgs = <<>> /\ emptied.op = old.op /\ emptied.ref = old.ref
            /\ emptied.unique = old.unique /\ emptied.seen = old.seen /\ emptied.out = old.out
            /\ emptied.left = old.left
        BY <1>3, <4>1 DEF Frame
      <4>4. turned = [moved EXCEPT !.entry = 0]
        BY <4>2
      <4> HIDE DEF emptied
      <4>5. /\ moved \in Frame /\ moved.msgs = emptied.msgs /\ moved.op = emptied.op
            /\ moved.ref = emptied.ref /\ moved.page = page
            /\ moved.unique = emptied.unique /\ moved.seen = emptied.seen /\ moved.out = emptied.out
            /\ moved.left = emptied.left
        BY <4>1, <4>3 DEF Frame
      <4> HIDE DEF moved
      <4>6. /\ turned \in Frame /\ turned.msgs = moved.msgs /\ turned.op = moved.op
            /\ turned.ref = moved.ref /\ turned.page = moved.page /\ turned.entry = 0
            /\ turned.unique = moved.unique /\ turned.seen = moved.seen /\ turned.out = moved.out
            /\ turned.left = moved.left
        BY <4>1, <4>4, <4>5 DEF Frame
      <4> QED
        BY <4>3, <4>5, <4>6 DEF page
    <3> HIDE DEF turned
    <3>10. /\ new \in Frame /\ new.phase = "ask" /\ new.tries > 0
           /\ new.op = turned.op /\ new.ref = turned.ref /\ new.unique = turned.unique
           /\ new.out = turned.out /\ new.seen = turned.seen /\ new.page = turned.page
           /\ new.entry = turned.entry /\ new.left = turned.left /\ new.msgs = turned.msgs
      BY <3>9, AskingFacts
    <3> HIDE DEF new
    <3>11. old.left = <<>>
      BY <1>2, <1>3 DEF FrameOK
    <3>12. FrameOK(new)
      BY <3>9, <3>10, <3>11, AskingOK
    <3>13. Controlled(new, controls'[new.ref].server)
      BY <2>1, <2>5, <2>7, <3>9, <3>10 DEF Controlled
    <3>14. Open(frames[1]) /\ new.op = frames[1].op /\ new.ref = frames[1].ref /\ new.seen = frames[1].seen
      BY <1>2, <3>9, <3>10 DEF Open
    <3>15. TypeInv' /\ frames'[1] = new /\ \A g \in 1 .. 2 : g # 1 => frames'[g] = frames[g]
      BY <1>1, <1>2, <1>4, <2>8, <2>9, <3>12, <3>13, <3>14, ChangeType
    <3>16. TurnEffect
      BY <1>1, <1>2, <3>9, <3>10, <3>11, <3>15 DEF TurnEffect
    <3>17. PageTurns
      BY <1>2, <1>5, <2>1, <2>5, <2>7, <2>9, <3>16 DEF PageTurns, cookie
    <3> QED
      BY <3>15, <3>17
  <2>10. CASE cookie = None /\ Finishes(1, "ok")
    <3>1. /\ FrameOK(over) /\ over.phase = "done" /\ over.op = old.op /\ over.ref = old.ref
          /\ over.seen = old.seen /\ Quiet(old, over)
      BY <1>3, FinishedFacts DEF Quiet, Results
    <3>2. Changes(1, over)
      BY <2>10 DEF Finishes
    <3> HIDE DEF over
    <3>3. Controlled(over, controls'[over.ref].server)
      BY <3>1 DEF Controlled, Open
    <3>4. Open(frames[1]) /\ over.op = frames[1].op /\ over.ref = frames[1].ref /\ over.seen = frames[1].seen
      BY <1>2, <3>1 DEF Open
    <3>5. UNCHANGED <<dir, after, view, link, searches, others>> /\ FrameOK(over)
      BY <1>2, <3>1
    <3>6. TypeInv' /\ frames'[1] = over /\ \A g \in 1 .. 2 : g # 1 => frames'[g] = frames[g]
      <4> HIDE DEF old
      <4> QED
        BY <1>1, <1>4, <2>8, <3>2, <3>3, <3>4, <3>5, ChangeType
    <3> QED
      BY <1>1, <3>1, <3>6 DEF Ends
  <2> QED
    BY <1>7, <2>9, <2>10
<1> QED
  BY <1>1, <1>6, <1>7 DEF PageEnds

\* The first result of a page.
PageYields ==
  /\ frames[1].phase = "poll" /\ frames[1].op = "paginated" /\ frames[1].msgs # <<>>
  /\ Accepted(1) /\ Message(1).found # <<>> /\ Controlling(1, Received(1))
  /\ YieldEffect(Message(1).found[1], <<>>, Tail(Message(1).found))

\* A page of search_paginated() ends the generator, or gives its first entry.
LEMMA PageArrivesType ==
  ASSUME TypeInv, NEW f \in 1 .. 2, PageArrives(f)
  PROVE  QuietStep \/ (TypeInv' /\ PageYields)
<1> DEFINE old == frames[1]
           found == Message(1).found
           count == Gotten(Received(1), "vlv").count
           counted == [old EXCEPT !.length = count, !.lastPage = Pages(count)]
           known == IF old.lastPage # None THEN old ELSE counted
           rest == [known EXCEPT !.msgs = <<>>, !.left = Tail(found)]
           new == Yielded(rest, found[1])
<1>1. f = 1 /\ 1 \in 1 .. 2 /\ 2 \in 1 .. 2
  BY Iterating DEF PageArrives, Ready
<1>2. /\ old.phase = "poll" /\ old.op = "paginated" /\ old.msgs # <<>> /\ Accepted(1)
      /\ Controlling(1, Received(1)) /\ UNCHANGED <<dir, after, view, link, searches, others>>
  BY <1>1 DEF PageArrives, Ready, Awake, server
<1>3. old \in Frame /\ FrameOK(old) /\ frames \in [1 .. 2 -> Frame]
  BY <1>1 DEF TypeInv, FramesOK
<1>4. ~Working(2)
  BY <1>1, <1>2, OneWorks DEF Working
<1>5. /\ Message(1) \in Reply /\ Message(1) = old.msgs[1] /\ 1 \in DOMAIN old.msgs
      /\ Gotten(Received(1), "vlv") = Message(1).resp.vlv
      /\ Received(1).server = controls[old.ref].server /\ old.ref \in 0 .. 2
  BY <1>1, <1>2, MessageFacts
<1>6. /\ ControlsOK' /\ \A c \in 0 .. 2 : controls'[c].server = controls[c].server
  BY <1>1, <1>2, ReceivedFacts
<1>7. CASE found = <<>> /\ Finishes(1, "ok")
  <2>1. "ok" \in Results
    BY DEF Results
  <2>2. frames'[1].phase = "done"
    BY <1>1, <1>3, <1>7, <2>1, FinishedFacts DEF Finishes, Changes
  <2>3. ControlsKept
    BY <1>6, <2>2 DEF ControlsKept
  <2>4. (ServerOK)' /\ (link \in {"up", "lost", "gone"})'
    BY <1>2 DEF TypeInv, ServerOK
  <2> QED
    BY <1>1, <1>2, <1>4, <1>7, <2>1, <2>3, <2>4, FinishQuiet
<1>8. CASE found # <<>> /\ Changes(1, new)
  <2>1. Message(1).resp.vlv # None /\ Message(1).resp \in ResponseType
    BY <1>2, <1>3, <1>5 DEF FrameOK, Accepted, Reply
  <2>2. count \in Nat
    BY <1>5, <2>1 DEF ResponseType, View
  <2>3. found \in Seq(Entries) /\ found[1] \in Entries /\ Tail(found) \in Seq(Entries)
    <3>1. found \in Seq(Entries)
      BY <1>5 DEF Reply
    <3> QED
      BY <1>8, <3>1, HeadTailProperties
  <2>4. Pages(count) \in Int
    <3> HIDE DEF count
    <3> QED
      BY <2>2, ConstantsAssumption DEF Pages
  <2> DEFINE pages == Pages(count)
             e == found[1]
             tail == Tail(found)
  <2> HIDE DEF count, pages
  <2>5. /\ known \in Frame /\ known.op = old.op /\ known.ref = old.ref /\ known.unique = old.unique
        /\ known.seen = old.seen /\ known.page = old.page /\ known.entry = old.entry
        /\ known.out = old.out
    <3>1. count \in Place /\ pages \in Int
      BY <2>2, <2>4 DEF Place, pages
    <3>2. counted = [old EXCEPT !.length = count, !.lastPage = pages]
      BY DEF pages
    <3>3. counted \in Frame
      <4> DEFINE fresh == [old EXCEPT !.length = count, !.lastPage = pages]
      <4> HIDE DEF pages
      <4>1. fresh \in Frame
        BY <1>3, <3>1, ZenonT(30) DEF Frame
      <4> QED
        BY <3>2, <4>1
    <3>4. /\ counted.op = old.op /\ counted.ref = old.ref /\ counted.unique = old.unique
          /\ counted.seen = old.seen /\ counted.page = old.page /\ counted.entry = old.entry
          /\ counted.out = old.out
      BY <1>3, <3>2 DEF Frame
    <3> QED
      BY <1>3, <3>3, <3>4
  <2> HIDE DEF known, found
  <2>6. e \in Entries /\ tail \in Seq(Entries)
    BY <2>3
  <2>7. rest = [known EXCEPT !.msgs = <<>>, !.left = tail] /\ new = Yielded(rest, e)
    OBVIOUS
  <2> HIDE DEF e, tail
  <2>8. /\ rest \in Frame /\ rest.msgs = <<>> /\ rest.left = tail
        /\ rest.op = known.op /\ rest.ref = known.ref
        /\ rest.unique = known.unique /\ rest.seen = known.seen /\ rest.page = known.page
        /\ rest.entry = known.entry /\ rest.out = known.out
    <3>1. <<>> \in Seq(Reply)
      OBVIOUS
    <3>2. rest \in Frame
      <4> DEFINE bare == [known EXCEPT !.msgs = <<>>, !.left = tail]
      <4>1. bare \in Frame
        BY <2>5, <2>6, <3>1, ZenonT(30) DEF Frame
      <4> QED
        BY <2>7, <4>1
    <3>3. /\ rest.msgs = <<>> /\ rest.left = tail
          /\ rest.op = known.op /\ rest.ref = known.ref
          /\ rest.unique = known.unique /\ rest.seen = known.seen /\ rest.page = known.page
          /\ rest.entry = known.entry /\ rest.out = known.out
      BY <2>5, <2>7 DEF Frame
    <3> QED
      BY <3>2, <3>3
  <2> DEFINE given == Yielded(rest, e)
  <2> HIDE DEF rest
  <2>9. /\ given \in Frame /\ given.phase = "yield" /\ given.entry = rest.entry + 1
        /\ YieldedOut(rest, given, e)
        /\ given.op = rest.op /\ given.ref = rest.ref /\ given.unique = rest.unique
        /\ given.seen = rest.seen /\ given.page = rest.page /\ given.left = rest.left
        /\ given.msgs = rest.msgs
    BY <2>6, <2>8, YieldedFacts
  <2>10. Changes(1, given)
    BY <1>8, <2>7 DEF rest
  <2> HIDE DEF given
  <2>11. YieldedOut(old, given, e)
    BY <2>5, <2>8, <2>9 DEF YieldedOut
  <2>12. FrameOK(given)
    <3>1. DOMAIN given.msgs = {} /\ "paginated" \notin Iterates
      BY <2>8, <2>9 DEF Iterates
    <3> QED
      BY <1>2, <2>5, <2>8, <2>9, <3>1 DEF FrameOK
  <2>13. Controlled(given, controls'[given.ref].server)
    <3>1. given.ref = old.ref /\ given.op = old.op /\ Open(old)
      BY <1>2, <2>5, <2>8, <2>9 DEF Open
    <3> QED
      BY <1>5, <1>6, <3>1 DEF TypeInv, Controlled
  <2>14. Open(frames[1]) /\ given.op = frames[1].op /\ given.ref = frames[1].ref
         /\ given.seen = frames[1].seen
    BY <1>2, <2>5, <2>8, <2>9 DEF Open
  <2>15. TypeInv' /\ frames'[1] = given /\ \A g \in 1 .. 2 : g # 1 => frames'[g] = frames[g]
    BY <1>1, <1>2, <1>6, <2>9, <2>10, <2>12, <2>13, <2>14, ChangeType
  <2>16. YieldEffect(e, <<>>, tail)
    BY <1>1, <1>2, <2>5, <2>8, <2>9, <2>11, <2>15 DEF YieldEffect
  <2> QED
    BY <1>2, <1>8, <2>15, <2>16 DEF PageYields, e, tail, found
<1> QED
  BY <1>1, <1>7, <1>8 DEF PageArrives

\* search_paginated() asks for its next page, of the list that the last response was of.
WindowTurns ==
  LET old == frames[1]
      vlv == controls[old.ref].response.vlv
      list == controls'[old.ref].server
  IN /\ old.phase = "yield" /\ old.op = "paginated" /\ old.left = <<>> /\ vlv # None
     /\ ~EndReached(old.page * PageSize, vlv.count)
     /\ TurnEffect
     /\ \A n \in DOMAIN list : list[n].type = "vlv" =>
          list[n].at = old.page * PageSize + 1 /\ list[n].context = vlv.context
     /\ controls'[old.ref] =
          SetServer(controls[old.ref], VirtualListView(old.page * PageSize + 1, vlv.context))

\* After a page search_paginated() ends, raises, or asks for the next window.
LEMMA NextPageType ==
  ASSUME TypeInv, NEW f \in 1 .. 2, NextPage(f)
  PROVE  QuietStep \/ (TypeInv' /\ (WindowTurns \/ Ends))
<1> DEFINE old == frames[1]
           vlv == Gotten(controls[old.ref], "vlv")
           offset == old.page * PageSize
           control == VirtualListView(offset + 1, vlv.context)
           made == SetServer(controls[old.ref], control)
           turned == [old EXCEPT !.page = @ + 1, !.entry = 0, !.length = vlv.count]
           new == Asking(turned)
           over == Finished(old, "ok")
<1>1. f = 1 /\ 1 \in 1 .. 2 /\ 2 \in 1 .. 2
  BY Iterating DEF NextPage
<1>2. /\ old.phase = "yield" /\ old.op = "paginated" /\ old.left = <<>> /\ Free(2)
      /\ UNCHANGED <<dir, after, view, link, searches, others>>
  BY <1>1 DEF NextPage, server
<1>3. old \in Frame /\ FrameOK(old) /\ frames \in [1 .. 2 -> Frame]
  BY <1>1 DEF TypeInv, FramesOK
<1>4. ~Working(2) /\ old.msgs = <<>>
  BY <1>2, <1>3 DEF Working, Free, FrameOK
<1>5. /\ old.ref \in 0 .. 2 /\ controls[old.ref] \in ControlsType /\ Request(controls[old.ref].server)
      /\ vlv = controls[old.ref].response.vlv /\ vlv \in View \cup {None}
  BY <1>3 DEF TypeInv, ControlsOK, ControlsType, ResponseType, Frame, Gotten
<1>6. CASE Finishes(1, "attributeError") /\ UNCHANGED controls
  <2>1. "attributeError" \in Results
    BY DEF Results
  <2>2. (ServerOK)' /\ (link \in {"up", "lost", "gone"})' /\ ControlsKept
    BY <1>2, <1>6, ControlsUnchanged DEF TypeInv, ServerOK
  <2> QED
    BY <1>1, <1>2, <1>4, <1>6, <2>1, <2>2, FinishQuiet
<1>7. CASE /\ vlv # None /\ Controlling(1, made)
           /\ IF EndReached(offset, vlv.count) THEN Finishes(1, "ok") ELSE Changes(1, new)
  <2>1. vlv.count \in Nat /\ vlv.context \in Seq(Entries) /\ offset \in Nat
    <3>1. vlv.count \in Nat /\ vlv.context \in Seq(Entries)
      BY <1>5, <1>7 DEF View
    <3>2. old.page \in Nat /\ PageSize \in Nat
      BY <1>3, ConstantsAssumption DEF Frame
    <3> QED
      BY <3>1, <3>2
  <2> HIDE DEF vlv, offset
  <2>2. /\ control \in Control /\ control.type = "vlv" /\ control.at = offset + 1
        /\ control.context = vlv.context /\ control.at \in Nat \ {0}
    BY <2>1, ControlTypes
  <2> HIDE DEF control
  <2>3. /\ made \in ControlsType /\ Request(made.server)
        /\ \E n \in DOMAIN made.server : made.server[n] = control
        /\ \A n \in DOMAIN made.server : made.server[n].type = "vlv" => made.server[n] = control
    <3> DEFINE given == controls[old.ref]
    <3>1. given \in ControlsType /\ Request(given.server) /\ made = SetServer(given, control)
      BY <1>5
    <3> HIDE DEF given, made
    <3> QED
      BY <2>2, <3>1, SetServerFacts
  <2> HIDE DEF made
  <2>4. /\ controls' = [controls EXCEPT ![old.ref] = made] /\ controls \in [0 .. 2 -> ControlsType]
        /\ \A c \in 0 .. 2 : Request(controls[c].server)
    BY <1>7 DEF Controlling, TypeInv, ControlsOK
  <2>5. /\ controls' \in [0 .. 2 -> ControlsType] /\ controls'[old.ref] = made
        /\ \A c \in 0 .. 2 : c # old.ref => controls'[c] = controls[c]
    BY <1>5, <2>3, <2>4
  <2>6. ControlsOK'
    BY <2>3, <2>4, <2>5 DEF ControlsOK
  <2>7. Open(old)
    BY <1>2 DEF Open
  <2>8. CASE EndReached(offset, vlv.count) /\ Finishes(1, "ok")
    <3>1. /\ FrameOK(over) /\ over.phase = "done" /\ over.op = old.op /\ over.ref = old.ref
          /\ over.seen = old.seen /\ Quiet(old, over)
      BY <1>3, FinishedFacts DEF Quiet, Results
    <3>2. Changes(1, over)
      BY <2>8 DEF Finishes
    <3> HIDE DEF over
    <3>3. Controlled(over, controls'[over.ref].server)
      BY <3>1 DEF Controlled, Open
    <3>5. Open(frames[1]) /\ over.op = frames[1].op /\ over.ref = frames[1].ref /\ over.seen = frames[1].seen
      BY <2>7, <3>1
    <3>6. UNCHANGED <<dir, after, view, link, searches, others>> /\ FrameOK(over)
      BY <1>2, <3>1
    <3>4. TypeInv' /\ frames'[1] = over /\ \A g \in 1 .. 2 : g # 1 => frames'[g] = frames[g]
      <4> HIDE DEF old
      <4> QED
        BY <1>1, <1>4, <2>6, <3>2, <3>3, <3>5, <3>6, ChangeType
    <3> QED
      BY <1>1, <3>1, <3>4 DEF Ends
  <2>9. CASE ~EndReached(offset, vlv.count) /\ Changes(1, new)
    <3> DEFINE count == vlv.count
    <3>1. turned = [old EXCEPT !.page = @ + 1, !.entry = 0, !.length = count] /\ count \in Place
      BY <2>1 DEF Place
    <3> HIDE DEF count
    <3>2. /\ turned \in Frame /\ turned.msgs = old.msgs /\ turned.page = old.page + 1 /\ turned.entry = 0
          /\ turned.op = old.op /\ turned.ref = old.ref /\ turned.unique = old.unique
          /\ turned.seen = old.seen /\ turned.out = old.out /\ turned.left = old.left
      <4>1. old.page + 1 \in Nat \ {0}
        BY <1>3, SMTT(30) DEF Frame
      <4> DEFINE page == old.page + 1
      <4> HIDE DEF page
      <4>2. turned = [old EXCEPT !.page = page, !.entry = 0, !.length = count]
        BY <1>3, <3>1 DEF page, Frame
      <4>3. turned \in Frame
        <5> DEFINE fresh == [old EXCEPT !.page = page, !.entry = 0, !.length = count]
        <5>1. page \in Nat \ {0} /\ 0 \in Nat
          BY <4>1 DEF page
        <5>2. fresh \in Frame
          BY <1>3, <3>1, <4>1, <5>1, ZenonT(30) DEF Frame
        <5> QED
          BY <4>2, <5>2
      <4>4. /\ turned.msgs = old.msgs /\ turned.page = page /\ turned.entry = 0
            /\ turned.op = old.op /\ turned.ref = old.ref /\ turned.unique = old.unique
            /\ turned.seen = old.seen /\ turned.out = old.out /\ turned.left = old.left
        BY <1>3, <4>2 DEF Frame
      <4> QED
        BY <4>3, <4>4 DEF page
    <3> HIDE DEF turned
    <3>3. /\ new \in Frame /\ new.phase = "ask" /\ new.tries > 0
          /\ new.op = turned.op /\ new.ref = turned.ref /\ new.unique = turned.unique
          /\ new.out = turned.out /\ new.seen = turned.seen /\ new.page = turned.page
          /\ new.entry = turned.entry /\ new.left = turned.left /\ new.msgs = turned.msgs
      BY <3>2, AskingFacts
    <3> HIDE DEF new
    <3>4. FrameOK(new)
      BY <1>2, <1>4, <3>2, <3>3, AskingOK
    <3>5. Controlled(new, controls'[new.ref].server)
      <4>1. new.op = "paginated" /\ controls'[new.ref].server = made.server
        BY <1>2, <2>5, <3>2, <3>3
      <4> QED
        BY <2>2, <2>3, <4>1 DEF Controlled
    <3>6. Open(frames[1]) /\ new.op = frames[1].op /\ new.ref = frames[1].ref /\ new.seen = frames[1].seen
      BY <2>7, <3>2, <3>3
    <3>12. UNCHANGED <<dir, after, view, link, searches, others>>
      BY <1>2
    <3>7. TypeInv' /\ frames'[1] = new /\ \A g \in 1 .. 2 : g # 1 => frames'[g] = frames[g]
      <4> HIDE DEF old
      <4> QED
        BY <1>1, <1>4, <2>6, <2>9, <3>4, <3>5, <3>6, <3>12, ChangeType
    <3>8. TurnEffect
      BY <1>1, <1>2, <1>4, <3>2, <3>3, <3>7 DEF TurnEffect
    <3>9. \A n \in DOMAIN made.server : made.server[n].type = "vlv" =>
            made.server[n].at = offset + 1 /\ made.server[n].context = vlv.context
      BY <2>2, <2>3
    <3>10. vlv = controls[old.ref].response.vlv
      BY <1>5
    <3>13. controls'[old.ref] = SetServer(controls[old.ref], VirtualListView(offset + 1, vlv.context))
      BY <2>5 DEF made, control
    <3>11. WindowTurns
      BY <1>2, <1>7, <2>5, <2>9, <3>8, <3>9, <3>10, <3>13 DEF WindowTurns, offset
    <3> QED
      BY <3>7, <3>11
  <2> QED
    BY <1>7, <2>8, <2>9
<1> QED
  BY <1>1, <1>6, <1>7 DEF NextPage

\* search_iter() and search_paged() give the program the next entry.
EntryYields ==
  /\ frames[1].phase = "poll" /\ frames[1].op \in Iterates /\ frames[1].msgs # <<>>
  /\ Accepted(1) /\ ~Message(1).final /\ Controlling(1, Received(1))
  /\ YieldEffect(Message(1).found[1], Tail(frames[1].msgs), frames[1].left)

\* search_paginated() gives the program the next entry of its page.
EntryResumes ==
  /\ frames[1].phase = "yield" /\ frames[1].op = "paginated" /\ frames[1].msgs = <<>>
  /\ frames[1].left # <<>> /\ ~Working(2) /\ controls' = controls
  /\ YieldEffect(frames[1].left[1], frames[1].msgs, Tail(frames[1].left))

Calls ==
  \E f \in 1 .. 2, sorted \in BOOLEAN, unique \in BOOLEAN : \E op, ref :
    Call(f, op, ref, sorted, unique) /\ BeginEffect(f, op, ref, sorted, unique)
Asks == \E f \in 1 .. 2 : \E a : AskEffect(f, a)
Returned == \E f \in 1 .. 2 : ReturnsEffect(f)

\* What a step can do to what the searches have found, if it begins none, and if it does.
Progress ==
  \/ QuietStep \/ Asks \/ Returned \/ EntryYields \/ EntryResumes
  \/ PageTurns \/ PageYields \/ WindowTurns \/ Ends
Moves == Calls \/ Progress

\* A quiet step keeps the types: the frames have the requests that they had.
LEMMA QuietType ==
  ASSUME TypeInv, QuietStep
  PROVE  TypeInv'
<1>1. 1 \in 1 .. 2
  OBVIOUS
<1>2. /\ frames'[1].op = frames[1].op /\ frames'[1].ref = frames[1].ref
      /\ Open(frames'[1]) => Open(frames[1])
  BY <1>1 DEF QuietStep, Quiet, Open
<1>3. frames[1].ref \in 0 .. 2
  BY <1>1 DEF TypeInv, FramesOK, Frame
<1>4. controls'[frames'[1].ref].server = controls[frames[1].ref].server
  BY <1>2, <1>3 DEF QuietStep, ControlsKept
<1>5. Controlled(frames[1], controls[frames[1].ref].server)
  BY DEF TypeInv
<1>6. Controlled(frames'[1], controls'[frames'[1].ref].server)
  BY <1>2, <1>4, <1>5 DEF Controlled
<1> QED
  BY <1>6 DEF QuietStep, ControlsKept, TypeInv

\* At the start there is neither a generator nor a call.
LEMMA InitType ==
  ASSUME Init
  PROVE  TypeInv
<1>1. ServerOK /\ link \in {"up", "lost", "gone"}
  BY ConstantsAssumption DEF Init, ServerOK, Place
<1>2. searches \in 0 .. MaxSearches /\ others \in 0 .. MaxOthers
  BY ConstantsAssumption DEF Init
<1>3. ControlsOK
  <2>1. NoControls \in ControlsType /\ NoControls.server = <<>>
    BY DEF NoControls, ControlsType, NoResponse, ResponseType, Place
  <2>2. Request(NoControls.server)
    BY <2>1 DEF Request
  <2> QED
    BY <2>1, <2>2 DEF Init, ControlsOK
<1>4. /\ NoFrame.phase = "idle" /\ NoFrame.op = "none" /\ NoFrame.msgs = <<>> /\ NoFrame.left = <<>>
      /\ NoFrame.ref = 0
  BY DEF NoFrame
<1>5. FrameOK(NoFrame) /\ ~Open(NoFrame)
  BY <1>4, NoFrameFacts DEF FrameOK, Open, Iterates
<1>6. \A f \in 1 .. 2 : frames[f] = NoFrame
  BY DEF Init
<1>7. FramesOK
  BY <1>5, <1>6, NoFrameFacts DEF Init, FramesOK
<1>8. Roles
  BY <1>4, <1>6 DEF Roles, Working
<1>9. \A f \in 1 .. 2 : ~Open(frames[f])
  BY <1>5, <1>6
<1>10. Controlled(frames[1], controls[frames[1].ref].server)
  BY <1>9 DEF Controlled
<1> QED
  BY <1>1, <1>2, <1>3, <1>7, <1>8, <1>9, <1>10 DEF TypeInv

\* Every step of a request keeps the types and is one of these.
LEMMA WorkProgress ==
  ASSUME TypeInv, NEW f \in 1 .. 2, Work(f)
  PROVE  TypeInv' /\ Progress
<1>1. CASE Retry(f)
  BY <1>1, RetryQuiet, QuietType DEF Progress
<1>2. CASE NoHandle(f)
  BY <1>2, NoHandleQuiet, QuietType DEF Progress
<1>3. CASE Ask(f)
  BY <1>3, AskType DEF Progress, Asks
<1>4. CASE ServerDown(f)
  BY <1>4, ServerDownQuiet, QuietType DEF Progress
<1>5. CASE Timeout(f)
  BY <1>5, TimeoutQuiet, QuietType DEF Progress
<1>6. CASE Raise(f)
  BY <1>6, RaiseQuiet, QuietType DEF Progress
<1>7. CASE Returns(f)
  BY <1>7, ReturnsType DEF Progress, Returned
<1>8. CASE YieldEntry(f)
  BY <1>8, YieldEntryType DEF Progress, EntryYields
<1>9. CASE PageEnds(f)
  BY <1>9, PageEndsType, QuietType DEF Progress
<1>10. CASE PageArrives(f)
  BY <1>10, PageArrivesType, QuietType DEF Progress
<1> QED
  BY <1>1, <1>2, <1>3, <1>4, <1>5, <1>6, <1>7, <1>8, <1>9, <1>10 DEF Work

\* So does every call of the program.
LEMMA CallMoves ==
  ASSUME TypeInv, NEW f \in 1 .. 2, NEW op, NEW ref, NEW sorted \in BOOLEAN, NEW unique \in BOOLEAN,
         Call(f, op, ref, sorted, unique), Begin(f, op, ref, sorted, unique)
  PROVE  TypeInv' /\ Moves
<1>1. TypeInv' /\ BeginEffect(f, op, ref, sorted, unique)
  BY BeginType
<1>2. Calls
  BY <1>1 DEF Calls
<1> QED
  BY <1>1, <1>2 DEF Moves

\* A step that begins no call.
Proceeds ==
  \/ \E f \in 1 .. 2 : Work(f) \/ ResumeIter(f) \/ ResumePage(f) \/ NextPage(f) \/ Close(f)
  \/ \E e \in Entries : Changed(dir \cup {e}) \/ Changed(dir \ {e})
  \/ ConnectionLost
  \/ UNCHANGED vars

LEMMA ProceedsProgress ==
  ASSUME TypeInv, Proceeds
  PROVE  TypeInv' /\ Progress
<1>1. ASSUME NEW f \in 1 .. 2, Work(f) \/ ResumeIter(f) \/ ResumePage(f) \/ NextPage(f) \/ Close(f)
      PROVE  TypeInv' /\ Progress
  <2>1. CASE Work(f)
    BY <2>1, WorkProgress
  <2>2. CASE ResumeIter(f)
    BY <2>2, ResumeIterQuiet, QuietType DEF Progress
  <2>3. CASE ResumePage(f)
    BY <2>3, ResumePageType DEF Progress, EntryResumes
  <2>4. CASE NextPage(f)
    BY <2>4, NextPageType, QuietType DEF Progress
  <2>5. CASE Close(f)
    BY <2>5, CloseQuiet, QuietType DEF Progress
  <2> QED
    BY <1>1, <2>1, <2>2, <2>3, <2>4, <2>5
<1>2. ASSUME NEW e \in Entries, Changed(dir \cup {e}) \/ Changed(dir \ {e})
      PROVE  TypeInv' /\ Progress
  <2>1. dir \cup {e} \in SUBSET Entries /\ dir \ {e} \in SUBSET Entries
    BY DEF TypeInv, ServerOK
  <2> QED
    BY <1>2, <2>1, ChangedQuiet, QuietType DEF Progress
<1>3. CASE ConnectionLost
  BY <1>3, ConnectionLostQuiet, QuietType DEF Progress
<1>4. CASE UNCHANGED vars
  <2>1. QuietStep
    <3>1. ControlsKept
      BY <1>4, ControlsUnchanged DEF vars
    <3>2. \A f \in 1 .. 2 : Quiet(frames[f], frames'[f])
      BY <1>4, SameFacts DEF TypeInv, FramesOK, vars, Quiet
    <3> QED
      BY <1>4, <3>1, <3>2 DEF QuietStep, TypeInv, vars, server, ServerOK, FramesOK, Roles, Working
  <2> QED
    BY <2>1, QuietType DEF Progress
<1> QED
  BY <1>1, <1>2, <1>3, <1>4 DEF Proceeds

\* A step that begins one.
Begins == \E f \in 1 .. 2, sorted \in BOOLEAN, unique \in BOOLEAN : \E op, ref :
            Call(f, op, ref, sorted, unique) /\ Begin(f, op, ref, sorted, unique)

LEMMA BeginsOrProceeds ==
  ASSUME [Next]_vars
  PROVE  Begins \/ Proceeds
<1>0. 1 \in 1 .. 2 /\ 2 \in 1 .. 2 /\ TRUE \in BOOLEAN /\ FALSE \in BOOLEAN
  OBVIOUS
<1>1. ASSUME NEW op \in {"search", "iter", "paged"}, Search(op)
      PROVE  Begins
  <2>1. PICK ref \in {0, 1}, o \in Options : Begin(1, op, ref, o[1], o[2])
    BY <1>1 DEF Search
  <2>2. o[1] \in BOOLEAN /\ o[2] \in BOOLEAN
    <3>1. o = <<FALSE, FALSE>> \/ o = <<TRUE, FALSE>> \/ o = <<FALSE, TRUE>>
      BY <2>1 DEF Options
    <3>2. CASE o = <<FALSE, FALSE>>
      BY <3>2
    <3>3. CASE o = <<TRUE, FALSE>>
      BY <3>3
    <3>4. CASE o = <<FALSE, TRUE>>
      BY <3>4
    <3> QED
      BY <3>1, <3>2, <3>3, <3>4
  <2>3. Call(1, op, ref, o[1], o[2])
    BY <2>1 DEF Call
  <2> QED
    BY <1>0, <2>1, <2>2, <2>3 DEF Begins
<1>2. CASE SearchPaginated
  <2>1. PICK ref \in {0, 1}, unique \in BOOLEAN : Begin(1, "paginated", ref, TRUE, unique)
    BY <1>2 DEF SearchPaginated
  <2>2. Call(1, "paginated", ref, TRUE, unique)
    BY <2>1 DEF Call
  <2> QED
    BY <1>0, <2>1, <2>2 DEF Begins
<1>3. CASE Get
  <2>1. PICK ref \in {0, 2} : Begin(2, "get", ref, FALSE, FALSE)
    BY <1>3 DEF Get
  <2>2. Call(2, "get", ref, FALSE, FALSE)
    BY <1>3, <2>1 DEF Call, Get
  <2> QED
    BY <1>0, <2>1, <2>2 DEF Begins
<1> QED
  BY <1>1, <1>2, <1>3 DEF Next, Proceeds

\* Every step keeps the types and is one of the moves.
LEMMA NextMoves ==
  ASSUME TypeInv, [Next]_vars
  PROVE  TypeInv' /\ Moves
<1>1. ASSUME Begins
      PROVE  TypeInv' /\ Moves
  BY <1>1, CallMoves DEF Begins
<1>2. ASSUME Proceeds
      PROVE  TypeInv' /\ Moves
  BY <1>2, ProceedsProgress DEF Moves
<1> QED
  BY <1>1, <1>2, BeginsOrProceeds

\* Types, one call at a time, an attempt left for a call that waits in _retry, and the control that
\* a search goes from page to page with in its requests.
THEOREM TypeInvariance == Spec => []TypeOK
<1>1. Init => TypeInv
  BY InitType
<1>2. TypeInv /\ [Next]_vars => TypeInv'
  BY NextMoves
<1>3. TypeInv => TypeOK
  <2> SUFFICES ASSUME TypeInv
               PROVE  TypeOK
    OBVIOUS
  <2>1. \A f \in 1 .. 2 : frames[f].tries \in 0 .. Attempts /\ (Working(f) => frames[f].tries > 0)
    BY DEF TypeInv, FramesOK, FrameOK, Frame, Working
  <2>2. ~(Working(1) /\ Working(2))
    BY OneWorks
  <2>3. \A f \in 1 .. 2 : Controlled(frames[f], controls[frames[f].ref].server)
    <3>1. Controlled(frames[1], controls[frames[1].ref].server)
      BY DEF TypeInv
    <3>2. Controlled(frames[2], controls[frames[2].ref].server)
      <4>1. frames[2].op \notin {"paged", "paginated"}
        BY DEF TypeInv, Roles
      <4> QED
        BY <4>1 DEF Controlled
    <3>3. \A f \in 1 .. 2 : f = 1 \/ f = 2
      OBVIOUS
    <3> QED
      BY <3>1, <3>2, <3>3
  <2> QED
    BY <2>1, <2>2, <2>3 DEF TypeInv, ServerOK, TypeOK
<1> QED
  BY <1>1, <1>2, <1>3, PTL DEF Spec
=============================================================================
