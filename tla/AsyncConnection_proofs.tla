----------------------- MODULE AsyncConnection_proofs -----------------------
(***************************************************************************)
(* Proofs about AsyncConnection for every number of tasks, every loss of   *)
(* the connection and every interleaving: the type invariant, and that a   *)
(* task is only given answers to its own request as long as the handle     *)
(* that carried the request is in use.                                     *)
(***************************************************************************)
EXTENDS AsyncConnection, SequenceTheorems, TLAPS

(***************************************************************************)
(* The inductive invariant.  Ownership is a fact about the handle: what is *)
(* queued under a message id belongs to the operation the server was asked *)
(* for under that id, and ids that are still free were asked for by none.  *)
(***************************************************************************)
GoodHandle(g) ==
  /\ g \in Handles /\ g.epoch > 0
  /\ \A i \in Ids : \A k \in 1..Len(g.wire[i]) : g.wire[i][k].op = g.asked[i]
  /\ \A i \in Ids : \A k \in 1..Len(g.chain[i]) : g.chain[i][k].op = g.asked[i]
  /\ \A i \in Ids : i >= g.next => g.asked[i] = NoOp

\* An operation that has its message id on the handle in use shares it with no other.
GoodRequest(t) ==
  /\ pc[t] \in {"new", "sleeping"} =>
       attempts[t] >= 1 /\ msgid[t] = NoId /\ got[t] = <<>> /\ fut[t] = NoFuture
  /\ pc[t] \in {"waiting", "yielded"} => msgid[t] # NoId
  /\ born[t] <= h.epoch
  /\ born[t] = h.epoch =>
       msgid[t] \in Ids /\ msgid[t] < h.next /\ h.asked[msgid[t]] \in {t, NoOp}

GoodReaders == \A f \in FDs : reader[f] # NoOp => msgid[reader[f]] # NoId

Inv ==
  /\ TypeOK
  /\ GoodHandle(h)
  /\ \A t \in Ops : GoodRequest(t)
  /\ GoodReaders
  /\ OwnAnswers

(***************************************************************************)
(* What the handle's operators preserve.                                   *)
(***************************************************************************)
LEMMA HandleGood ==
  ASSUME NEW f \in FDs, NEW next \in Nat, NEW epoch \in Nat, epoch > 0, NEW object \in Nat
  PROVE  GoodHandle(Handle(f, next, epoch, object))
  BY DEF GoodHandle, Handle, Handles, NoMsgs, Msg

\* A request takes a free message id, under which nothing is queued.
LEMMA RequestedGood ==
  ASSUME NEW g, GoodHandle(g), NEW t \in Ops, g.next \in Ids
  PROVE  /\ GoodHandle(Requested(g, t))
         /\ Requested(g, t).next = g.next + 1 /\ Requested(g, t).epoch = g.epoch
         /\ Requested(g, t).asked[g.next] \in {t, NoOp}
         /\ \A i \in Ids : i # g.next => Requested(g, t).asked[i] = g.asked[i]
<1> DEFINE a == [g.asked EXCEPT ![g.next] = IF g.st = "up" THEN t ELSE NoOp]
<1>1. /\ g \in Handles /\ g.next \in Nat /\ g.next + 1 \in Nat /\ Ids \subseteq Nat
      /\ \A i \in Ids : i >= g.next => g.asked[i] = NoOp
  BY ConstantsAssumption DEF GoodHandle, Handles, Ids
<1>2. /\ a \in [Ids -> Ops \cup {NoOp}]
      /\ a[g.next] \in {t, NoOp}
      /\ \A i \in Ids : i # g.next => a[i] = g.asked[i]
  BY <1>1 DEF Handles
<1>3. Requested(g, t) = [g EXCEPT !.next = g.next + 1, !.asked = a]
  BY DEF Requested
<1> HIDE DEF a
<1>4. g.asked[g.next] = NoOp
  BY <1>1
<1>5. \A i \in Ids : g.wire[i] \in Seq(Msg) /\ g.chain[i] \in Seq(Msg)
  BY <1>1 DEF Handles
<1>6. Len(g.wire[g.next]) = 0 /\ Len(g.chain[g.next]) = 0
  <2>1. ASSUME NEW c \in Seq(Msg), \A k \in 1..Len(c) : c[k].op = NoOp
        PROVE  Len(c) = 0
    <3>1. \A m \in Msg : m.op # NoOp
      BY ConstantsAssumption DEF Msg
    <3>2. \A k \in 1..Len(c) : c[k] \in Msg
      BY <2>1
    <3>3. ~(1 \in 1..Len(c))
      BY <2>1, <3>1, <3>2
    <3>q. QED
      BY <2>1, <3>3
  <2>q. QED
    BY <1>4, <1>5, <2>1 DEF GoodHandle
<1>7. Requested(g, t) \in Handles
  BY <1>1, <1>2, <1>3 DEF Handles
<1>8. /\ Requested(g, t).wire = g.wire /\ Requested(g, t).chain = g.chain
      /\ Requested(g, t).epoch = g.epoch /\ Requested(g, t).next = g.next + 1
      /\ Requested(g, t).asked = a
  BY <1>1, <1>3 DEF Handles
<1>9. \A i \in Ids : i >= g.next + 1 => a[i] = NoOp
  BY <1>1, <1>2
<1>q. QED
  BY <1>2, <1>6, <1>7, <1>8, <1>9 DEF GoodHandle

\* Messages keep their id on the way from the socket into the chains.
LEMMA ReadOneGood ==
  ASSUME NEW g, GoodHandle(g), NEW i \in Ids, g.wire[i] # <<>>
  PROVE  /\ GoodHandle(ReadOne(g, i))
         /\ ReadOne(g, i).asked = g.asked /\ ReadOne(g, i).next = g.next
         /\ ReadOne(g, i).epoch = g.epoch /\ ReadOne(g, i).fd = g.fd
<1> DEFINE w == [g.wire EXCEPT ![i] = Tail(g.wire[i])]
           c == [g.chain EXCEPT ![i] = Append(g.chain[i], Head(g.wire[i]))]
<1>1. /\ g \in Handles
      /\ g.wire \in [Ids -> Seq(Msg)] /\ g.chain \in [Ids -> Seq(Msg)]
  BY DEF GoodHandle, Handles
<1>2. /\ Head(g.wire[i]) \in Msg /\ Head(g.wire[i]).op = g.asked[i]
      /\ Tail(g.wire[i]) \in Seq(Msg)
      /\ \A k \in 1..Len(Tail(g.wire[i])) : Tail(g.wire[i])[k].op = g.asked[i]
  BY <1>1 DEF GoodHandle
<1>3. Append(g.chain[i], Head(g.wire[i])) \in Seq(Msg)
  BY <1>1, <1>2
<1>4. \A k \in 1..Len(Append(g.chain[i], Head(g.wire[i]))) :
        Append(g.chain[i], Head(g.wire[i]))[k].op = g.asked[i]
  BY <1>1, <1>2 DEF GoodHandle
<1>5. w \in [Ids -> Seq(Msg)] /\ c \in [Ids -> Seq(Msg)]
  BY <1>1, <1>2, <1>3
<1>6. ReadOne(g, i) = [g EXCEPT !.wire = w, !.chain = c]
  BY <1>1 DEF ReadOne
<1>8. /\ \A j \in Ids : \A k \in 1..Len(w[j]) : w[j][k].op = g.asked[j]
      /\ \A j \in Ids : \A k \in 1..Len(c[j]) : c[j][k].op = g.asked[j]
  BY <1>1, <1>2, <1>4 DEF GoodHandle
<1> HIDE DEF w, c
<1>7. ReadOne(g, i) \in Handles
  BY <1>1, <1>5, <1>6 DEF Handles
<1>9. /\ ReadOne(g, i).wire = w /\ ReadOne(g, i).chain = c
      /\ ReadOne(g, i).asked = g.asked /\ ReadOne(g, i).next = g.next
      /\ ReadOne(g, i).epoch = g.epoch /\ ReadOne(g, i).fd = g.fd
  BY <1>1, <1>6 DEF Handles
<1>q. QED
  BY <1>7, <1>8, <1>9 DEF GoodHandle

\* A change of state alone, or one that drops what is in the socket, harms nothing.
LEMMA BrokenGood ==
  ASSUME NEW g, GoodHandle(g), NEW st \in {"up", "lost", "gone"}
  PROVE  GoodHandle([g EXCEPT !.st = st]) /\ GoodHandle([g EXCEPT !.st = st, !.wire = NoMsgs])
<1>1. g \in Handles
  BY DEF GoodHandle
<1>2. /\ NoMsgs \in [Ids -> Seq(Msg)]
      /\ \A i \in Ids : \A k \in 1..Len(NoMsgs[i]) : NoMsgs[i][k].op = g.asked[i]
  BY DEF NoMsgs
<1>3. [g EXCEPT !.st = st] \in Handles /\ [g EXCEPT !.st = st, !.wire = NoMsgs] \in Handles
  BY <1>1, <1>2 DEF Handles
<1>q. QED
  BY <1>1, <1>2, <1>3 DEF GoodHandle, Handles

\* What is taken from a chain was asked for under its id, and so is what is left of it.
LEMMA TakenGood ==
  ASSUME NEW t \in Ops, NEW c \in Seq(Msg), c # <<>>, NEW o, \A k \in 1..Len(c) : c[k].op = o
  PROVE  /\ Taken(t, c) \in Seq(Msg) /\ \A k \in 1..Len(Taken(t, c)) : Taken(t, c)[k].op = o
         /\ Taken(t, c) # <<>>
         /\ Left(t, c) \in Seq(Msg) /\ \A k \in 1..Len(Left(t, c)) : Left(t, c)[k].op = o
<1>1. /\ Head(c) \in Msg /\ Head(c).op = o
      /\ Tail(c) \in Seq(Msg) /\ \A k \in 1..Len(Tail(c)) : Tail(c)[k].op = o
  OBVIOUS
<1>2. CASE Kind[t] = "iterate"
  BY <1>1, <1>2 DEF Taken, Left
<1>3. CASE Kind[t] # "iterate"
  BY <1>3 DEF Taken, Left
<1>q. QED
  BY <1>2, <1>3

\* A chain may be replaced by one of messages to the same request.
LEMMA ChainGood ==
  ASSUME NEW g, GoodHandle(g), NEW i \in Ids, NEW c \in Seq(Msg),
         \A k \in 1..Len(c) : c[k].op = g.asked[i]
  PROVE  /\ GoodHandle([g EXCEPT !.chain = [g.chain EXCEPT ![i] = c]])
         /\ [g EXCEPT !.chain = [g.chain EXCEPT ![i] = c]].asked = g.asked
         /\ [g EXCEPT !.chain = [g.chain EXCEPT ![i] = c]].next = g.next
         /\ [g EXCEPT !.chain = [g.chain EXCEPT ![i] = c]].epoch = g.epoch
         /\ [g EXCEPT !.chain = [g.chain EXCEPT ![i] = c]].fd = g.fd
<1> DEFINE d == [g.chain EXCEPT ![i] = c]
<1>1. g \in Handles /\ g.chain \in [Ids -> Seq(Msg)]
  BY DEF GoodHandle, Handles
<1>2. d \in [Ids -> Seq(Msg)] /\ \A j \in Ids : \A k \in 1..Len(d[j]) : d[j][k].op = g.asked[j]
  BY <1>1 DEF GoodHandle
<1> HIDE DEF d
<1>3. [g EXCEPT !.chain = d] \in Handles
  BY <1>1, <1>2 DEF Handles
<1>4. GoodHandle([g EXCEPT !.chain = d])
  BY <1>1, <1>2, <1>3 DEF GoodHandle, Handles
<1>q. QED
  BY <1>1, <1>4 DEF d, Handles

\* The server answers under the id it was asked with.
LEMMA AnsweredGood ==
  ASSUME NEW g, GoodHandle(g), NEW i \in Ids, g.asked[i] # NoOp
  PROVE  /\ GoodHandle(Answered(g, i))
         /\ Answered(g, i).asked = g.asked /\ Answered(g, i).next = g.next
         /\ Answered(g, i).epoch = g.epoch
<1> DEFINE m == [op |-> g.asked[i], n |-> g.sent[i] + 1]
           w == [g.wire EXCEPT ![i] = Append(@, m)]
           n == [g.sent EXCEPT ![i] = @ + 1]
<1>1. /\ g \in Handles /\ g.wire \in [Ids -> Seq(Msg)] /\ g.sent \in [Ids -> Nat]
      /\ g.asked \in [Ids -> Ops \cup {NoOp}]
  BY DEF GoodHandle, Handles
<1>2. m \in Msg /\ m.op = g.asked[i]
  BY <1>1 DEF Msg
<1>3. n \in [Ids -> Nat]
  BY <1>1
<1>4. Answered(g, i) = [g EXCEPT !.sent = n, !.wire = w]
  BY DEF Answered
<1> HIDE DEF m, n
<1>5. w \in [Ids -> Seq(Msg)] /\ \A j \in Ids : \A k \in 1..Len(w[j]) : w[j][k].op = g.asked[j]
  <2>1. \A k \in 1..Len(g.wire[i]) : g.wire[i][k].op = g.asked[i]
    BY DEF GoodHandle
  <2>2. Append(g.wire[i], m) \in Seq(Msg)
    BY <1>1, <1>2
  <2>3. \A k \in 1..Len(Append(g.wire[i], m)) : Append(g.wire[i], m)[k].op = g.asked[i]
    BY <1>1, <1>2, <2>1
  <2>q. QED
    BY <1>1, <2>2, <2>3 DEF GoodHandle
<1> HIDE DEF w
<1>6. Answered(g, i) \in Handles
  BY <1>1, <1>3, <1>4, <1>5 DEF Handles
<1>7. /\ Answered(g, i).wire = w /\ Answered(g, i).chain = g.chain
      /\ Answered(g, i).asked = g.asked /\ Answered(g, i).next = g.next
      /\ Answered(g, i).epoch = g.epoch
  BY <1>1, <1>4 DEF Handles
<1>q. QED
  BY <1>1, <1>5, <1>6, <1>7 DEF GoodHandle

\* Messages to one request put after messages to the same.
LEMMA ConcatOwned ==
  ASSUME NEW c \in Seq(Msg), NEW d \in Seq(Msg), NEW o,
         \A k \in 1..Len(c) : c[k].op = o, \A k \in 1..Len(d) : d[k].op = o
  PROVE  c \o d \in Seq(Msg) /\ \A k \in 1..Len(c \o d) : (c \o d)[k].op = o
  OBVIOUS

\* The synchronous cancel of a closed iteration.
LEMMA CancelGood ==
  ASSUME NEW g, GoodHandle(g), NEW i \in Ids, NEW r \in CancelAnswered(g, i)
  PROVE  /\ GoodHandle(r)
         /\ r.asked = g.asked /\ r.next = g.next + 1 /\ r.epoch = g.epoch
<1> DEFINE d == Drained(g)
           c == [j \in Ids |-> g.chain[j] \o g.wire[j]]
<1>1. /\ g \in Handles /\ g.next + 1 \in Nat /\ g.next \in Nat /\ Ids \subseteq Nat
      /\ g.wire \in [Ids -> Seq(Msg)] /\ g.chain \in [Ids -> Seq(Msg)]
      /\ g.asked \in [Ids -> Ops \cup {NoOp}]
  BY ConstantsAssumption DEF GoodHandle, Handles, Ids
<1>2. /\ NoMsgs \in [Ids -> Seq(Msg)]
      /\ \A j \in Ids : \A k \in 1..Len(NoMsgs[j]) : NoMsgs[j][k].op = g.asked[j]
  BY DEF NoMsgs
<1>3. /\ c \in [Ids -> Seq(Msg)]
      /\ \A j \in Ids : \A k \in 1..Len(c[j]) : c[j][k].op = g.asked[j]
  <2>1. ASSUME NEW j \in Ids
        PROVE  /\ g.chain[j] \o g.wire[j] \in Seq(Msg)
               /\ \A k \in 1..Len(g.chain[j] \o g.wire[j]) :
                    (g.chain[j] \o g.wire[j])[k].op = g.asked[j]
    <3>1. /\ g.chain[j] \in Seq(Msg) /\ \A k \in 1..Len(g.chain[j]) : g.chain[j][k].op = g.asked[j]
          /\ g.wire[j] \in Seq(Msg) /\ \A k \in 1..Len(g.wire[j]) : g.wire[j][k].op = g.asked[j]
      BY <1>1 DEF GoodHandle
    <3>q. QED
      BY <3>1, ConcatOwned
  <2>q. QED
    BY <2>1
<1>4. d = [g EXCEPT !.next = g.next + 1, !.wire = NoMsgs, !.chain = c]
  BY DEF Drained
<1> HIDE DEF c, d
<1>5. d \in Handles
  BY <1>1, <1>2, <1>3, <1>4 DEF Handles
<1>6. /\ d.asked = g.asked /\ d.next = g.next + 1 /\ d.epoch = g.epoch
      /\ d.wire = NoMsgs /\ d.chain = c
  BY <1>1, <1>4 DEF Handles
<1>7. \A j \in Ids : j >= d.next => d.asked[j] = NoOp
  BY <1>1, <1>6 DEF GoodHandle
<1>8. GoodHandle(d)
  BY <1>2, <1>3, <1>5, <1>6, <1>7 DEF GoodHandle
<1>9. CASE r = d
  BY <1>6, <1>8, <1>9
<1>10. CASE r = Stopped(d, i) /\ Unfinished(g, i)
  <2> DEFINE m == [op |-> d.asked[i], n |-> 0]
             e == [d.chain EXCEPT ![i] = Append(@, m)]
             n == [d.sent EXCEPT ![i] = Len(Reply[d.asked[i]])]
  <2>1. d.asked[i] \in Ops
    BY <1>1, <1>6, <1>10 DEF Unfinished
  <2>2. m \in Msg /\ m.op = g.asked[i]
    BY <1>6, <2>1 DEF Msg
  <2>3. Len(Reply[d.asked[i]]) \in Nat
    BY <2>1, ConstantsAssumption
  <2>4. n \in [Ids -> Nat]
    BY <1>5, <2>3 DEF Handles
  <2>5. r = [d EXCEPT !.sent = n, !.chain = e]
    BY <1>10 DEF Stopped
  <2> HIDE DEF m, n
  <2>6. e \in [Ids -> Seq(Msg)] /\ \A j \in Ids : \A k \in 1..Len(e[j]) : e[j][k].op = g.asked[j]
    BY <1>3, <1>6, <2>2
  <2> HIDE DEF e
  <2>7. r \in Handles
    BY <1>5, <2>4, <2>5, <2>6 DEF Handles
  <2>8. /\ r.asked = d.asked /\ r.next = d.next /\ r.epoch = d.epoch /\ r.wire = d.wire
        /\ r.chain = e
    BY <1>5, <2>5 DEF Handles
  <2>q. QED
    BY <1>6, <1>8, <2>6, <2>7, <2>8 DEF GoodHandle
<1>q. QED
  BY <1>9, <1>10 DEF CancelAnswered, d

(***************************************************************************)
(* The invariant holds initially, and each action preserves it.            *)
(***************************************************************************)
LEMMA InitInv == Init => Inv
<1> SUFFICES ASSUME Init PROVE Inv
  OBVIOUS
<1>1. PICK f \in FDs : h = Handle(f, FirstId, 1, 1) /\ fd = [t \in Ops |-> f]
  BY ConstantsAssumption DEF Init
<1>2. GoodHandle(h)
  BY <1>1, HandleGood, ConstantsAssumption
<1>3. h.epoch = 1
  BY <1>1 DEF Handle
<1>4. TypeOK
  BY <1>1, <1>2, ConstantsAssumption DEF Init, TypeOK, GoodHandle, NoFuture, NoId,
     Futures, PCs
<1>5. \A t \in Ops : GoodRequest(t)
  BY <1>3, ConstantsAssumption DEF Init, GoodRequest, NoFuture
<1>6. GoodReaders
  BY DEF Init, GoodReaders
<1>7. OwnAnswers
  BY <1>3 DEF Init, OwnAnswers
<1>q. QED
  BY <1>2, <1>4, <1>5, <1>6, <1>7 DEF Inv

\* The number that stands for no id is no message id.
LEMMA NoIdIsNone == NoId \notin Ids
  BY ConstantsAssumption DEF NoId, Ids

\* A step that makes no request keeps the invariant if it is careful with what tasks are given.
LEMMA SameRequestsInv ==
  ASSUME Inv, TypeOK', GoodHandle(h'), UNCHANGED <<msgid, born>>,
         \/ h'.epoch = h.epoch /\ h'.next >= h.next /\ h'.asked = h.asked
         \/ h'.epoch > h.epoch,
         \A t \in Ops : pc'[t] \in {"new", "sleeping"} =>
            attempts'[t] >= 1 /\ msgid[t] = NoId /\ got'[t] = <<>> /\ fut'[t] = NoFuture,
         \A t \in Ops : pc'[t] \in {"waiting", "yielded"} => msgid[t] # NoId,
         \A f \in FDs : reader'[f] # NoOp => msgid[reader'[f]] # NoId,
         \A t \in Ops : born[t] = h.epoch =>
            /\ \A k \in 1..Len(fut'[t].val) : fut'[t].val[k].op = t
            /\ \A k \in 1..Len(got'[t]) : got'[t][k].op = t
  PROVE  Inv'
<1>1. /\ h.epoch \in Nat /\ h'.epoch \in Nat /\ h.next \in Nat /\ h'.next \in Nat
      /\ Ids \subseteq Nat
  BY DEF Inv, TypeOK, Handles, GoodHandle, Ids
<1>2. ASSUME NEW t \in Ops PROVE GoodRequest(t)'
  <2>1. born[t] \in Nat /\ born[t] <= h.epoch
    BY DEF Inv, GoodRequest, TypeOK
  <2>2. ASSUME born[t] = h'.epoch
        PROVE  msgid[t] \in Ids /\ msgid[t] < h'.next /\ h'.asked[msgid[t]] \in {t, NoOp}
    <3>1. h'.epoch = h.epoch /\ h'.next >= h.next /\ h'.asked = h.asked
      BY <1>1, <2>1, <2>2
    <3>2. msgid[t] \in Ids /\ msgid[t] < h.next /\ h.asked[msgid[t]] \in {t, NoOp}
      BY <2>2, <3>1 DEF Inv, GoodRequest
    <3>3. msgid[t] \in Nat
      BY <1>1, <3>2
    <3>q. QED
      BY <1>1, <3>1, <3>2, <3>3
  <2>3. born[t] <= h'.epoch
    BY <1>1, <2>1
  <2>q. QED
    BY <2>2, <2>3 DEF GoodRequest
<1>3. OwnAnswers'
  <2>1. SUFFICES ASSUME NEW t \in Ops, born[t] = h'.epoch
                 PROVE  /\ \A k \in 1..Len(fut'[t].val) : fut'[t].val[k].op = t
                        /\ \A k \in 1..Len(got'[t]) : got'[t][k].op = t
    BY DEF OwnAnswers
  <2>2. born[t] \in Nat /\ born[t] <= h.epoch
    BY DEF Inv, GoodRequest, TypeOK
  <2>3. born[t] = h.epoch
    BY <1>1, <2>1, <2>2
  <2>q. QED
    BY <2>3
<1>4. GoodReaders'
  BY DEF GoodReaders
<1>q. QED
  BY <1>2, <1>3, <1>4 DEF Inv

\* An attempt that is refused, or that needs no answer, on handle g.
LEMMA NoRequestInv ==
  ASSUME Inv, NEW t \in Ops, pc[t] \in {"new", "sleeping"},
         NEW g, GoodHandle(g), g = h \/ g.epoch = h.epoch + 1,
         h' = g \/ h' = [g EXCEPT !.st = "gone"],
         reader' \in [FDs -> Ops \cup {NoOp}], \A f \in FDs : reader'[f] \in {reader[f], NoOp},
         watched' \subseteq FDs,
         obj' \in [Ops -> Nat], unique' \subseteq Ops,
         UNCHANGED <<got, envVars, msgid, born, fut, fd>>,
         NEW p \in {"sleeping", "failed", "done"}, pc' = [pc EXCEPT ![t] = p],
         attempts' \in [Ops -> 0..MaxAttempts], p = "sleeping" => attempts'[t] >= 1,
         \A u \in Ops \ {t} : attempts'[u] = attempts[u]
  PROVE  Inv'
<1>1. TypeOK /\ h \in Handles /\ g \in Handles
  BY DEF Inv, TypeOK, GoodHandle
<1>2. GoodHandle(h')
  <2>1. GoodHandle([g EXCEPT !.st = "gone"])
    BY BrokenGood
  <2>q. QED
    BY <2>1
<1>3. h'.epoch = g.epoch /\ h'.next = g.next /\ h'.asked = g.asked
  BY <1>1 DEF Handles
<1>4. h.epoch \in Nat /\ h.next \in Nat
  BY <1>1 DEF Handles
<1>5. \/ h'.epoch = h.epoch /\ h'.next >= h.next /\ h'.asked = h.asked
      \/ h'.epoch > h.epoch
  BY <1>3, <1>4
<1>6. /\ pc' \in [Ops -> PCs] /\ \A u \in Ops \ {t} : pc'[u] = pc[u]
      /\ pc'[t] = p
  BY <1>1 DEF TypeOK, PCs
<1>7. TypeOK'
  BY <1>1, <1>2, <1>6 DEF TypeOK, GoodHandle, envVars
<1>8. \A u \in Ops : pc'[u] \in {"new", "sleeping"} =>
        attempts'[u] >= 1 /\ msgid[u] = NoId /\ got'[u] = <<>> /\ fut'[u] = NoFuture
  BY <1>6 DEF Inv, GoodRequest
<1>9. \A u \in Ops : pc'[u] \in {"waiting", "yielded"} => msgid[u] # NoId
  BY <1>6 DEF Inv, GoodRequest
<1>10. \A f \in FDs : reader'[f] # NoOp => msgid[reader'[f]] # NoId
  BY DEF Inv, GoodReaders
<1>11. \A u \in Ops : born[u] = h.epoch =>
         /\ \A k \in 1..Len(fut'[u].val) : fut'[u].val[k].op = u
         /\ \A k \in 1..Len(got'[u]) : got'[u][k].op = u
  BY DEF Inv, OwnAnswers
<1>q. QED
  BY <1>2, <1>5, <1>7, <1>8, <1>9, <1>10, <1>11, SameRequestsInv

\* ServerDown is raised on handle g.
LEMMA ServerDownInv ==
  ASSUME Inv, NEW t \in Ops, pc[t] \in {"new", "sleeping"},
         NEW g, GoodHandle(g), g = h \/ g.epoch = h.epoch + 1,
         NEW d, d = g \/ d = [g EXCEPT !.st = "gone"],
         NEW rs \in [FDs -> Ops \cup {NoOp}], \A f \in FDs : rs[f] \in {reader[f], NoOp},
         NEW ws, ws \subseteq FDs,
         ServerDown(t, d, rs, ws),
         obj' \in [Ops -> Nat], unique' \subseteq Ops, UNCHANGED <<got, envVars>>
  PROVE  Inv'
<1> DEFINE p == IF attempts[t] = 1 THEN "failed" ELSE "sleeping"
<1>1. /\ attempts[t] >= 1 /\ attempts[t] \in 0..MaxAttempts /\ MaxAttempts \in Nat
      /\ attempts \in [Ops -> 0..MaxAttempts]
  BY ConstantsAssumption DEF Inv, GoodRequest, TypeOK
<1>2. /\ attempts' = [attempts EXCEPT ![t] = @ - 1]
      /\ pc' = [pc EXCEPT ![t] = p]
      /\ h' = d /\ reader' = rs /\ watched' = ws /\ UNCHANGED <<msgid, born, fut, fd>>
  BY DEF ServerDown, LastAttempt
<1>3. /\ attempts' \in [Ops -> 0..MaxAttempts] /\ attempts'[t] = attempts[t] - 1
      /\ \A u \in Ops \ {t} : attempts'[u] = attempts[u]
  BY <1>1, <1>2
<1>4. p \in {"sleeping", "failed", "done"} /\ (p = "sleeping" => attempts'[t] >= 1)
  BY <1>1, <1>3
<1> HIDE DEF p
<1>5. h' = g \/ h' = [g EXCEPT !.st = "gone"]
  BY <1>2
<1>q. QED
  BY <1>2, <1>3, <1>4, <1>5, NoRequestInv

\* One attempt of _retry, on the handle as it is or on the one reconnect() made.
LEMMA AttemptInv ==
  ASSUME Inv, NEW t \in Ops, pc[t] \in {"new", "sleeping"},
         NEW g, GoodHandle(g), g = h \/ g.epoch = h.epoch + 1,
         NEW o, NEW rs \in [FDs -> Ops \cup {NoOp}], \A f \in FDs : rs[f] \in {reader[f], NoOp},
         NEW ws, ws \subseteq FDs,
         Attempt(t, g, o, rs, ws),
         obj' \in [Ops -> Nat], unique' \subseteq Ops, UNCHANGED <<got, envVars>>
  PROVE  Inv'
<1>1. TypeOK /\ h \in Handles /\ g \in Handles
  BY DEF Inv, TypeOK, GoodHandle
<1>2. /\ g.epoch \in Nat /\ h.epoch \in Nat /\ g.epoch >= h.epoch /\ g.epoch > 0
      /\ g.fd \in FDs /\ g.next \in Nat /\ g.st \in {"up", "lost", "gone"}
  BY <1>1 DEF Handles, GoodHandle
<1>3. Ids \subseteq Nat \ {0} /\ MaxAttempts \in Nat /\ NoOp \notin Ops
  BY ConstantsAssumption DEF Ids
<1>4. /\ attempts[t] >= 1 /\ attempts[t] \in 0..MaxAttempts
      /\ got[t] = <<>> /\ fut[t].val = <<>>
  BY <1>1 DEF Inv, GoodRequest, TypeOK, NoFuture
<1>5. \A u \in Ops :
        /\ born[u] \in Nat /\ born[u] <= g.epoch
        /\ born[u] = g.epoch =>
             g = h /\ msgid[u] \in Ids /\ msgid[u] < g.next /\ g.asked[msgid[u]] \in {u, NoOp}
  <2>1. SUFFICES ASSUME NEW u \in Ops
                 PROVE  /\ born[u] \in Nat /\ born[u] <= g.epoch
                        /\ born[u] = g.epoch =>
                             /\ g = h /\ msgid[u] \in Ids /\ msgid[u] < g.next
                             /\ g.asked[msgid[u]] \in {u, NoOp}
    OBVIOUS
  <2>2. born[u] \in Nat
    BY <1>1 DEF TypeOK
  <2>3. GoodRequest(u)
    BY DEF Inv
  <2>4. born[u] <= h.epoch /\ born[u] <= g.epoch
    BY <1>2, <2>2, <2>3 DEF GoodRequest
  <2>5. born[u] = g.epoch => g = h
    BY <1>2, <2>2, <2>4
  <2>q. QED
    BY <2>2, <2>3, <2>4, <2>5 DEF GoodRequest
<1>6. \A f \in FDs : rs[f] # NoOp => msgid[rs[f]] # NoId
  BY DEF Inv, GoodReaders
<1>7. CASE Accepted(t, g, o, rs, ws)
  <2>1. /\ h' = Requested(g, t) /\ g.next \in Ids /\ g.next # NoId
        /\ msgid' = [msgid EXCEPT ![t] = g.next] /\ born' = [born EXCEPT ![t] = g.epoch]
        /\ pc' = [pc EXCEPT ![t] = "waiting"] /\ fut' = [fut EXCEPT ![t] = Pending]
        /\ fd' = [fd EXCEPT ![t] = g.fd] /\ reader' = [rs EXCEPT ![g.fd] = t]
        /\ watched' \subseteq FDs /\ UNCHANGED <<attempts, got>>
    BY <1>2, <1>3, <1>7 DEF Accepted, StartPolling, AddReader, NoId
  <2>2. /\ GoodHandle(h')
        /\ h'.epoch = g.epoch /\ h'.next = g.next + 1
        /\ h'.asked[g.next] \in {t, NoOp}
        /\ \A i \in Ids : i # g.next => h'.asked[i] = g.asked[i]
    BY <2>1, RequestedGood
  <2>3. Pending \in Futures /\ Pending.val = <<>>
    BY DEF Pending, Futures
  <2>4. TypeOK'
    <3>1. pc' \in [Ops -> PCs] /\ unique' \subseteq Ops /\ attempts' \in [Ops -> 0..MaxAttempts]
      BY <1>1, <2>1 DEF TypeOK, PCs
    <3>2. msgid' \in [Ops -> Ids \cup {NoId}] /\ born' \in [Ops -> Nat] /\ fd' \in [Ops -> FDs]
      BY <1>1, <1>2, <2>1 DEF TypeOK
    <3>3. fut' \in [Ops -> Futures] /\ reader' \in [FDs -> Ops \cup {NoOp}] /\ h' \in Handles
      BY <1>1, <1>2, <2>1, <2>2, <2>3 DEF TypeOK, GoodHandle
    <3>q. QED
      BY <1>1, <2>1, <3>1, <3>2, <3>3 DEF TypeOK, envVars
  <2>5. ASSUME NEW u \in Ops PROVE GoodRequest(u)'
    <3>1. CASE u = t
      BY <1>1, <1>2, <2>1, <2>2, <3>1 DEF GoodRequest, TypeOK
    <3>2. CASE u # t
      <4>1. /\ pc'[u] = pc[u] /\ attempts'[u] = attempts[u] /\ got'[u] = got[u]
            /\ fut'[u] = fut[u] /\ msgid'[u] = msgid[u] /\ born'[u] = born[u]
        BY <1>1, <2>1, <3>2 DEF TypeOK
      <4>2. born[u] = g.epoch => msgid[u] < g.next + 1 /\ h'.asked[msgid[u]] \in {u, NoOp}
        <5>1. SUFFICES ASSUME born[u] = g.epoch
                       PROVE  msgid[u] < g.next + 1 /\ h'.asked[msgid[u]] \in {u, NoOp}
          OBVIOUS
        <5>2. msgid[u] \in Ids /\ msgid[u] < g.next /\ g.asked[msgid[u]] \in {u, NoOp}
          BY <1>5, <5>1
        <5>3. msgid[u] \in Nat
          BY <1>3, <5>2
        <5>4. msgid[u] # g.next /\ msgid[u] < g.next + 1
          BY <1>2, <5>2, <5>3
        <5>q. QED
          BY <2>2, <5>2, <5>4
      <4>q. QED
        BY <1>5, <2>2, <4>1, <4>2 DEF Inv, GoodRequest
    <3>q. QED
      BY <3>1, <3>2
  <2>6. GoodReaders'
    BY <1>1, <1>2, <1>3, <1>6, <2>1 DEF GoodReaders, TypeOK
  <2>7. OwnAnswers'
    <3>1. \A u \in Ops \ {t} : /\ fut'[u] = fut[u] /\ got'[u] = got[u] /\ born'[u] = born[u]
      BY <1>1, <2>1 DEF TypeOK
    <3>2. fut'[t].val = <<>> /\ got'[t] = <<>>
      BY <1>1, <1>4, <2>1, <2>3 DEF TypeOK
    <3>q. QED
      BY <1>5, <2>2, <3>1, <3>2 DEF Inv, OwnAnswers
  <2>q. QED
    BY <2>2, <2>4, <2>5, <2>6, <2>7 DEF Inv
<1>8. CASE Unbound(t, g, o, rs, ws)
  <2>1. /\ pc' = [pc EXCEPT ![t] = "done"] /\ reader' = rs /\ watched' \subseteq FDs
        /\ UNCHANGED <<attempts, msgid, born, fut, fd>>
        /\ h' = g \/ h' = [g EXCEPT !.st = "gone"]
    BY <1>8 DEF Unbound
  <2>2. attempts' \in [Ops -> 0..MaxAttempts] /\ \A u \in Ops \ {t} : attempts'[u] = attempts[u]
    BY <1>1, <2>1 DEF TypeOK
  <2>q. QED
    BY <2>1, <2>2, NoRequestInv
<1>9. CASE Refused(t, g, o, rs, ws)
  <2>1. ServerDown(t, g, rs, ws)
    BY <1>9 DEF Refused
  <2>q. QED
    BY <2>1, ServerDownInv
<1>10. CASE NoHandle(t, g, o, rs, ws)
  <2>1. /\ pc' = [pc EXCEPT ![t] = "failed"] /\ reader' = rs /\ watched' \subseteq FDs /\ h' = g
        /\ UNCHANGED <<attempts, msgid, born, fut, fd>>
    BY <1>10 DEF NoHandle
  <2>2. attempts' \in [Ops -> 0..MaxAttempts] /\ \A u \in Ops \ {t} : attempts'[u] = attempts[u]
    BY <1>1, <2>1 DEF TypeOK
  <2>q. QED
    BY <2>1, <2>2, NoRequestInv
<1>q. QED
  BY <1>7, <1>8, <1>9, <1>10 DEF Attempt

\* The first attempt of an operation.
LEMMA CallInv ==
  ASSUME Inv, NEW t \in Ops, Call(t)
  PROVE  Inv'
<1>1. TypeOK /\ GoodHandle(h)
  BY DEF Inv
<1>2. h.obj \in Nat /\ reader \in [FDs -> Ops \cup {NoOp}] /\ watched \subseteq FDs
  BY <1>1 DEF TypeOK, Handles
<1>3. obj' \in [Ops -> Nat] /\ unique' \subseteq Ops
  BY <1>1, <1>2 DEF Call, TypeOK
<1>4. Attempt(t, h, h.obj, reader, watched) /\ pc[t] = "new" /\ UNCHANGED <<got, envVars>>
  BY DEF Call
<1>q. QED
  BY <1>1, <1>2, <1>3, <1>4, AttemptInv

\* The attempts after it, with a handle that reconnect() made or without one.
LEMMA RetryInv ==
  ASSUME Inv, NEW t \in Ops, Retry(t)
  PROVE  Inv'
<1> DEFINE rs == ReadersAtReconnect
           ws == watched \ {h.fd}
<1>1. TypeOK /\ GoodHandle(h) /\ h \in Handles
  BY DEF Inv, GoodHandle
<1>2. /\ rs \in [FDs -> Ops \cup {NoOp}] /\ \A f \in FDs : rs[f] \in {reader[f], NoOp}
      /\ ws \subseteq FDs
  BY <1>1 DEF ReadersAtReconnect, TypeOK, Handles
<1>3. /\ obj' \in [Ops -> Nat] /\ unique' \subseteq Ops /\ UNCHANGED <<got, envVars>>
      /\ pc[t] \in {"new", "sleeping"}
  BY <1>1 DEF Retry, TypeOK
<1> HIDE DEF rs, ws
<1>4. CASE \E f \in FDs : Attempt(t, Reopened(h, f), obj[t], rs, ws)
  <2>1. PICK f \in FDs : Attempt(t, Reopened(h, f), obj[t], rs, ws)
    BY <1>4
  <2>2. /\ h.epoch \in Nat /\ h.epoch + 1 \in Nat /\ h.epoch + 1 > 0 /\ h.obj \in Nat
        /\ ReconnectId \in Nat
    BY <1>1, ConstantsAssumption DEF Handles
  <2>3. GoodHandle(Reopened(h, f)) /\ Reopened(h, f).epoch = h.epoch + 1
    <3>1. GoodHandle(Handle(f, ReconnectId, h.epoch + 1, h.obj))
      BY <2>2, HandleGood
    <3>q. QED
      BY <3>1 DEF Reopened, Handle
  <2>q. QED
    BY <1>2, <1>3, <2>1, <2>3, AttemptInv
<1>5. CASE ServerDown(t, [h EXCEPT !.st = "gone"], rs, ws)
  BY <1>1, <1>2, <1>3, <1>5, ServerDownInv
<1>q. QED
  BY <1>4, <1>5 DEF Retry, rs, ws

\* A reader reads what libldap has for its own message id, and gives it to its own future.
LEMMA ReadyInv ==
  ASSUME Inv, NEW t \in Ops, Ready(t)
  PROVE  Inv'
<1>1. /\ TypeOK /\ GoodHandle(h) /\ h \in Handles /\ h.fd \in FDs
      /\ h.wire \in [Ids -> Seq(Msg)]
  BY DEF Inv, GoodHandle, Handles
<1>2. NoOp \notin Ops
  BY ConstantsAssumption
<1>3. reader[h.fd] = t /\ msgid[t] \in Ids
  BY <1>1, <1>2 DEF Ready, Inv, GoodReaders, TypeOK
<1>4. PICK g \in Polled(t, msgid[t]) :
        LET c == g.chain[msgid[t]]
            alive == fut[t].st = "pending"
        IN \/ /\ Complete(t, c)
              /\ h' = [g EXCEPT !.chain = [g.chain EXCEPT ![msgid[t]] = Left(t, c)]]
              /\ IF alive
                 THEN /\ IF Type(Taken(t, c)[Len(Taken(t, c))]) = "cancelled"
                         THEN Settle(t, "error", <<>>)
                         ELSE Settle(t, "result", Taken(t, c))
                      /\ RemoveReader(h.fd)
                 ELSE UNCHANGED <<fut, loopVars>>
           \/ /\ ~Complete(t, c) /\ InSocket(h) # {}
              /\ h' = g
              /\ UNCHANGED <<fut, loopVars>>
           \/ /\ ~Complete(t, c) /\ InSocket(h) = {}
              /\ alive
              /\ Settle(t, "error", <<>>)
              /\ RemoveReader(h.fd)
              /\ UNCHANGED h
  BY DEF Ready, Asked
<1>5. GoodHandle(g) /\ g.asked = h.asked /\ g.next = h.next /\ g.epoch = h.epoch
  <2>1. CASE g = h
    BY <1>1, <2>1
  <2>2. CASE \E i \in InSocket(h) : g = ReadOne(h, i)
    <3>1. PICK i \in Ids : h.wire[i] # <<>> /\ g = ReadOne(h, i)
      BY <2>2 DEF InSocket
    <3>q. QED
      BY <1>1, <3>1, ReadOneGood
  <2>q. QED
    BY <2>1, <2>2 DEF Polled
<1> DEFINE c == g.chain[msgid[t]]
<1>6. c \in Seq(Msg) /\ \A k \in 1..Len(c) : c[k].op = h.asked[msgid[t]]
  BY <1>3, <1>5 DEF GoodHandle, Handles
<1>7. UNCHANGED <<pc, unique, attempts, msgid, born, obj, fd, got, envVars>>
  BY DEF Ready
<1>8. born[t] = h.epoch => h.asked[msgid[t]] \in {t, NoOp}
  BY DEF Inv, GoodRequest
<1> HIDE DEF c
<1>9. /\ GoodHandle(h') /\ h'.epoch = h.epoch /\ h'.next = h.next /\ h'.asked = h.asked
  <2>1. CASE Complete(t, c) /\ h' = [g EXCEPT !.chain = [g.chain EXCEPT ![msgid[t]] = Left(t, c)]]
    <3> DEFINE l == Left(t, c)
    <3>1. c # <<>>
      BY <2>1 DEF Complete
    <3>2. l \in Seq(Msg) /\ \A k \in 1..Len(l) : l[k].op = h.asked[msgid[t]]
      BY <1>6, <3>1, TakenGood
    <3> HIDE DEF l
    <3>3. \A k \in 1..Len(l) : l[k].op = g.asked[msgid[t]]
      BY <1>5, <3>2
    <3> DEFINE r == [g EXCEPT !.chain = [g.chain EXCEPT ![msgid[t]] = l]]
    <3>4. GoodHandle(r) /\ r.asked = g.asked /\ r.next = g.next /\ r.epoch = g.epoch
      BY <1>3, <1>5, <3>2, <3>3, ChainGood
    <3>5. h' = r
      BY <2>1 DEF l
    <3> HIDE DEF r
    <3>q. QED
      BY <1>5, <3>4, <3>5
  <2>2. CASE h' = g
    BY <1>5, <2>2
  <2>3. CASE h' = h
    BY <1>1, <2>3
  <2>q. QED
    BY <1>4, <2>1, <2>2, <2>3 DEF c
<1>10. /\ fut' \in [Ops -> Futures]
       /\ \A u \in Ops \ {t} : fut'[u] = fut[u]
       /\ \/ fut'[t].val \in {fut[t].val, <<>>}
          \/ /\ fut[t].st = "pending" /\ Complete(t, c)
             /\ fut'[t].val = Taken(t, c)
  <2>1. CASE fut' = fut
    BY <1>1, <2>1 DEF TypeOK
  <2>2. CASE Settle(t, "error", <<>>)
    <3>1. [st |-> "error", val |-> <<>>] \in Futures
      BY DEF Futures
    <3>q. QED
      BY <1>1, <2>2, <3>1 DEF TypeOK, Settle
  <2>3. CASE Complete(t, c) /\ fut[t].st = "pending" /\ Settle(t, "result", Taken(t, c))
    <3>1. Taken(t, c) \in Seq(Msg)
      BY <1>6, <2>3, TakenGood DEF Complete
    <3>2. [st |-> "result", val |-> Taken(t, c)] \in Futures
      BY <3>1 DEF Futures
    <3>q. QED
      BY <1>1, <2>3, <3>2 DEF TypeOK, Settle
  <2>q. QED
    BY <1>4, <2>1, <2>2, <2>3 DEF c
<1>11. /\ reader' \in [FDs -> Ops \cup {NoOp}] /\ watched' \subseteq FDs
       /\ \A f \in FDs : reader'[f] \in {reader[f], NoOp}
  BY <1>1, <1>4 DEF TypeOK, RemoveReader, loopVars
<1>12. TypeOK'
  BY <1>1, <1>7, <1>9, <1>10, <1>11 DEF TypeOK, GoodHandle, envVars
<1>13. born[t] = h.epoch => \A k \in 1..Len(fut'[t].val) : fut'[t].val[k].op = t
  <2>1. SUFFICES ASSUME born[t] = h.epoch
                 PROVE  \A k \in 1..Len(fut'[t].val) : fut'[t].val[k].op = t
    OBVIOUS
  <2>2. CASE fut'[t].val \in {fut[t].val, <<>>}
    BY <2>1, <2>2 DEF Inv, OwnAnswers
  <2>3. CASE Complete(t, c) /\ fut'[t].val = Taken(t, c)
    <3>1. \A m \in Msg : m.op # NoOp
      BY <1>2 DEF Msg
    <3>2. /\ Taken(t, c) \in Seq(Msg)
          /\ \A k \in 1..Len(Taken(t, c)) : Taken(t, c)[k].op = h.asked[msgid[t]]
      BY <1>6, <2>3, TakenGood DEF Complete
    <3>3. \A k \in 1..Len(Taken(t, c)) : Taken(t, c)[k] \in Msg
      BY <3>2
    <3>q. QED
      BY <1>8, <2>1, <2>3, <3>1, <3>2, <3>3
  <2>q. QED
    BY <1>10, <2>2, <2>3
<1>14. \A u \in Ops : born[u] = h.epoch =>
         /\ \A k \in 1..Len(fut'[u].val) : fut'[u].val[k].op = u
         /\ \A k \in 1..Len(got'[u]) : got'[u][k].op = u
  BY <1>7, <1>10, <1>13 DEF Inv, OwnAnswers
<1>15. \A u \in Ops : pc'[u] \in {"new", "sleeping"} =>
         attempts'[u] >= 1 /\ msgid[u] = NoId /\ got'[u] = <<>> /\ fut'[u] = NoFuture
  <2>1. pc[t] \notin {"new", "sleeping"}
    BY <1>3, NoIdIsNone DEF Inv, GoodRequest
  <2>q. QED
    BY <1>7, <1>10, <2>1 DEF Inv, GoodRequest
<1>16. /\ \A u \in Ops : pc'[u] \in {"waiting", "yielded"} => msgid[u] # NoId
       /\ \A f \in FDs : reader'[f] # NoOp => msgid[reader'[f]] # NoId
  BY <1>7, <1>11 DEF Inv, GoodRequest, GoodReaders
<1>17. h'.next >= h.next
  BY <1>1, <1>9 DEF Handles
<1>q. QED
  BY <1>7, <1>9, <1>12, <1>14, <1>15, <1>16, <1>17, SameRequestsInv

\* Steps of a task that leave the handle, its message ids and its responses alone.
LEMMA QuietInv ==
  ASSUME Inv, NEW t \in Ops, pc[t] \notin {"new", "sleeping"} \/ pc'[t] \notin {"new", "sleeping"},
         UNCHANGED <<unique, attempts, msgid, born, obj, got, h, envVars>>,
         pc' \in [Ops -> PCs], \A u \in Ops \ {t} : pc'[u] = pc[u],
         pc'[t] \in {"waiting", "yielded"} => msgid[t] # NoId,
         pc'[t] \in {"new", "sleeping"} => pc'[t] = pc[t],
         fd' \in [Ops -> FDs],
         fut' \in [Ops -> Futures], \A u \in Ops \ {t} : fut'[u] = fut[u],
         fut'[t].val \in {fut[t].val, <<>>},
         reader' \in [FDs -> Ops \cup {NoOp}], watched' \subseteq FDs,
         \A f \in FDs : reader'[f] # NoOp => msgid[reader'[f]] # NoId
  PROVE  Inv'
<1>1. TypeOK /\ GoodHandle(h) /\ h.next \in Nat
  BY DEF Inv, GoodHandle, Handles
<1>2. TypeOK'
  BY <1>1 DEF TypeOK, envVars
<1>3. GoodHandle(h') /\ h'.epoch = h.epoch /\ h'.next >= h.next /\ h'.asked = h.asked
  BY <1>1
<1>4. ASSUME NEW u \in Ops, pc'[u] \in {"new", "sleeping"}
      PROVE  attempts'[u] >= 1 /\ msgid[u] = NoId /\ got'[u] = <<>> /\ fut'[u] = NoFuture
  <2>1. u # t
    BY <1>4
  <2>q. QED
    BY <1>4, <2>1 DEF Inv, GoodRequest
<1>5. \A u \in Ops : pc'[u] \in {"waiting", "yielded"} => msgid[u] # NoId
  BY DEF Inv, GoodRequest
<1>6. \A u \in Ops : born[u] = h.epoch =>
         /\ \A k \in 1..Len(fut'[u].val) : fut'[u].val[k].op = u
         /\ \A k \in 1..Len(got'[u]) : got'[u][k].op = u
  BY DEF Inv, OwnAnswers
<1>q. QED
  BY <1>2, <1>3, <1>4, <1>5, <1>6, SameRequestsInv

\* What the caller is given comes from the task's own future.
LEMMA ResumeGivenInv ==
  ASSUME Inv, NEW t \in Ops, Resume(t), ~Unreadable(fut[t].val)
  PROVE  Inv'
<1>1. TypeOK /\ GoodHandle(h) /\ h.next \in Nat
  BY DEF Inv, GoodHandle, Handles
<1>2. /\ pc[t] = "waiting" /\ got' = [got EXCEPT ![t] = @ \o fut[t].val]
      /\ fut' = [fut EXCEPT ![t] = NoFuture]
      /\ UNCHANGED <<unique, attempts, msgid, born, obj, fd, h, loopVars, envVars>>
  BY DEF Resume
<1>3. /\ pc' \in [Ops -> PCs] /\ pc'[t] \in {"failed", "yielded", "done"}
      /\ \A u \in Ops \ {t} : pc'[u] = pc[u]
  <2>1. \E p \in {"failed", "yielded", "done"} : pc' = [pc EXCEPT ![t] = p]
    BY DEF Resume
  <2>q. QED
    BY <1>1, <2>1 DEF TypeOK, PCs
<1>4. /\ fut' \in [Ops -> Futures] /\ fut'[t].val = <<>>
      /\ \A u \in Ops \ {t} : fut'[u] = fut[u]
  BY <1>1, <1>2 DEF TypeOK, NoFuture, Futures
<1>5. got[t] \in Seq(Msg) /\ fut[t].val \in Seq(Msg)
  BY <1>1 DEF TypeOK, Futures
<1>6. /\ got' \in [Ops -> Seq(Msg)] /\ got'[t] = got[t] \o fut[t].val
      /\ \A u \in Ops \ {t} : got'[u] = got[u]
  BY <1>1, <1>2, <1>5 DEF TypeOK
<1>7. TypeOK'
  BY <1>1, <1>2, <1>3, <1>4, <1>6 DEF TypeOK, envVars, loopVars
<1>8. born[t] = h.epoch => \A k \in 1..Len(got'[t]) : got'[t][k].op = t
  <2>1. SUFFICES ASSUME born[t] = h.epoch
                 PROVE  \A k \in 1..Len(got'[t]) : got'[t][k].op = t
    OBVIOUS
  <2>2. /\ \A k \in 1..Len(fut[t].val) : fut[t].val[k].op = t
        /\ \A k \in 1..Len(got[t]) : got[t][k].op = t
    BY <2>1 DEF Inv, OwnAnswers
  <2>3. \A k \in 1..Len(got[t] \o fut[t].val) : (got[t] \o fut[t].val)[k].op = t
    BY <1>5, <2>2, ConcatOwned
  <2>q. QED
    BY <1>6, <2>3
<1>9. \A u \in Ops : born[u] = h.epoch =>
        /\ \A k \in 1..Len(fut'[u].val) : fut'[u].val[k].op = u
        /\ \A k \in 1..Len(got'[u]) : got'[u][k].op = u
  <2>1. \A u \in Ops \ {t} : born[u] = h.epoch =>
          /\ \A k \in 1..Len(fut'[u].val) : fut'[u].val[k].op = u
          /\ \A k \in 1..Len(got'[u]) : got'[u][k].op = u
    <3>1. \A u \in Ops \ {t} : fut'[u] = fut[u] /\ got'[u] = got[u]
      BY <1>4, <1>6
    <3>2. OwnAnswers
      BY DEF Inv
    <3>q. QED
      BY <3>1, <3>2 DEF OwnAnswers
  <2>2. \A k \in 1..Len(fut'[t].val) : fut'[t].val[k].op = t
    BY <1>4
  <2>q. QED
    BY <1>8, <2>1, <2>2
<1>10. \A u \in Ops : pc'[u] \in {"new", "sleeping"} =>
         attempts'[u] >= 1 /\ msgid[u] = NoId /\ got'[u] = <<>> /\ fut'[u] = NoFuture
  BY <1>2, <1>3, <1>4, <1>6 DEF Inv, GoodRequest
<1>11. \A u \in Ops : pc'[u] \in {"waiting", "yielded"} => msgid[u] # NoId
  BY <1>2, <1>3 DEF Inv, GoodRequest
<1>12. \A f \in FDs : reader'[f] # NoOp => msgid[reader'[f]] # NoId
  BY <1>2 DEF Inv, GoodReaders, loopVars
<1>13. /\ GoodHandle(h') /\ h'.epoch = h.epoch /\ h'.next >= h.next /\ h'.asked = h.asked
       /\ UNCHANGED <<msgid, born>>
  BY <1>1, <1>2
<1>q. QED
  BY <1>7, <1>9, <1>10, <1>11, <1>12, <1>13, SameRequestsInv

\* A response that no Result can be made of is given to nobody.
LEMMA ResumeInv ==
  ASSUME Inv, NEW t \in Ops, Resume(t)
  PROVE  Inv'
<1>1. CASE ~Unreadable(fut[t].val)
  BY <1>1, ResumeGivenInv
<1>2. CASE Unreadable(fut[t].val)
  <2>1. TypeOK
    BY DEF Inv
  <2>2. /\ pc' = [pc EXCEPT ![t] = "failed"] /\ fut' = [fut EXCEPT ![t] = NoFuture]
        /\ UNCHANGED <<unique, attempts, msgid, born, obj, fd, got, h, loopVars, envVars>>
    BY <1>2 DEF Resume
  <2>3. /\ pc' \in [Ops -> PCs] /\ pc'[t] = "failed" /\ \A u \in Ops \ {t} : pc'[u] = pc[u]
    BY <2>1, <2>2 DEF TypeOK, PCs
  <2>4. /\ fut' \in [Ops -> Futures] /\ fut'[t].val = <<>>
        /\ \A u \in Ops \ {t} : fut'[u] = fut[u]
    BY <2>1, <2>2 DEF TypeOK, NoFuture, Futures
  <2>5. /\ reader' \in [FDs -> Ops \cup {NoOp}] /\ watched' \subseteq FDs /\ fd' \in [Ops -> FDs]
        /\ \A f \in FDs : reader'[f] # NoOp => msgid[reader'[f]] # NoId
    BY <2>1, <2>2 DEF TypeOK, Inv, GoodReaders, loopVars
  <2> QED
    BY <2>2, <2>3, <2>4, <2>5, QuietInv
<1> QED
  BY <1>1, <1>2

\* An exception ends the wait, and the reader goes with it.
LEMMA RaiseInv ==
  ASSUME Inv, NEW t \in Ops, Raise(t)
  PROVE  Inv'
<1>1. TypeOK
  BY DEF Inv
<1>2. /\ pc' = [pc EXCEPT ![t] = "failed"] /\ fut' = [fut EXCEPT ![t] = NoFuture]
      /\ reader' = [reader EXCEPT ![fd[t]] = NoOp] /\ watched' = watched \ {fd[t]}
      /\ UNCHANGED <<unique, attempts, msgid, born, obj, fd, got, h, envVars>>
  BY DEF Raise, RemoveReader
<1>3. /\ pc' \in [Ops -> PCs] /\ pc'[t] = "failed" /\ \A u \in Ops \ {t} : pc'[u] = pc[u]
  BY <1>1, <1>2 DEF TypeOK, PCs
<1>4. /\ fut' \in [Ops -> Futures] /\ fut'[t].val = <<>>
      /\ \A u \in Ops \ {t} : fut'[u] = fut[u]
  BY <1>1, <1>2 DEF TypeOK, NoFuture, Futures
<1>5. /\ reader' \in [FDs -> Ops \cup {NoOp}] /\ watched' \subseteq FDs /\ fd' \in [Ops -> FDs]
      /\ \A f \in FDs : reader'[f] # NoOp => msgid[reader'[f]] # NoId
  BY <1>1, <1>2 DEF TypeOK, Inv, GoodReaders
<1>q. QED
  BY <1>2, <1>3, <1>4, <1>5, QuietInv

\* wait_for's timer, or the task's own cancellation, throws away at most what the future holds.
LEMMA CancelledInv ==
  ASSUME Inv, NEW t \in Ops, TimerFires(t) \/ CancelTask(t)
  PROVE  Inv'
<1>1. TypeOK
  BY DEF Inv
<1>2. UNCHANGED <<unique, attempts, msgid, born, obj, fd, got, h, loopVars, envVars>>
  BY DEF TimerFires, CancelTask
<1>3. /\ pc' \in [Ops -> PCs] /\ pc'[t] \in {"waiting", "cancelled"}
      /\ pc'[t] = "waiting" => pc[t] = "waiting"
      /\ \A u \in Ops \ {t} : pc'[u] = pc[u]
  BY <1>1 DEF TypeOK, PCs, TimerFires, CancelTask
<1>4. /\ fut' \in [Ops -> Futures] /\ fut'[t].val \in {fut[t].val, <<>>}
      /\ \A u \in Ops \ {t} : fut'[u] = fut[u]
  <2>1. CASE fut' = fut
    BY <1>1, <2>1 DEF TypeOK
  <2>2. CASE Settle(t, "cancelled", <<>>)
    <3>1. [st |-> "cancelled", val |-> <<>>] \in Futures
      BY DEF Futures
    <3>q. QED
      BY <1>1, <2>2, <3>1 DEF TypeOK, Settle
  <2>q. QED
    BY <2>1, <2>2 DEF TimerFires, CancelTask
<1>5. /\ reader' \in [FDs -> Ops \cup {NoOp}] /\ watched' \subseteq FDs /\ fd' \in [Ops -> FDs]
      /\ \A f \in FDs : reader'[f] # NoOp => msgid[reader'[f]] # NoId
  BY <1>1, <1>2 DEF TypeOK, Inv, GoodReaders, loopVars
<1>6. pc'[t] \in {"waiting", "yielded"} => msgid[t] # NoId
  BY <1>3 DEF Inv, GoodRequest
<1>q. QED
  BY <1>2, <1>3, <1>4, <1>5, <1>6, QuietInv

\* A consumer asks for more: its iteration is read for anew, has ended or has no handle.
LEMMA AnextInv ==
  ASSUME Inv, NEW t \in Ops, Anext(t)
  PROVE  Inv'
<1>1. TypeOK /\ h.fd \in FDs
  BY DEF Inv, TypeOK, Handles
<1>2. pc[t] = "yielded" /\ UNCHANGED <<unique, attempts, msgid, born, obj, got, h, envVars>>
  BY DEF Anext
<1>3. msgid[t] # NoId
  BY <1>2 DEF Inv, GoodRequest
<1>4. CASE StartPolling(t, h.fd, reader, watched)
  <2>1. /\ pc' = [pc EXCEPT ![t] = "waiting"] /\ fut' = [fut EXCEPT ![t] = Pending]
        /\ fd' = [fd EXCEPT ![t] = h.fd] /\ reader' = [reader EXCEPT ![h.fd] = t]
        /\ watched' \in {watched, watched \cup {h.fd}}
    BY <1>4 DEF StartPolling, AddReader
  <2>2. /\ pc' \in [Ops -> PCs] /\ pc'[t] = "waiting" /\ \A u \in Ops \ {t} : pc'[u] = pc[u]
    BY <1>1, <2>1 DEF TypeOK, PCs
  <2>3. /\ fut' \in [Ops -> Futures] /\ fut'[t].val = <<>>
        /\ \A u \in Ops \ {t} : fut'[u] = fut[u]
    BY <1>1, <2>1 DEF TypeOK, Pending, Futures
  <2>4. /\ reader' \in [FDs -> Ops \cup {NoOp}] /\ watched' \subseteq FDs /\ fd' \in [Ops -> FDs]
        /\ \A f \in FDs : reader'[f] # NoOp => msgid[reader'[f]] # NoId
    BY <1>1, <1>3, <2>1 DEF TypeOK, Inv, GoodReaders
  <2>q. QED
    BY <1>2, <1>3, <2>2, <2>3, <2>4, QuietInv
<1>5. CASE /\ pc' = [pc EXCEPT ![t] = "done"] \/ pc' = [pc EXCEPT ![t] = "failed"]
           /\ UNCHANGED <<fut, fd, loopVars>>
  <2>1. /\ pc' \in [Ops -> PCs] /\ pc'[t] \in {"done", "failed"}
        /\ \A u \in Ops \ {t} : pc'[u] = pc[u]
    BY <1>1, <1>5 DEF TypeOK, PCs
  <2>2. /\ reader' \in [FDs -> Ops \cup {NoOp}] /\ watched' \subseteq FDs /\ fd' \in [Ops -> FDs]
        /\ fut' \in [Ops -> Futures] /\ fut' = fut
        /\ \A f \in FDs : reader'[f] # NoOp => msgid[reader'[f]] # NoId
    BY <1>1, <1>5 DEF TypeOK, Inv, GoodReaders, loopVars
  <2>q. QED
    BY <1>2, <1>3, <2>1, <2>2, QuietInv
<1>q. QED
  BY <1>4, <1>5 DEF Anext

\* A step of the connection or the server that leaves all tasks and readers alone.
LEMMA HandleInv ==
  ASSUME Inv, UNCHANGED opVars, GoodHandle(h'),
         \/ h'.epoch = h.epoch /\ h'.next >= h.next /\ h'.asked = h.asked
         \/ h'.epoch > h.epoch,
         UNCHANGED loopVars, reachable' \in BOOLEAN, losses' \in Nat, connects' \in Nat
  PROVE  Inv'
<1>1. /\ UNCHANGED <<pc, unique, attempts, msgid, born, obj, fd, fut, got>>
      /\ UNCHANGED <<reader, watched>>
  BY DEF opVars, loopVars
<1>2. TypeOK'
  BY <1>1 DEF Inv, TypeOK, GoodHandle
<1>3. /\ \A t \in Ops : pc'[t] \in {"new", "sleeping"} =>
           attempts'[t] >= 1 /\ msgid[t] = NoId /\ got'[t] = <<>> /\ fut'[t] = NoFuture
      /\ \A t \in Ops : pc'[t] \in {"waiting", "yielded"} => msgid[t] # NoId
  BY <1>1 DEF Inv, GoodRequest
<1>4. \A f \in FDs : reader'[f] # NoOp => msgid[reader'[f]] # NoId
  BY <1>1 DEF Inv, GoodReaders
<1>5. \A t \in Ops : born[t] = h.epoch =>
        /\ \A k \in 1..Len(fut'[t].val) : fut'[t].val[k].op = t
        /\ \A k \in 1..Len(got'[t]) : got'[t][k].op = t
  BY <1>1 DEF Inv, OwnAnswers
<1>q. QED
  BY <1>1, <1>2, <1>3, <1>4, <1>5, SameRequestsInv

\* The connection and the server do nothing to the tasks.
LEMMA ServerInv ==
  ASSUME Inv, (\E i \in Ids : ServerSends(i)) \/ Connect \/ ConnectionLost \/ ServerReturns
  PROVE  Inv'
<1>1. /\ GoodHandle(h) /\ h.next \in Nat /\ h.epoch \in Nat /\ h.epoch + 1 \in Nat
      /\ h.epoch + 1 > 0 /\ h.obj + 1 \in Nat
      /\ reachable \in BOOLEAN /\ losses \in Nat /\ connects \in Nat
  BY DEF Inv, TypeOK, Handles
<1>2. CASE \E i \in Ids : ServerSends(i)
  <2>1. PICK i \in Ids : ServerSends(i)
    BY <1>2
  <2>2. h.asked[i] # NoOp /\ h' = Answered(h, i) /\ UNCHANGED <<opVars, loopVars, envVars>>
    BY <2>1 DEF ServerSends, Unfinished
  <2>3. GoodHandle(h') /\ h'.epoch = h.epoch /\ h'.next = h.next /\ h'.asked = h.asked
    BY <1>1, <2>2, AnsweredGood
  <2>q. QED
    BY <1>1, <2>2, <2>3, HandleInv DEF envVars
<1>3. CASE Connect
  <2>1. PICK f \in FDs : h' = Handle(f, FirstId, h.epoch + 1, h.obj + 1)
    BY <1>3 DEF Connect
  <2>2. GoodHandle(h')
    BY <1>1, <2>1, HandleGood, ConstantsAssumption
  <2>3. h'.epoch > h.epoch
    BY <1>1, <2>1 DEF Handle
  <2>4. UNCHANGED <<opVars, loopVars, reachable, losses>> /\ connects' = connects + 1
    BY <1>3 DEF Connect
  <2>q. QED
    BY <1>1, <2>2, <2>3, <2>4, HandleInv
<1>4. CASE ConnectionLost
  <2>1. h' = [h EXCEPT !.st = "lost"] \/ h' = [h EXCEPT !.st = "lost", !.wire = NoMsgs]
    BY <1>4 DEF ConnectionLost
  <2>2. /\ GoodHandle([h EXCEPT !.st = "lost"])
        /\ GoodHandle([h EXCEPT !.st = "lost", !.wire = NoMsgs])
    BY <1>1, BrokenGood
  <2>3. GoodHandle(h') /\ h'.epoch = h.epoch /\ h'.next >= h.next /\ h'.asked = h.asked
    <3>1. GoodHandle(h')
      BY <2>1, <2>2
    <3>2. h \in Handles
      BY <1>1 DEF GoodHandle
    <3>3. h'.epoch = h.epoch /\ h'.next = h.next /\ h'.asked = h.asked
      BY <2>1, <3>2 DEF Handles
    <3>q. QED
      BY <1>1, <3>1, <3>3
  <2>4. /\ UNCHANGED <<opVars, loopVars, connects>> /\ losses' = losses + 1
        /\ reachable' \in BOOLEAN
    BY <1>4 DEF ConnectionLost
  <2>q. QED
    BY <1>1, <2>3, <2>4, HandleInv
<1>5. CASE ServerReturns
  BY <1>1, <1>5, HandleInv DEF ServerReturns
<1>q. QED
  BY <1>2, <1>3, <1>4, <1>5

\* Closing an iteration cancels its request through the synchronous connection.
LEMMA AcloseInv ==
  ASSUME Inv, NEW t \in Ops, Aclose(t)
  PROVE  Inv'
<1>1. TypeOK /\ GoodHandle(h) /\ h \in Handles /\ h.next \in Nat
  BY DEF Inv, GoodHandle, Handles
<1>2. pc[t] = "yielded" /\ pc' = [pc EXCEPT ![t] = "closed"]
      /\ UNCHANGED <<unique, attempts, msgid, born, obj, fd, fut, got, reader, envVars>>
  BY DEF Aclose
<1>3. msgid[t] # NoId /\ msgid[t] \in Ids
  BY <1>1, <1>2 DEF Inv, GoodRequest, TypeOK
<1>4. /\ GoodHandle(h')
      /\ \/ h'.epoch = h.epoch /\ h'.next >= h.next /\ h'.asked = h.asked
         \/ h'.epoch > h.epoch
  <2>1. CASE h' \in CancelAnswered(h, msgid[t])
    <3>1. /\ GoodHandle(h') /\ h'.asked = h.asked
          /\ h'.next = h.next + 1 /\ h'.epoch = h.epoch
      BY <1>1, <1>3, <2>1, CancelGood
    <3>q. QED
      BY <1>1, <3>1
  <2>2. CASE \E f \in FDs : h' \in CancelAnswered(Reopened(h, f), msgid[t])
    <3>1. PICK f \in FDs : h' \in CancelAnswered(Reopened(h, f), msgid[t])
      BY <2>2
    <3>2. /\ h.epoch \in Nat /\ h.epoch + 1 \in Nat /\ h.epoch + 1 > 0 /\ h.obj \in Nat
          /\ ReconnectId \in Nat
      BY <1>1, ConstantsAssumption DEF Handles
    <3>3. GoodHandle(Handle(f, ReconnectId, h.epoch + 1, h.obj))
      BY <3>2, HandleGood
    <3>4. GoodHandle(Reopened(h, f)) /\ Reopened(h, f).epoch = h.epoch + 1
      BY <3>3 DEF Reopened, Handle
    <3>5. GoodHandle(h') /\ h'.epoch = h.epoch + 1
      BY <1>3, <3>1, <3>4, CancelGood
    <3>q. QED
      BY <3>2, <3>5
  <2>3. CASE h' = [h EXCEPT !.st = "gone"]
    <3>1. GoodHandle([h EXCEPT !.st = "gone"])
      BY <1>1, BrokenGood
    <3>q. QED
      BY <1>1, <2>3, <3>1 DEF Handles
  <2>4. CASE h' = h
    BY <1>1, <2>4
  <2>q. QED
    BY <2>1, <2>2, <2>3, <2>4 DEF Aclose
<1>5. /\ pc' \in [Ops -> PCs] /\ pc'[t] = "closed" /\ \A u \in Ops \ {t} : pc'[u] = pc[u]
  BY <1>1, <1>2 DEF TypeOK, PCs
<1>6. TypeOK'
  <2>1. watched' \subseteq FDs
    BY <1>1 DEF Aclose, TypeOK
  <2>q. QED
    BY <1>1, <1>2, <1>4, <1>5, <2>1 DEF TypeOK, GoodHandle, envVars
<1>7. /\ \A u \in Ops : pc'[u] \in {"new", "sleeping"} =>
           attempts'[u] >= 1 /\ msgid[u] = NoId /\ got'[u] = <<>> /\ fut'[u] = NoFuture
      /\ \A u \in Ops : pc'[u] \in {"waiting", "yielded"} => msgid[u] # NoId
  BY <1>2, <1>5 DEF Inv, GoodRequest
<1>8. \A f \in FDs : reader'[f] # NoOp => msgid[reader'[f]] # NoId
  BY <1>2 DEF Inv, GoodReaders
<1>9. \A u \in Ops : born[u] = h.epoch =>
        /\ \A k \in 1..Len(fut'[u].val) : fut'[u].val[k].op = u
        /\ \A k \in 1..Len(got'[u]) : got'[u][k].op = u
  BY <1>2 DEF Inv, OwnAnswers
<1>q. QED
  BY <1>2, <1>4, <1>6, <1>7, <1>8, <1>9, SameRequestsInv

\* Every step keeps the invariant.
LEMMA NextInv == Inv /\ [Next]_vars => Inv'
<1> SUFFICES ASSUME Inv, [Next]_vars PROVE Inv'
  OBVIOUS
<1>1. ASSUME NEW t \in Ops, Call(t) PROVE Inv'
  BY <1>1, CallInv
<1>2. ASSUME NEW t \in Ops, Retry(t) PROVE Inv'
  BY <1>2, RetryInv
<1>3. ASSUME NEW t \in Ops, Ready(t) PROVE Inv'
  BY <1>3, ReadyInv
<1>4. ASSUME NEW t \in Ops, Resume(t) PROVE Inv'
  BY <1>4, ResumeInv
<1>5. ASSUME NEW t \in Ops, Raise(t) PROVE Inv'
  BY <1>5, RaiseInv
<1>6. ASSUME NEW t \in Ops, TimerFires(t) \/ CancelTask(t) PROVE Inv'
  BY <1>6, CancelledInv
<1>7. ASSUME NEW t \in Ops, Anext(t) PROVE Inv'
  BY <1>7, AnextInv
<1>8. ASSUME NEW t \in Ops, Aclose(t) PROVE Inv'
  BY <1>8, AcloseInv
<1>9. CASE (\E i \in Ids : ServerSends(i)) \/ Connect \/ ConnectionLost \/ ServerReturns
  BY <1>9, ServerInv
<1>10. CASE UNCHANGED vars
  <2>1. UNCHANGED <<opVars, h, loopVars, envVars>>
    BY <1>10 DEF vars
  <2>2. /\ GoodHandle(h') /\ h'.epoch = h.epoch /\ h'.next >= h.next /\ h'.asked = h.asked
        /\ reachable' \in BOOLEAN /\ losses' \in Nat /\ connects' \in Nat
    BY <2>1 DEF Inv, TypeOK, GoodHandle, Handles, envVars
  <2>q. QED
    BY <2>1, <2>2, HandleInv
<1>q. QED
  BY <1>1, <1>2, <1>3, <1>4, <1>5, <1>6, <1>7, <1>8, <1>9, <1>10 DEF Next

\* A message id is assigned by an attempt of _retry, and only to an operation that has none.
LEMMA AttemptsAssignOnce ==
  ASSUME Inv, [Next]_vars, NEW t \in Ops, msgid[t] # NoId
  PROVE  msgid'[t] = msgid[t] /\ born'[t] = born[t]
<1>1. /\ msgid \in [Ops -> Ids \cup {NoId}] /\ born \in [Ops -> Nat]
      /\ pc[t] \notin {"new", "sleeping"}
  BY DEF Inv, TypeOK, GoodRequest
<1>2. ASSUME NEW u \in Ops, NEW g, NEW o, NEW rs, NEW ws, Attempt(u, g, o, rs, ws), u # t
      PROVE  msgid'[t] = msgid[t] /\ born'[t] = born[t]
  BY <1>1, <1>2 DEF Attempt, Accepted, Unbound, Refused, ServerDown, NoHandle
<1>3. ASSUME NEW u \in Ops, Call(u)
      PROVE  msgid'[t] = msgid[t] /\ born'[t] = born[t]
  <2>1. u # t /\ Attempt(u, h, h.obj, reader, watched)
    BY <1>1, <1>3 DEF Call
  <2>q. QED
    BY <1>2, <2>1
<1>4. ASSUME NEW u \in Ops, Retry(u)
      PROVE  msgid'[t] = msgid[t] /\ born'[t] = born[t]
  <2>1. u # t
    BY <1>1, <1>4 DEF Retry
  <2>2. CASE \E f \in FDs :
               Attempt(u, Reopened(h, f), obj[u], ReadersAtReconnect, watched \ {h.fd})
    BY <1>2, <2>1, <2>2
  <2>3. CASE ServerDown(u, [h EXCEPT !.st = "gone"], ReadersAtReconnect, watched \ {h.fd})
    BY <2>3 DEF ServerDown
  <2>q. QED
    BY <1>4, <2>2, <2>3 DEF Retry
<1>5. CASE UNCHANGED <<msgid, born>>
  BY <1>5
<1>6. ASSUME NEW u \in Ops,
             \/ Ready(u) \/ Resume(u) \/ Raise(u) \/ TimerFires(u) \/ CancelTask(u)
             \/ Anext(u) \/ Aclose(u)
      PROVE  UNCHANGED <<msgid, born>>
  BY <1>6 DEF Ready, Resume, Raise, TimerFires, CancelTask, Anext, Aclose
<1>7. CASE (\E i \in Ids : ServerSends(i)) \/ Connect \/ ConnectionLost \/ ServerReturns
  BY <1>5, <1>7 DEF ServerSends, Connect, ConnectionLost, ServerReturns, opVars
<1>8. CASE UNCHANGED vars
  BY <1>5, <1>8 DEF vars, opVars
<1>q. QED
  BY <1>3, <1>4, <1>5, <1>6, <1>7, <1>8 DEF Next

(***************************************************************************)
(* The theorems.                                                           *)
(***************************************************************************)
\* The strengthened invariant holds in every reachable state of the machinery.
THEOREM Invariance == Spec => []Inv
<1>1. Init => Inv
  BY InitInv
<1>2. Inv /\ [Next]_vars => Inv'
  BY NextInv
<1>q. QED
  BY <1>1, <1>2, PTL DEF Spec

\* Every variable keeps its type: among other things, _retry never counts below zero.
THEOREM TypeCorrect == Spec => []TypeOK
<1>1. Inv => TypeOK
  BY DEF Inv
<1>q. QED
  BY <1>1, Invariance, PTL

\* However the tasks of a program interleave on a connection, and whoever is cancelled, times
\* out, closes its iteration or loses its reader to another: as long as the handle that carried
\* an operation's request is in use, _poll hands it answers to its own request only.
THEOREM AnswersAreOwn == Spec => []OwnAnswers
<1>1. Inv => OwnAnswers
  BY DEF Inv
<1>q. QED
  BY <1>1, Invariance, PTL

\* _retry repeats only attempts that got no message id: no request is ever made twice.
THEOREM NoRequestTwice == Spec => RequestedOnce
<1>1. Inv /\ [Next]_vars =>
        [\A t \in Ops : msgid[t] # NoId => msgid'[t] = msgid[t] /\ born'[t] = born[t]]_vars
  BY AttemptsAssignOnce
<1>q. QED
  BY <1>1, Invariance, PTL DEF Spec, RequestedOnce
=============================================================================
