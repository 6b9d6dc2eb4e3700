-------------------------- MODULE AsyncOrder_proofs --------------------------
(***************************************************************************)
(* Proofs about the order in which AsyncConnection hands out responses:    *)
(* with nothing left over from an earlier handle under its message id, an  *)
(* operation is given a prefix of what the server has sent for it, nothing *)
(* of which is lost on the way; and operations that do not overlap keep    *)
(* the promise of OperationContract.                                       *)
(***************************************************************************)
EXTENDS AsyncConnection_proofs

(***************************************************************************)
(* The inductive invariant, on top of Inv.  The responses that the caller  *)
(* has, the future holds, libldap has read and the socket has are numbered *)
(* without a gap, and the last one is the last that the server has sent.   *)
(***************************************************************************)
Run(m, a) == \A k \in 1..Len(m) : m[k].n = a + k
Fits(m) == \A k \in 1..Len(m) : m[k].n <= Len(Reply[m[k].op])

Flows(g, i, a) ==
  /\ Run(g.chain[i], a)
  /\ Run(g.wire[i], a + Len(g.chain[i]))
  /\ g.st = "up" => a + Len(g.chain[i]) + Len(g.wire[i]) = g.sent[i]

\* Of an id that nothing was asked for the server has sent nothing, and never more than it has.
Fit(g) ==
  \A i \in Ids :
    /\ g.asked[i] = NoOp => g.sent[i] = 0
    /\ g.asked[i] # NoOp => g.sent[i] <= Len(Reply[g.asked[i]])
    /\ Fits(g.wire[i]) /\ Fits(g.chain[i])

\* Nothing from an earlier handle gets in the way of t: there is no such operation with its message
\* id, or operations do not overlap and those have ended.
Peace(t) == born[t] = h.epoch /\ (Parallel => Undisturbed(t))

Open == {"waiting", "yielded"}
Running == Open \cup {"sleeping"}
Flowing(t) ==
  /\ Run(got[t], 0)
  /\ pc[t] \in Open =>
       /\ Run(fut[t].val, Len(got[t]))
       /\ fut[t].st # "cancelled" => Flows(h, msgid[t], Len(got[t]) + Len(fut[t].val))

\* What the future says of where the operation is, and what it holds.
FutureOf(t) ==
  /\ fut[t].st # "result" => fut[t].val = <<>>
  /\ fut[t].st \in {"pending", "result", "error"} => pc[t] = "waiting"
  /\ pc[t] = "yielded" =>
       /\ fut[t].st = "none" /\ Kind[t] = "iterate"
       /\ got[t] # <<>> /\ Type(got[t][Len(got[t])]) \notin {"result", "reference"}
  /\ pc[t] = "waiting" => fut[t].st # "none" /\ Kind[t] # "unbind"
  /\ fut[t].st = "result" =>
       /\ fut[t].val # <<>>
       /\ Kind[t] = "iterate" => Len(fut[t].val) = 1
       /\ Kind[t] # "iterate" => Type(fut[t].val[Len(fut[t].val)]) = "result"
  /\ Fits(fut[t].val) /\ Fits(got[t])

\* An operation that has its answer has no reader.
ReaderGone(t) ==
  born[t] = h.epoch /\ (fut[t].st \in {"result", "error"} \/ pc[t] = "yielded") => reader[h.fd] # t

\* No two operations share a message id of the handle in use.
Distinct ==
  \A t, u \in Ops : born[t] = h.epoch /\ born[u] = h.epoch /\ msgid[t] = msgid[u] => t = u

\* Of operations that do not overlap one is running, and the handle and the reader are its own.
Undivided(t) ==
  /\ pc[t] \in Running => \A u \in Ops \ {t} : pc[u] = "new" \/ Ended(u)
  /\ pc[t] \in Open => h.st # "gone" /\ born[t] = h.epoch /\ reader[h.fd] \in {t, NoOp}

InTurn(t) ==
  /\ FutureOf(t) /\ ReaderGone(t)
  /\ Peace(t) => Flowing(t)
  /\ ~Parallel => Undivided(t)

OrderInv == Fit(h) /\ Distinct /\ \A t \in Ops : InTurn(t)

(***************************************************************************)
(* Numbered messages.                                                      *)
(***************************************************************************)
\* A run without its first message is a run.
LEMMA RunTail ==
  ASSUME NEW m \in Seq(Msg), NEW a \in Nat, Run(m, a), m # <<>>
  PROVE  /\ Run(Tail(m), a + 1) /\ Head(m).n = a + 1
         /\ Tail(m) \in Seq(Msg) /\ Len(m) = 1 + Len(Tail(m)) /\ Len(Tail(m)) \in Nat
<1>1. /\ Len(m) \in Nat \ {0} /\ Tail(m) \in Seq(Msg) /\ Len(Tail(m)) = Len(m) - 1
      /\ \A k \in 1..Len(Tail(m)) : Tail(m)[k] = m[k + 1]
  OBVIOUS
<1>2. Head(m).n = a + 1
  BY <1>1 DEF Run
<1>3. \A k \in 1..Len(Tail(m)) : Tail(m)[k].n = a + 1 + k
  BY <1>1 DEF Run
<1> QED
  BY <1>1, <1>2, <1>3 DEF Run

\* A run with the next message is a run.
LEMMA RunAppend ==
  ASSUME NEW m \in Seq(Msg), NEW a \in Nat, Run(m, a), NEW x \in Msg, x.n = a + Len(m) + 1
  PROVE  Run(Append(m, x), a) /\ Append(m, x) \in Seq(Msg) /\ Len(Append(m, x)) = Len(m) + 1
<1>1. /\ Append(m, x) \in Seq(Msg) /\ Len(Append(m, x)) = Len(m) + 1 /\ Len(m) \in Nat
      /\ \A k \in 1..Len(m) : Append(m, x)[k] = m[k]
      /\ Append(m, x)[Len(m) + 1] = x
  OBVIOUS
<1>2. ASSUME NEW k \in 1..Len(m) + 1
      PROVE  Append(m, x)[k].n = a + k
  <2>1. CASE k = Len(m) + 1
    BY <1>1, <2>1
  <2>2. CASE k # Len(m) + 1
    BY <1>1, <2>2 DEF Run
  <2> QED
    BY <2>1, <2>2
<1> QED
  BY <1>1, <1>2 DEF Run

\* Two runs one after the other.
LEMMA RunConcat ==
  ASSUME NEW m \in Seq(Msg), NEW d \in Seq(Msg), NEW a \in Nat, Run(m, a), Run(d, a + Len(m))
  PROVE  Run(m \o d, a) /\ m \o d \in Seq(Msg) /\ Len(m \o d) = Len(m) + Len(d)
<1>1. /\ m \o d \in Seq(Msg) /\ Len(m \o d) = Len(m) + Len(d) /\ Len(m) \in Nat /\ Len(d) \in Nat
      /\ \A k \in 1..Len(m) : (m \o d)[k] = m[k]
      /\ \A k \in 1..Len(d) : (m \o d)[Len(m) + k] = d[k]
  BY ConcatProperties
<1>2. ASSUME NEW k \in 1..Len(m) + Len(d)
      PROVE  (m \o d)[k].n = a + k
  <2>1. CASE k <= Len(m)
    BY <1>1, <2>1 DEF Run
  <2>2. CASE ~(k <= Len(m))
    <3>1. k - Len(m) \in 1..Len(d) /\ k = Len(m) + (k - Len(m))
      BY <1>1, <2>2
    <3>2. (m \o d)[k] = d[k - Len(m)]
      BY <1>1, <3>1
    <3>3. d[k - Len(m)].n = a + Len(m) + (k - Len(m))
      BY <3>1 DEF Run
    <3> QED
      BY <1>1, <3>2, <3>3
  <2> QED
    BY <2>1, <2>2
<1> QED
  BY <1>1, <1>2 DEF Run

\* The same operators keep the numbers within what the server has.
LEMMA FitsKept ==
  ASSUME NEW m \in Seq(Msg), Fits(m)
  PROVE  /\ m # <<>> => Fits(Tail(m)) /\ Head(m).n <= Len(Reply[Head(m).op])
         /\ \A x \in Msg : x.n <= Len(Reply[x.op]) => Fits(Append(m, x))
         /\ \A d \in Seq(Msg) : Fits(d) => Fits(m \o d)
<1>1. m # <<>> => Fits(Tail(m)) /\ Head(m).n <= Len(Reply[Head(m).op])
  BY DEF Fits
<1>2. \A x \in Msg : x.n <= Len(Reply[x.op]) => Fits(Append(m, x))
  BY DEF Fits
<1>3. ASSUME NEW d \in Seq(Msg), Fits(d)
      PROVE  Fits(m \o d)
  <2>1. \A k \in 1..Len(m \o d) :
          \/ k \in 1..Len(m) /\ (m \o d)[k] = m[k]
          \/ k - Len(m) \in 1..Len(d) /\ (m \o d)[k] = d[k - Len(m)]
    BY ConcatProperties
  <2> QED
    BY <1>3, <2>1 DEF Fits
<1> QED
  BY <1>1, <1>2, <1>3

(***************************************************************************)
(* What the handle's operators do to the queues.                           *)
(***************************************************************************)
\* The queues of a handle are sequences of messages.
LEMMA QueuesOf ==
  ASSUME NEW g, GoodHandle(g), NEW i \in Ids
  PROVE  /\ g.wire[i] \in Seq(Msg) /\ g.chain[i] \in Seq(Msg) /\ g.sent[i] \in Nat
         /\ Len(g.wire[i]) \in Nat /\ Len(g.chain[i]) \in Nat
  BY DEF GoodHandle, Handles

\* A message that is read moves from the front of the socket to the end of its chain.
LEMMA ReadOneKeeps ==
  ASSUME NEW g, GoodHandle(g), Fit(g), NEW j \in Ids, g.wire[j] # <<>>, NEW r, r = ReadOne(g, j)
  PROVE  /\ Fit(r) /\ r.st = g.st /\ r.fd = g.fd
         /\ \A i \in Ids, a \in Nat : Flows(g, i, a) => Flows(r, i, a)
<1> DEFINE x == Head(g.wire[j])
           w == [g.wire EXCEPT ![j] = Tail(@)]
           c == [g.chain EXCEPT ![j] = Append(@, x)]
<1>1. /\ g \in Handles /\ g.wire \in [Ids -> Seq(Msg)] /\ g.chain \in [Ids -> Seq(Msg)]
      /\ x \in Msg /\ r = [g EXCEPT !.wire = w, !.chain = c]
  BY DEF GoodHandle, Handles, ReadOne
<1>2. /\ w[j] = Tail(g.wire[j]) /\ c[j] = Append(g.chain[j], x)
      /\ \A i \in Ids \ {j} : w[i] = g.wire[i] /\ c[i] = g.chain[i]
  BY <1>1
<1> HIDE DEF w, c
<1>3. r.wire = w /\ r.chain = c /\ r.st = g.st /\ r.fd = g.fd /\ r.sent = g.sent /\ r.asked = g.asked
  BY <1>1 DEF Handles
<1>4. Fit(r)
  <2>1. Fits(Tail(g.wire[j])) /\ Fits(Append(g.chain[j], x))
    BY <1>1, FitsKept DEF Fit
  <2> QED
    BY <1>2, <1>3, <2>1, ZenonT(30) DEF Fit
<1>5. ASSUME NEW i \in Ids, NEW a \in Nat, Flows(g, i, a)
      PROVE  Flows(r, i, a)
  <2>1. CASE i # j
    BY <1>2, <1>3, <1>5, <2>1 DEF Flows
  <2>2. CASE i = j
    <3> DEFINE l == Len(g.chain[j])
    <3>1. /\ l \in Nat /\ a + l \in Nat /\ Run(g.chain[j], a) /\ Run(g.wire[j], a + l)
      BY <1>5, <2>2, QueuesOf DEF Flows
    <3>2. /\ Run(Tail(g.wire[j]), a + l + 1) /\ x.n = a + l + 1
          /\ Len(g.wire[j]) = 1 + Len(Tail(g.wire[j])) /\ Len(Tail(g.wire[j])) \in Nat
      BY <1>1, <3>1, RunTail
    <3>3. Run(c[j], a) /\ Len(c[j]) = l + 1
      <4>1. g.chain[j] \in Seq(Msg) /\ x \in Msg /\ x.n = a + l + 1
        BY <1>1, <3>2
      <4>2. Run(Append(g.chain[j], x), a) /\ Len(Append(g.chain[j], x)) = l + 1
        BY <3>1, <4>1, RunAppend
      <4>3. c[j] = Append(g.chain[j], x)
        BY <1>2
      <4> QED
        BY <4>2, <4>3
    <3>4. g.st = "up" => a + l + Len(g.wire[j]) = g.sent[j]
      BY <1>5, <2>2 DEF Flows
    <3> HIDE DEF l
    <3>5. a + (l + 1) = a + l + 1 /\ a + (l + 1) + Len(Tail(g.wire[j])) = a + l + Len(g.wire[j])
      <4> DEFINE q == Len(Tail(g.wire[j]))
      <4>1. q \in Nat /\ Len(g.wire[j]) = 1 + q
        BY <3>2
      <4> HIDE DEF q
      <4>2. a + (l + 1) = a + l + 1 /\ a + (l + 1) + q = a + l + (1 + q)
        BY <3>1, <4>1
      <4> QED
        BY <4>1, <4>2 DEF q
    <3> QED
      BY <1>2, <1>3, <2>2, <3>2, <3>3, <3>4, <3>5 DEF Flows
  <2> QED
    BY <2>1, <2>2
<1> QED
  BY <1>3, <1>4, <1>5

\* The server's next response comes to the end of the socket.
LEMMA AnsweredKeeps ==
  ASSUME NEW g, GoodHandle(g), Fit(g), NEW j \in Ids, Unfinished(g, j), g.st = "up",
         NEW r, r = Answered(g, j)
  PROVE  /\ Fit(r) /\ r.st = g.st /\ r.fd = g.fd
         /\ \A i \in Ids, a \in Nat : Flows(g, i, a) => Flows(r, i, a)
<1> DEFINE x == [op |-> g.asked[j], n |-> g.sent[j] + 1]
           w == [g.wire EXCEPT ![j] = Append(@, x)]
           n == [g.sent EXCEPT ![j] = @ + 1]
<1>1. /\ g \in Handles /\ g.wire \in [Ids -> Seq(Msg)] /\ g.chain \in [Ids -> Seq(Msg)]
      /\ g.sent \in [Ids -> Nat] /\ g.asked \in [Ids -> Ops \cup {NoOp}]
      /\ r = [g EXCEPT !.sent = n, !.wire = w]
  BY DEF GoodHandle, Handles, Answered
<1>2. /\ g.asked[j] \in Ops /\ g.asked[j] # NoOp /\ g.sent[j] + 1 <= Len(Reply[g.asked[j]])
      /\ x \in Msg /\ x.n = g.sent[j] + 1 /\ x.op = g.asked[j]
  <2>1. g.asked[j] \in Ops /\ g.asked[j] # NoOp /\ g.sent[j] < Len(Reply[g.asked[j]])
    BY <1>1 DEF Unfinished
  <2>2. Len(Reply[g.asked[j]]) \in Nat /\ g.sent[j] \in Nat
    BY <1>1, <2>1, ConstantsAssumption
  <2> QED
    BY <2>1, <2>2 DEF Msg
<1>3. /\ w[j] = Append(g.wire[j], x) /\ n[j] = g.sent[j] + 1
      /\ \A i \in Ids \ {j} : w[i] = g.wire[i] /\ n[i] = g.sent[i]
  BY <1>1
<1> HIDE DEF w, n, x
<1>4. r.wire = w /\ r.chain = g.chain /\ r.st = g.st /\ r.fd = g.fd /\ r.sent = n /\ r.asked = g.asked
  BY <1>1 DEF Handles
<1>5. Fit(r)
  <2>1. Fits(Append(g.wire[j], x))
    BY <1>1, <1>2, FitsKept DEF Fit
  <2> QED
    BY <1>2, <1>3, <1>4, <2>1, ZenonT(30) DEF Fit
<1>6. ASSUME NEW i \in Ids, NEW a \in Nat, Flows(g, i, a)
      PROVE  Flows(r, i, a)
  <2>1. CASE i # j
    BY <1>3, <1>4, <1>6, <2>1 DEF Flows
  <2>2. CASE i = j
    <3> DEFINE l == Len(g.chain[j])
               m == Len(g.wire[j])
    <3>1. /\ l \in Nat /\ m \in Nat /\ a + l \in Nat /\ Run(g.wire[j], a + l)
          /\ a + l + m = g.sent[j]
      BY <1>6, <2>2, QueuesOf DEF Flows
    <3>2. Run(Append(g.wire[j], x), a + l) /\ Len(Append(g.wire[j], x)) = m + 1
      BY <1>1, <1>2, <3>1, RunAppend, SMTT(30)
    <3> HIDE DEF l, m
    <3>3. a + l + (m + 1) = g.sent[j] + 1
      BY <3>1
    <3> QED
      BY <1>3, <1>4, <1>6, <2>2, <3>2, <3>3 DEF Flows, l
  <2> QED
    BY <2>1, <2>2
<1> QED
  BY <1>4, <1>5, <1>6

\* The connection breaks, or is closed.
LEMMA BrokenKeeps ==
  ASSUME NEW g, GoodHandle(g), Fit(g), NEW st \in {"lost", "gone"},
         NEW r, r = [g EXCEPT !.st = st] \/ r = [g EXCEPT !.st = st, !.wire = NoMsgs]
  PROVE  /\ Fit(r) /\ r.st = st /\ r.fd = g.fd
         /\ \A i \in Ids, a \in Nat : Flows(g, i, a) => Flows(r, i, a)
<1>1. g \in Handles
  BY DEF GoodHandle
<1>2. /\ r.wire \in {g.wire, NoMsgs} /\ r.chain = g.chain /\ r.st = st /\ r.fd = g.fd
      /\ r.sent = g.sent /\ r.asked = g.asked
  BY <1>1 DEF Handles
<1>3. \A i \in Ids : NoMsgs[i] = <<>> /\ Fits(<<>>) /\ \A a : Run(<<>>, a)
  BY DEF NoMsgs, Fits, Run
<1>4. Fit(r)
  BY <1>2, <1>3 DEF Fit
<1>5. ASSUME NEW i \in Ids, NEW a \in Nat, Flows(g, i, a)
      PROVE  Flows(r, i, a)
  BY <1>2, <1>3, <1>5 DEF Flows
<1> QED
  BY <1>2, <1>4, <1>5

\* A request takes the next message id, which has nothing in its queues yet.
LEMMA RequestedKeeps ==
  ASSUME NEW g, GoodHandle(g), Fit(g), NEW t \in Ops, g.next \in Ids, NEW r, r = Requested(g, t)
  PROVE  /\ Fit(r) /\ r.st = g.st /\ r.fd = g.fd
         /\ \A i \in Ids, a \in Nat : Flows(g, i, a) => Flows(r, i, a)
         /\ Flows(r, g.next, 0)
<1> DEFINE b == [g.asked EXCEPT ![g.next] = IF g.st = "up" THEN t ELSE NoOp]
<1>1. /\ g \in Handles /\ g.next \in Nat /\ Ids \subseteq Nat
      /\ g.asked \in [Ids -> Ops \cup {NoOp}] /\ g.asked[g.next] = NoOp
      /\ r = [g EXCEPT !.next = g.next + 1, !.asked = b]
  BY ConstantsAssumption, SMTT(30) DEF GoodHandle, Handles, Requested, Ids
<1>2. b[g.next] \in {t, NoOp} /\ \A i \in Ids \ {g.next} : b[i] = g.asked[i]
  BY <1>1
<1> HIDE DEF b
<1>3. r.wire = g.wire /\ r.chain = g.chain /\ r.st = g.st /\ r.fd = g.fd /\ r.sent = g.sent /\ r.asked = b
  BY <1>1 DEF Handles
<1>4. g.sent[g.next] = 0
  BY <1>1 DEF Fit
<1>5. Fit(r)
  <2>1. Len(Reply[t]) \in Nat
    BY ConstantsAssumption
  <2> QED
    BY <1>2, <1>3, <1>4, <2>1 DEF Fit
<1>6. Len(g.wire[g.next]) = 0 /\ Len(g.chain[g.next]) = 0
  <2>1. ASSUME NEW m \in Seq(Msg), \A k \in 1..Len(m) : m[k].op = NoOp
        PROVE  Len(m) = 0
    <3>1. \A x \in Msg : x.op # NoOp
      BY ConstantsAssumption DEF Msg
    <3>2. ~(1 \in 1..Len(m))
      BY <2>1, <3>1
    <3> QED
      BY <2>1, <3>2
  <2> QED
    BY <1>1, <2>1, QueuesOf DEF GoodHandle
<1>7. Flows(r, g.next, 0)
  BY <1>3, <1>4, <1>6 DEF Flows, Run
<1> QED
  BY <1>3, <1>5, <1>7 DEF Flows

\* A new handle has nothing in its queues.
LEMMA HandleFit ==
  ASSUME NEW f, NEW next, NEW epoch, NEW object
  PROVE  Fit(Handle(f, next, epoch, object)) /\ Handle(f, next, epoch, object).st = "up"
  BY DEF Handle, Fit, Fits, NoMsgs

\* What is in a chain is replaced.
Chained(g, i, c) == [g EXCEPT !.chain = [g.chain EXCEPT ![i] = c]]
\* The other queues flow on.
LEMMA ChainedKeeps ==
  ASSUME NEW g, GoodHandle(g), Fit(g), NEW j \in Ids, NEW c \in Seq(Msg), Fits(c),
         NEW r, r = Chained(g, j, c)
  PROVE  /\ Fit(r) /\ r.st = g.st /\ r.fd = g.fd
         /\ r.chain[j] = c /\ r.wire = g.wire /\ r.sent = g.sent
         /\ \A i \in Ids \ {j}, a \in Nat : Flows(g, i, a) => Flows(r, i, a)
<1> DEFINE d == [g.chain EXCEPT ![j] = c]
<1>1. g \in Handles /\ g.chain \in [Ids -> Seq(Msg)] /\ r = [g EXCEPT !.chain = d]
  BY DEF GoodHandle, Handles, Chained
<1>2. d[j] = c /\ \A i \in Ids \ {j} : d[i] = g.chain[i]
  BY <1>1
<1> HIDE DEF d
<1>3. r.wire = g.wire /\ r.chain = d /\ r.st = g.st /\ r.fd = g.fd /\ r.sent = g.sent /\ r.asked = g.asked
  BY <1>1 DEF Handles
<1>4. Fit(r)
  BY <1>2, <1>3 DEF Fit
<1> QED
  BY <1>2, <1>3, <1>4 DEF Flows

\* What libldap returns of a chain is its first messages, and the others stay.
LEMMA TakenKeeps ==
  ASSUME NEW g, GoodHandle(g), Fit(g), NEW t \in Ops, NEW j \in Ids, NEW c, c = g.chain[j], c # <<>>,
         NEW r, r = Chained(g, j, Left(t, c))
  PROVE  /\ Fit(r) /\ r.st = g.st /\ r.fd = g.fd
         /\ Taken(t, c) \in Seq(Msg) /\ Taken(t, c) # <<>> /\ Fits(Taken(t, c))
         /\ \A i \in Ids \ {j}, a \in Nat : Flows(g, i, a) => Flows(r, i, a)
         /\ \A a \in Nat : Flows(g, j, a) => Run(Taken(t, c), a) /\ Flows(r, j, a + Len(Taken(t, c)))
<1>1. c \in Seq(Msg) /\ Fits(c) /\ Len(c) \in Nat
  BY QueuesOf DEF Fit
<1>2. CASE Kind[t] = "iterate"
  <2>1. /\ Taken(t, c) = <<Head(c)>> /\ Left(t, c) = Tail(c) /\ Head(c) \in Msg
        /\ Tail(c) \in Seq(Msg) /\ Fits(Tail(c)) /\ Head(c).n <= Len(Reply[Head(c).op])
    BY <1>1, <1>2, FitsKept DEF Taken, Left
  <2>2. /\ Taken(t, c) \in Seq(Msg) /\ Taken(t, c) # <<>> /\ Fits(Taken(t, c)) /\ Len(Taken(t, c)) = 1
    BY <2>1 DEF Fits
  <2>3. /\ Fit(r) /\ r.st = g.st /\ r.fd = g.fd
        /\ r.chain[j] = Tail(c) /\ r.wire = g.wire /\ r.sent = g.sent
        /\ \A i \in Ids \ {j}, a \in Nat : Flows(g, i, a) => Flows(r, i, a)
    <3>1. r = Chained(g, j, Tail(c))
      BY <2>1
    <3> QED
      BY <2>1, <3>1, ChainedKeeps
  <2>4. ASSUME NEW a \in Nat, Flows(g, j, a)
        PROVE  Run(Taken(t, c), a) /\ Flows(r, j, a + Len(Taken(t, c)))
    <3> DEFINE q == Len(Tail(c))
    <3>1. /\ Run(Tail(c), a + 1) /\ Head(c).n = a + 1 /\ Len(c) = 1 + q /\ q \in Nat
          /\ Run(g.wire[j], a + Len(c))
          /\ g.st = "up" => a + Len(c) + Len(g.wire[j]) = g.sent[j]
      BY <1>1, <2>4, RunTail DEF Flows
    <3>2. Run(Taken(t, c), a)
      BY <2>1, <3>1 DEF Run
    <3> HIDE DEF q
    <3>3. a + 1 + q = a + Len(c)
      BY <3>1
    <3> QED
      BY <2>2, <2>3, <3>1, <3>2, <3>3, ZenonT(30) DEF Flows, q
  <2> QED
    BY <2>2, <2>3, <2>4
<1>3. CASE Kind[t] # "iterate"
  <2>1. Taken(t, c) = c /\ Left(t, c) = <<>> /\ <<>> \in Seq(Msg) /\ Fits(<<>>)
    BY <1>3 DEF Taken, Left, Fits
  <2>2. /\ Fit(r) /\ r.st = g.st /\ r.fd = g.fd
        /\ r.chain[j] = <<>> /\ r.wire = g.wire /\ r.sent = g.sent
        /\ \A i \in Ids \ {j}, a \in Nat : Flows(g, i, a) => Flows(r, i, a)
    <3>1. r = Chained(g, j, <<>>)
      BY <2>1
    <3> QED
      BY <2>1, <3>1, ChainedKeeps
  <2>3. ASSUME NEW a \in Nat, Flows(g, j, a)
        PROVE  Run(c, a) /\ Flows(r, j, a + Len(c))
    <3>1. Len(<<>>) = 0 /\ Run(<<>>, a + Len(c)) /\ a + Len(c) + 0 = a + Len(c)
      BY <1>1 DEF Run
    <3> QED
      BY <2>2, <2>3, <3>1 DEF Flows
  <2> QED
    BY <1>1, <2>1, <2>2, <2>3
<1> QED
  BY <1>2, <1>3

\* A cancel reads everything, and what it adds it adds under its own message id.
LEMMA CancelKeeps ==
  ASSUME NEW g, GoodHandle(g), Fit(g), NEW j \in Ids, NEW r \in CancelAnswered(g, j)
  PROVE  /\ Fit(r) /\ r.st = g.st /\ r.fd = g.fd
         /\ \A i \in Ids \ {j}, a \in Nat : Flows(g, i, a) => Flows(r, i, a)
<1> DEFINE d == Drained(g)
           c == [i \in Ids |-> g.chain[i] \o g.wire[i]]
<1>1. g \in Handles /\ g.asked \in [Ids -> Ops \cup {NoOp}] /\ g.sent \in [Ids -> Nat]
  BY DEF GoodHandle, Handles
<1>2. d = [g EXCEPT !.next = g.next + 1, !.wire = NoMsgs, !.chain = c]
  BY DEF Drained
<1>3. \A i \in Ids : c[i] = g.chain[i] \o g.wire[i] /\ NoMsgs[i] = <<>>
  BY DEF NoMsgs
<1> HIDE DEF c, d
<1>4. /\ d.wire = NoMsgs /\ d.chain = c /\ d.st = g.st /\ d.fd = g.fd /\ d.sent = g.sent
      /\ d.asked = g.asked
  BY <1>1, <1>2 DEF Handles
<1>5. ASSUME NEW i \in Ids
      PROVE  c[i] \in Seq(Msg) /\ Fits(c[i]) /\ Fits(NoMsgs[i])
  <2>1. /\ g.chain[i] \in Seq(Msg) /\ Fits(g.chain[i]) /\ g.wire[i] \in Seq(Msg) /\ Fits(g.wire[i])
    BY QueuesOf DEF Fit
  <2>2. g.chain[i] \o g.wire[i] \in Seq(Msg) /\ Fits(g.chain[i] \o g.wire[i])
    BY <2>1, FitsKept
  <2>3. Fits(<<>>)
    BY DEF Fits
  <2> QED
    BY <1>3, <2>2, <2>3
<1>6. Fit(d)
  BY <1>4, <1>5 DEF Fit
<1>7. ASSUME NEW i \in Ids, NEW a \in Nat, Flows(g, i, a)
      PROVE  Flows(d, i, a)
  <2> DEFINE l == Len(g.chain[i])
             m == Len(g.wire[i])
  <2>1. /\ l \in Nat /\ m \in Nat /\ Run(g.chain[i], a) /\ Run(g.wire[i], a + l)
        /\ g.st = "up" => a + l + m = g.sent[i]
    BY <1>7, QueuesOf DEF Flows
  <2>2. Run(c[i], a) /\ Len(c[i]) = l + m
    BY <1>3, <2>1, QueuesOf, RunConcat
  <2>3. Run(<<>>, a + Len(c[i])) /\ Len(<<>>) = 0
    BY DEF Run
  <2> HIDE DEF l, m
  <2>4. a + (l + m) + 0 = a + l + m
    BY <2>1
  <2> QED
    BY <1>3, <1>4, <2>1, <2>2, <2>3, <2>4 DEF Flows
<1>8. CASE r = d
  BY <1>4, <1>6, <1>7, <1>8
<1>9. CASE r = Stopped(d, j) /\ Unfinished(g, j)
  <2> DEFINE x == [op |-> d.asked[j], n |-> 0]
             e == [d.chain EXCEPT ![j] = Append(@, x)]
             n == [d.sent EXCEPT ![j] = Len(Reply[d.asked[j]])]
  <2>1. /\ d.asked[j] \in Ops /\ d.asked[j] # NoOp /\ Len(Reply[d.asked[j]]) \in Nat
        /\ x \in Msg /\ x.n <= Len(Reply[x.op])
    <3>1. d.asked[j] \in Ops /\ d.asked[j] # NoOp
      BY <1>1, <1>4, <1>9 DEF Unfinished
    <3>2. Len(Reply[d.asked[j]]) \in Nat
      BY <3>1, ConstantsAssumption
    <3> QED
      BY <3>1, <3>2 DEF Msg
  <2>2. DOMAIN d.chain = Ids /\ DOMAIN d.sent = Ids /\ d \in Handles
    <3>1. GoodHandle(d)
      BY CancelGood DEF CancelAnswered, d
    <3> QED
      BY <3>1 DEF GoodHandle, Handles
  <2>3. r = [d EXCEPT !.sent = n, !.chain = e]
    BY <1>9 DEF Stopped
  <2>4. /\ e[j] = Append(d.chain[j], x) /\ n[j] = Len(Reply[d.asked[j]])
        /\ \A i \in Ids \ {j} : e[i] = d.chain[i] /\ n[i] = d.sent[i]
    BY <2>2
  <2> HIDE DEF x, e, n
  <2>5. /\ r.wire = d.wire /\ r.chain = e /\ r.st = d.st /\ r.fd = d.fd /\ r.sent = n
        /\ r.asked = d.asked
    BY <2>2, <2>3 DEF Handles
  <2>6. Fit(r)
    <3>1. Fits(Append(d.chain[j], x))
      <4>1. d.chain[j] \in Seq(Msg) /\ Fits(d.chain[j])
        BY <1>4, <1>5
      <4> QED
        BY <2>1, <4>1, FitsKept
    <3>2. ASSUME NEW i \in Ids
          PROVE  /\ r.asked[i] = NoOp => r.sent[i] = 0
                 /\ r.asked[i] # NoOp => r.sent[i] <= Len(Reply[r.asked[i]])
                 /\ Fits(r.wire[i]) /\ Fits(r.chain[i])
      <4>1. CASE i = j
        <5>1. r.asked[i] = d.asked[j] /\ r.asked[i] # NoOp /\ r.sent[i] = Len(Reply[d.asked[j]])
          BY <2>1, <2>4, <2>5, <4>1
        <5>2. Fits(r.wire[i]) /\ Fits(r.chain[i])
          BY <1>6, <2>4, <2>5, <3>1, <4>1 DEF Fit
        <5>3. Len(Reply[d.asked[j]]) <= Len(Reply[d.asked[j]])
          BY <2>1
        <5> QED
          BY <5>1, <5>2, <5>3
      <4>2. CASE i # j
        BY <1>6, <2>4, <2>5, <4>2 DEF Fit
      <4> QED
        BY <4>1, <4>2
    <3> QED
      BY <3>2 DEF Fit
  <2>7. \A i \in Ids \ {j}, a \in Nat : Flows(g, i, a) => Flows(r, i, a)
    BY <1>7, <2>4, <2>5, ZenonT(30) DEF Flows
  <2> QED
    BY <1>4, <2>5, <2>6, <2>7
<1> QED
  BY <1>8, <1>9 DEF CancelAnswered, d

(***************************************************************************)
(* The operations that a step is not about.                                *)
(***************************************************************************)
\* If a step does not make t's request, and t is in peace after it, t was so before.
LEMMA PeaceBefore ==
  ASSUME Inv, [Next]_vars, h'.epoch \in Nat, h'.epoch >= h.epoch,
         NEW t \in Ops, msgid'[t] = msgid[t], born'[t] = born[t], Peace(t)'
  PROVE  Peace(t) /\ h'.epoch = h.epoch /\ msgid[t] \in Ids
<1>1. /\ born[t] \in Nat /\ h.epoch \in Nat /\ born[t] <= h.epoch
      /\ born[t] = h.epoch => msgid[t] \in Ids
  BY DEF Inv, TypeOK, GoodRequest, Handles
<1>2. born[t] = h'.epoch
  BY DEF Peace
<1>3. h'.epoch = h.epoch /\ born[t] = h.epoch /\ msgid[t] \in Ids
  BY <1>1, <1>2
<1>4. ASSUME Parallel, NEW u \in Ops, msgid[u] = msgid[t]
      PROVE  born[u] = h.epoch
  <2>1. msgid'[u] = msgid[u] /\ born'[u] = born[u]
    BY <1>3, <1>4, NoIdIsNone, AttemptsAssignOnce
  <2> QED
    BY <1>3, <1>4, <2>1 DEF Peace, Undisturbed
<1> QED
  BY <1>3, <1>4 DEF Peace, Undisturbed

\* An operation that a step leaves alone stays in turn, if its queues flow on and nobody gives it a
\* reader.
LEMMA PassiveInTurn ==
  ASSUME Inv, OrderInv, [Next]_vars, h'.epoch \in Nat, h'.epoch >= h.epoch, NEW t \in Ops,
         pc'[t] = pc[t], got'[t] = got[t], fut'[t] = fut[t], msgid'[t] = msgid[t], born'[t] = born[t],
         h'.epoch = h.epoch => h'.fd = h.fd /\ (reader'[h.fd] = t => reader[h.fd] = t),
         pc[t] \in Open /\ Peace(t) /\ h'.epoch = h.epoch =>
           \A a \in Nat : Flows(h, msgid[t], a) => Flows(h', msgid[t], a),
         ~Parallel /\ pc[t] \in Running =>
           /\ UNCHANGED pc
           /\ pc[t] \in Open =>
                h'.epoch = h.epoch /\ h'.st # "gone" /\ reader'[h.fd] \in {t, NoOp}
  PROVE  InTurn(t)'
<1>1. FutureOf(t)'
  BY DEF OrderInv, InTurn, FutureOf
<1>2. ReaderGone(t)'
  <2>1. SUFFICES ASSUME born[t] = h'.epoch, fut[t].st \in {"result", "error"} \/ pc[t] = "yielded"
                 PROVE  reader'[h'.fd] # t
    BY DEF ReaderGone
  <2>2. h'.epoch = h.epoch
    <3>1. born[t] \in Nat /\ h.epoch \in Nat /\ born[t] <= h.epoch
      BY DEF Inv, TypeOK, GoodRequest, Handles
    <3> QED
      BY <2>1, <3>1
  <2> QED
    BY <2>1, <2>2 DEF OrderInv, InTurn, ReaderGone
<1>3. ASSUME Peace(t)'
      PROVE  Flowing(t)'
  <2>1. Peace(t) /\ h'.epoch = h.epoch /\ msgid[t] \in Ids
    BY <1>3, PeaceBefore
  <2>2. Flowing(t)
    BY <2>1 DEF OrderInv, InTurn
  <2>3. Len(got[t]) + Len(fut[t].val) \in Nat
    BY DEF Inv, TypeOK, Futures
  <2> QED
    BY <2>1, <2>2, <2>3 DEF Flowing
<1>4. ASSUME ~Parallel
      PROVE  Undivided(t)'
  <2>1. Undivided(t)
    BY <1>4 DEF OrderInv, InTurn
  <2>2. CASE pc[t] \in Running
    BY <1>4, <2>1, <2>2 DEF Undivided, Ended, Running
  <2>3. CASE pc[t] \notin Running
    BY <2>3 DEF Undivided, Running
  <2> QED
    BY <2>2, <2>3
<1> QED
  BY <1>1, <1>2, <1>3, <1>4 DEF InTurn

\* A step that makes no request leaves the message ids distinct.
LEMMA DistinctKept ==
  ASSUME Inv, OrderInv, UNCHANGED <<msgid, born>>, h'.epoch \in Nat, h'.epoch >= h.epoch
  PROVE  Distinct'
<1>1. \A t \in Ops : born[t] \in Nat /\ h.epoch \in Nat /\ born[t] <= h.epoch
  BY DEF Inv, TypeOK, GoodRequest, Handles
<1>2. \A t \in Ops : born[t] = h'.epoch => born[t] = h.epoch
  BY <1>1
<1> QED
  BY <1>2 DEF OrderInv, Distinct

\* What another operation does under its message id is nothing to an operation in peace.
LEMMA NotMine ==
  ASSUME Inv, OrderInv, NEW t \in Ops, NEW u \in Ops \ {t}, pc[u] \in Open, Peace(u),
         pc[t] = "yielded" \/ reader[h.fd] = t
  PROVE  msgid[t] # msgid[u] /\ msgid[u] \in Ids
<1>1. msgid[u] \in Ids
  BY DEF Peace, Inv, GoodRequest
<1>2. CASE Parallel
  <2>1. born[u] = h.epoch /\ \A o \in Ops : msgid[o] = msgid[u] => born[o] = h.epoch
    BY <1>2 DEF Peace, Undisturbed
  <2>2. Distinct /\ t # u
    BY DEF OrderInv
  <2> QED
    BY <1>1, <2>1, <2>2 DEF Distinct
<1>3. CASE ~Parallel
  <2>1. Undivided(u) /\ NoOp \notin Ops
    BY <1>3, ConstantsAssumption DEF OrderInv, InTurn
  <2> QED
    BY <1>3, <2>1 DEF Undivided, Running, Open, Ended
<1> QED
  BY <1>1, <1>2, <1>3

(***************************************************************************)
(* Each action keeps the order.                                            *)
(***************************************************************************)
\* The task goes on, or breaks off: the handle is as it was.
LEMMA QuietOrder ==
  ASSUME Inv, OrderInv, [Next]_vars, NEW t \in Ops, UNCHANGED <<h, msgid, born>>,
         pc[t] \in Running,
         \A u \in Ops \ {t} : pc'[u] = pc[u] /\ fut'[u] = fut[u] /\ got'[u] = got[u],
         \A f \in FDs : reader'[f] \in {reader[f], NoOp, t},
         InTurn(t)'
  PROVE  OrderInv'
<1>1. h.epoch \in Nat /\ h.fd \in FDs /\ NoOp \notin Ops
  BY ConstantsAssumption DEF Inv, TypeOK, Handles
<1>2. ASSUME NEW u \in Ops \ {t}
      PROVE  InTurn(u)'
  <2>1. reader'[h.fd] = u => reader[h.fd] = u
    BY <1>1
  <2>2. ~Parallel => pc[u] \notin Running
    BY DEF OrderInv, InTurn, Undivided, Running, Ended, Open
  <2> QED
    BY <1>1, <2>1, <2>2, PassiveInTurn
<1>3. Distinct'
  BY <1>1, DistinctKept
<1> QED
  BY <1>2, <1>3 DEF OrderInv

\* The task is given the response.
LEMMA ResumeGivenOrder ==
  ASSUME Inv, OrderInv, [Next]_vars, NEW t \in Ops, Resume(t), ~Unreadable(fut[t].val)
  PROVE  OrderInv'
<1> DEFINE val == fut[t].val
           all == got[t] \o val
<1>1. /\ pc[t] = "waiting" /\ fut[t].st = "result"
      /\ got' = [got EXCEPT ![t] = all] /\ fut' = [fut EXCEPT ![t] = NoFuture]
      /\ pc' = [pc EXCEPT ![t] = IF TooMany(t, got'[t]) THEN "failed"
                                 ELSE IF Kind[t] = "iterate" /\ Type(val[1]) # "result" THEN "yielded"
                                 ELSE "done"]
      /\ UNCHANGED <<h, msgid, born, reader>>
  BY DEF Resume, loopVars
<1>2. /\ pc \in [Ops -> PCs] /\ fut \in [Ops -> Futures] /\ got \in [Ops -> Seq(Msg)]
      /\ reader \in [FDs -> Ops \cup {NoOp}]
      /\ got[t] \in Seq(Msg) /\ val \in Seq(Msg) /\ Len(got[t]) \in Nat /\ Len(val) \in Nat
  BY DEF Inv, TypeOK, Futures
<1>3. FutureOf(t) /\ ReaderGone(t) /\ (Peace(t) => Flowing(t)) /\ (~Parallel => Undivided(t))
  BY DEF OrderInv, InTurn
<1> HIDE DEF all
<1>4. /\ got'[t] = all /\ fut'[t] = NoFuture /\ NoFuture.st = "none" /\ NoFuture.val = <<>>
      /\ pc'[t] \in {"failed", "done", "yielded"}
      /\ pc'[t] = "yielded" => Kind[t] = "iterate" /\ Type(val[1]) # "result"
      /\ \A k \in 1..Len(val) : Type(val[k]) # "reference"
      /\ \A u \in Ops \ {t} : pc'[u] = pc[u] /\ fut'[u] = fut[u] /\ got'[u] = got[u]
  BY <1>1, <1>2 DEF NoFuture, Unreadable
<1>5. all \in Seq(Msg) /\ Len(all) = Len(got[t]) + Len(val) /\ Fits(all) /\ Fits(<<>>)
  <2>1. Fits(got[t]) /\ Fits(val) /\ Fits(<<>>)
    BY <1>3 DEF FutureOf, Fits
  <2> QED
    BY <1>2, <2>1, ConcatProperties, FitsKept DEF all
<1>6. FutureOf(t)'
  <2>1. pc'[t] = "yielded" => all # <<>> /\ Type(all[Len(all)]) \notin {"result", "reference"}
    <3>1. SUFFICES ASSUME pc'[t] = "yielded"
                   PROVE  all # <<>> /\ Type(all[Len(all)]) \notin {"result", "reference"}
      OBVIOUS
    <3>2. Len(val) = 1 /\ Type(val[1]) \notin {"result", "reference"}
      BY <1>1, <1>3, <1>4, <3>1 DEF FutureOf
    <3>3. Len(all) = Len(got[t]) + 1 /\ all[Len(got[t]) + 1] = val[1]
      BY <1>2, <1>5, <3>2, ConcatProperties DEF all
    <3> QED
      BY <1>2, <3>2, <3>3
  <2> QED
    BY <1>4, <1>5, <2>1 DEF FutureOf
<1>7. ReaderGone(t)'
  BY <1>1, <1>3, <1>4 DEF ReaderGone
<1>8. ASSUME Peace(t)'
      PROVE  Flowing(t)'
  <2>1. Peace(t) /\ msgid[t] \in Ids
    <3>1. h.epoch \in Nat
      BY DEF Inv, TypeOK, Handles
    <3> QED
      BY <1>1, <1>8, <3>1, PeaceBefore
  <2>2. /\ Run(got[t], 0) /\ Run(val, Len(got[t]))
        /\ Flows(h, msgid[t], Len(got[t]) + Len(val))
    BY <1>1, <1>3, <2>1 DEF Flowing, Open
  <2>3. Run(all, 0)
    BY <1>2, <2>2, RunConcat DEF all
  <2>4. Run(<<>>, Len(all)) /\ Len(all) + Len(<<>>) = Len(got[t]) + Len(val)
    BY <1>2, <1>5 DEF Run
  <2>5. fut'[t].val = <<>> /\ h' = h /\ msgid'[t] = msgid[t] /\ got'[t] = all
    BY <1>1, <1>4
  <2>6. Flows(h', msgid'[t], Len(got'[t]) + Len(fut'[t].val))
    BY <2>2, <2>4, <2>5
  <2> QED
    BY <2>3, <2>4, <2>5, <2>6 DEF Flowing
<1>9. ASSUME ~Parallel
      PROVE  Undivided(t)'
  BY <1>1, <1>3, <1>4, <1>9 DEF Undivided, Running, Open, Ended
<1>10. InTurn(t)'
  BY <1>6, <1>7, <1>8, <1>9 DEF InTurn
<1> QED
  BY <1>1, <1>4, <1>10, QuietOrder DEF Running, Open

\* The task ends with an exception, or its future is cancelled.
Misread(t) == Resume(t) /\ Unreadable(fut[t].val)

LEMMA BrokenOrder ==
  ASSUME Inv, OrderInv, [Next]_vars, NEW t \in Ops,
         Raise(t) \/ TimerFires(t) \/ CancelTask(t) \/ Misread(t)
  PROVE  OrderInv'
<1>1. /\ pc[t] \in {"waiting", "sleeping"} /\ UNCHANGED <<h, msgid, born, got>>
      /\ \A f \in FDs : reader'[f] \in {reader[f], NoOp}
      /\ pc \in [Ops -> PCs] /\ fut \in [Ops -> Futures]
  BY DEF Raise, TimerFires, CancelTask, Misread, Resume, RemoveReader, loopVars, Inv, TypeOK
<1>2. /\ pc'[t] \in {"failed", "cancelled"} \/ (pc'[t] = "waiting" /\ fut'[t].st = "cancelled")
      /\ fut'[t].val = <<>> /\ fut'[t].st \in {"none", "cancelled"}
      /\ \A u \in Ops \ {t} : pc'[u] = pc[u] /\ fut'[u] = fut[u]
  <2>1. CASE Raise(t)
    BY <1>1, <2>1 DEF Raise, NoFuture
  <2>2. CASE TimerFires(t)
    BY <1>1, <2>2 DEF TimerFires, Settle
  <2>3. CASE CancelTask(t) /\ pc[t] = "waiting"
    BY <1>1, <2>3 DEF CancelTask, Settle
  <2>4. CASE CancelTask(t) /\ pc[t] # "waiting"
    <3>1. fut[t] = NoFuture /\ fut' = fut /\ pc' = [pc EXCEPT ![t] = "cancelled"]
      BY <1>1, <2>4 DEF CancelTask, Inv, GoodRequest
    <3> QED
      BY <1>1, <3>1 DEF NoFuture
  <2>5. CASE Misread(t)
    BY <1>1, <2>5 DEF Misread, Resume, NoFuture
  <2> QED
    BY <2>1, <2>2, <2>3, <2>4, <2>5
<1>3. /\ FutureOf(t) /\ (Peace(t) => Flowing(t)) /\ (~Parallel => Undivided(t))
      /\ pc'[t] = "waiting" => pc[t] = "waiting"
  <2>1. pc[t] = "sleeping" => pc'[t] # "waiting"
    BY <1>1 DEF Raise, TimerFires, CancelTask, Misread, Resume
  <2> QED
    BY <1>1, <2>1 DEF OrderInv, InTurn
<1>4. FutureOf(t)'
  <2>1. Fits(<<>>)
    BY DEF Fits
  <2> QED
    BY <1>1, <1>2, <1>3, <2>1 DEF FutureOf
<1>5. ReaderGone(t)'
  BY <1>2 DEF ReaderGone
<1>6. ASSUME Peace(t)'
      PROVE  Flowing(t)'
  <2>1. Peace(t)
    <3>1. h.epoch \in Nat
      BY DEF Inv, TypeOK, Handles
    <3> QED
      BY <1>1, <1>6, <3>1, PeaceBefore
  <2>2. Run(got[t], 0) /\ Run(<<>>, Len(got[t]))
    BY <1>3, <2>1 DEF Flowing, Run
  <2> QED
    BY <1>1, <1>2, <2>2 DEF Flowing, Open
<1>7. ASSUME ~Parallel
      PROVE  Undivided(t)'
  <2>1. h.fd \in FDs
    BY DEF Inv, TypeOK, Handles
  <2> QED
    BY <1>1, <1>2, <1>3, <1>7, <2>1 DEF Undivided, Running, Open, Ended
<1>8. InTurn(t)'
  BY <1>4, <1>5, <1>6, <1>7 DEF InTurn
<1> QED
  BY <1>1, <1>2, <1>8, QuietOrder DEF Running, Open

\* The consumer of an iteration asks for more.
LEMMA AnextOrder ==
  ASSUME Inv, OrderInv, [Next]_vars, NEW t \in Ops, Anext(t)
  PROVE  OrderInv'
<1>1. /\ pc[t] = "yielded" /\ UNCHANGED <<h, msgid, born, got>>
      /\ pc \in [Ops -> PCs] /\ fut \in [Ops -> Futures] /\ h.fd \in FDs /\ h.epoch \in Nat
      /\ reader \in [FDs -> Ops \cup {NoOp}] /\ got[t] \in Seq(Msg)
  BY DEF Anext, Inv, TypeOK, Handles
<1>2. /\ FutureOf(t) /\ ReaderGone(t) /\ (Peace(t) => Flowing(t)) /\ (~Parallel => Undivided(t))
      /\ fut[t].st = "none" /\ fut[t].val = <<>> /\ Kind[t] = "iterate"
  BY <1>1 DEF OrderInv, InTurn, FutureOf
<1>3. \/ \E p \in {"done", "failed"} :
              pc' = [pc EXCEPT ![t] = p] /\ fut' = fut /\ reader' = reader
      \/ /\ pc' = [pc EXCEPT ![t] = "waiting"]
         /\ fut' = [fut EXCEPT ![t] = Pending] /\ reader' = [reader EXCEPT ![h.fd] = t]
  BY DEF Anext, StartPolling, AddReader, loopVars
<1>4. /\ \/ pc'[t] \in {"done", "failed"} /\ fut'[t] = fut[t] /\ reader' = reader
         \/ pc'[t] = "waiting" /\ fut'[t] = Pending /\ reader'[h.fd] = t
      /\ \A u \in Ops \ {t} : pc'[u] = pc[u] /\ fut'[u] = fut[u]
      /\ \A f \in FDs : reader'[f] \in {reader[f], NoOp, t}
  <2>1. ASSUME NEW p \in {"done", "failed"}, pc' = [pc EXCEPT ![t] = p], fut' = fut, reader' = reader
        PROVE  /\ pc'[t] \in {"done", "failed"} /\ fut'[t] = fut[t] /\ reader' = reader
               /\ \A u \in Ops \ {t} : pc'[u] = pc[u] /\ fut'[u] = fut[u]
               /\ \A f \in FDs : reader'[f] \in {reader[f], NoOp, t}
    BY <1>1, <2>1
  <2>2. CASE /\ pc' = [pc EXCEPT ![t] = "waiting"]
             /\ fut' = [fut EXCEPT ![t] = Pending] /\ reader' = [reader EXCEPT ![h.fd] = t]
    BY <1>1, <2>2
  <2> QED
    BY <1>3, <2>1, <2>2
<1>5. Pending.st = "pending" /\ Pending.val = <<>> /\ Fits(<<>>)
  BY DEF Pending, Fits
<1>6. FutureOf(t)'
  BY <1>1, <1>2, <1>4, <1>5 DEF FutureOf
<1>7. ReaderGone(t)'
  BY <1>2, <1>4, <1>5 DEF ReaderGone
<1>8. ASSUME Peace(t)'
      PROVE  Flowing(t)'
  <2>1. Peace(t)
    BY <1>1, <1>8, PeaceBefore
  <2>2. /\ Run(got[t], 0) /\ Run(<<>>, Len(got[t]))
        /\ Flows(h, msgid[t], Len(got[t]) + Len(<<>>))
    BY <1>1, <1>2, <2>1 DEF Flowing, Open
  <2> QED
    BY <1>1, <1>2, <1>4, <1>5, <2>2 DEF Flowing, Open
<1>9. ASSUME ~Parallel
      PROVE  Undivided(t)'
  BY <1>1, <1>2, <1>4, <1>9 DEF Undivided, Running, Open, Ended
<1>10. InTurn(t)'
  BY <1>6, <1>7, <1>8, <1>9 DEF InTurn
<1> QED
  BY <1>1, <1>4, <1>10, QuietOrder DEF Running, Open

\* A poll of the handle reads at most one message, and loses none.
LEMMA PolledKeeps ==
  ASSUME Inv, OrderInv, NEW t \in Ops, NEW j \in Ids, NEW g \in Polled(t, j)
  PROVE  /\ GoodHandle(g) /\ Fit(g) /\ g.st = h.st /\ g.fd = h.fd
         /\ g.epoch = h.epoch /\ g.next = h.next /\ g.asked = h.asked
         /\ \A i \in Ids, a \in Nat : Flows(h, i, a) => Flows(g, i, a)
<1>1. GoodHandle(h) /\ Fit(h)
  BY DEF Inv, OrderInv
<1>2. CASE g = h
  BY <1>1, <1>2
<1>3. CASE \E i \in InSocket(h) : g = ReadOne(h, i)
  <2>1. PICK i \in Ids : h.wire[i] # <<>> /\ g = ReadOne(h, i)
    BY <1>3 DEF InSocket
  <2> QED
    BY <1>1, <2>1, ReadOneGood, ReadOneKeeps
<1> QED
  BY <1>2, <1>3 DEF Polled

\* A message with a number of the server's is not the result of a cancel.
LEMMA NotCancelled ==
  ASSUME NEW m \in Seq(Msg), m # <<>>, Fits(m), NEW a \in Nat, Run(m, a)
  PROVE  Type(m[Len(m)]) # "cancelled"
<1> DEFINE x == m[Len(m)]
<1>1. Len(m) \in Nat \ {0} /\ x \in Msg /\ x.n = a + Len(m) /\ x.n <= Len(Reply[x.op])
  BY DEF Run, Fits
<1> HIDE DEF x
<1>2. x.n # 0 /\ x.n \in Nat /\ x.op \in Ops
  BY <1>1 DEF Msg
<1>3. Reply[x.op] \in Seq({"entry", "reference", "result"})
  BY <1>2, ConstantsAssumption
<1>4. x.n \in 1..Len(Reply[x.op])
  BY <1>1, <1>2, <1>3
<1>5. Reply[x.op][x.n] \in {"entry", "reference", "result"}
  BY <1>3, <1>4
<1> QED
  BY <1>2, <1>5 DEF Type, x

\* _ready has a response, has read a message for somebody, or has found the end of the file.
ReadyTakes(t, g) ==
  LET c == g.chain[msgid[t]]
  IN /\ Complete(t, c)
     /\ h' = Chained(g, msgid[t], Left(t, c))
     /\ IF fut[t].st = "pending"
        THEN /\ IF Type(Taken(t, c)[Len(Taken(t, c))]) = "cancelled"
                THEN Settle(t, "error", <<>>)
                ELSE Settle(t, "result", Taken(t, c))
             /\ RemoveReader(h.fd)
        ELSE UNCHANGED <<fut, loopVars>>
ReadyReads(t, g) == h' = g /\ UNCHANGED <<fut, loopVars>>
ReadyFails(t) ==
  fut[t].st = "pending" /\ Settle(t, "error", <<>>) /\ RemoveReader(h.fd) /\ UNCHANGED h

\* What becomes of the operations whose reader it is not.
LEMMA ReadyOthers ==
  ASSUME Inv, OrderInv, [Next]_vars, NEW t \in Ops, reader[h.fd] = t,
         UNCHANGED <<pc, msgid, born, got>>, \A u \in Ops \ {t} : fut'[u] = fut[u],
         \A f \in FDs : reader'[f] \in {reader[f], NoOp},
         Fit(h'), h'.epoch = h.epoch, h'.fd = h.fd, h'.st = h.st,
         \A i \in Ids \ {msgid[t]}, a \in Nat : Flows(h, i, a) => Flows(h', i, a),
         InTurn(t)'
  PROVE  OrderInv'
<1>1. h.epoch \in Nat /\ h.fd \in FDs /\ NoOp \notin Ops
  BY ConstantsAssumption DEF Inv, TypeOK, Handles
<1>2. ASSUME NEW u \in Ops \ {t}
      PROVE  InTurn(u)'
  <2>1. reader'[h.fd] = u => reader[h.fd] = u
    BY <1>1
  <2>2. ~Parallel => pc[u] \notin Open
    <3>1. ~Parallel /\ pc[u] \in Open => reader[h.fd] \in {u, NoOp}
      BY DEF OrderInv, InTurn, Undivided
    <3> QED
      BY <1>1, <3>1
  <2>3. pc[u] \in Open /\ Peace(u) => msgid[u] \in Ids \ {msgid[t]}
    BY NotMine
  <2> QED
    BY <1>1, <2>1, <2>2, <2>3, PassiveInTurn
<1>3. Distinct'
  BY <1>1, DistinctKept
<1> QED
  BY <1>2, <1>3 DEF OrderInv

\* The loop calls the reader: what its operation is given follows what it has had.
LEMMA ReadyOrder ==
  ASSUME Inv, OrderInv, [Next]_vars, NEW t \in Ops, Ready(t)
  PROVE  OrderInv'
<1> DEFINE id == msgid[t]
<1>1. /\ reader[h.fd] = t /\ UNCHANGED <<pc, msgid, born, got>> /\ id \in Ids /\ NoOp \notin Ops
      /\ fut \in [Ops -> Futures] /\ h.fd \in FDs /\ h.epoch \in Nat /\ got[t] \in Seq(Msg)
      /\ reader \in [FDs -> Ops \cup {NoOp}]
  BY ConstantsAssumption DEF Ready, Inv, TypeOK, Handles, GoodReaders
<1>2. PICK g \in Polled(t, id) : ReadyTakes(t, g) \/ ReadyReads(t, g) \/ ReadyFails(t)
  BY DEF Ready, Asked, ReadyTakes, ReadyReads, ReadyFails, Chained
<1> DEFINE c == g.chain[id]
<1>3. /\ GoodHandle(g) /\ Fit(g) /\ g.st = h.st /\ g.fd = h.fd /\ g.epoch = h.epoch
      /\ \A i \in Ids, a \in Nat : Flows(h, i, a) => Flows(g, i, a)
  BY <1>1, PolledKeeps
<1>4. /\ FutureOf(t) /\ ReaderGone(t) /\ (Peace(t) => Flowing(t)) /\ (~Parallel => Undivided(t))
      /\ fut[t].st = "pending" => pc[t] = "waiting" /\ fut[t].val = <<>>
  BY DEF OrderInv, InTurn, FutureOf
<1>5. h'.epoch = h.epoch /\ Peace(t)' => Peace(t)
  BY <1>1, PeaceBefore
<1>6. ASSUME Peace(t), pc[t] \in Open
      PROVE  /\ fut[t].st \in {"pending", "cancelled"} /\ fut[t].val = <<>>
             /\ Run(got[t], 0) /\ Run(<<>>, Len(got[t]))
             /\ fut[t].st = "pending" => Flows(h, id, Len(got[t])) /\ Flows(g, id, Len(got[t]))
  <2>1. fut[t].st \in {"pending", "cancelled"} /\ fut[t].val = <<>>
    <3>1. fut[t].st \in {"none", "pending", "result", "error", "cancelled"}
      BY <1>1 DEF Futures
    <3> QED
      BY <1>1, <1>4, <1>6, <3>1 DEF FutureOf, ReaderGone, Peace, Open
  <2>2. Len(got[t]) \in Nat /\ Len(got[t]) + Len(<<>>) = Len(got[t])
    BY <1>1
  <2> QED
    BY <1>1, <1>3, <1>4, <1>6, <2>1, <2>2 DEF Flowing, Run
<1>7. ASSUME h'.epoch = h.epoch, h'.st = h.st, h'.fd = h.fd, reader'[h.fd] \in {t, NoOp}
      PROVE  ~Parallel => Undivided(t)'
  BY <1>1, <1>4, <1>7 DEF Undivided, Ended
<1>8. CASE ReadyReads(t, g)
  <2>1. h' = g /\ fut' = fut /\ reader' = reader
    BY <1>8 DEF ReadyReads, loopVars
  <2>2. FutureOf(t)' /\ ReaderGone(t)'
    BY <1>1, <1>3, <1>4, <2>1 DEF FutureOf, ReaderGone
  <2>3. ASSUME Peace(t)'
        PROVE  Flowing(t)'
    <3>1. Peace(t)
      BY <1>3, <1>5, <2>1, <2>3
    <3>2. /\ got'[t] = got[t] /\ fut'[t] = fut[t] /\ pc'[t] = pc[t] /\ msgid'[t] = id /\ h' = g
          /\ Len(got[t]) + Len(<<>>) = Len(got[t])
      BY <1>1, <2>1
    <3>3. Run(got[t], 0)
      BY <1>4, <3>1 DEF Flowing
    <3>4. CASE pc[t] \in Open
      <4>1. fut[t].st # "cancelled" => Flows(g, id, Len(got[t]) + Len(<<>>))
        BY <1>6, <3>1, <3>2, <3>4
      <4>2. fut[t].val = <<>> /\ Run(<<>>, Len(got[t]))
        BY <1>6, <3>1, <3>4
      <4> QED
        BY <3>2, <3>3, <4>1, <4>2 DEF Flowing
    <3>5. CASE pc[t] \notin Open
      BY <3>2, <3>3, <3>5 DEF Flowing
    <3> QED
      BY <3>4, <3>5
  <2>4. InTurn(t)'
    BY <1>1, <1>3, <1>7, <2>1, <2>2, <2>3 DEF InTurn
  <2> QED
    BY <1>1, <1>3, <2>1, <2>4, ReadyOthers
<1>9. CASE ReadyFails(t)
  <2>1. /\ h' = h /\ fut[t].st = "pending" /\ reader'[h.fd] = NoOp
        /\ fut'[t].st = "error" /\ fut'[t].val = <<>>
        /\ \A u \in Ops \ {t} : fut'[u] = fut[u]
        /\ \A f \in FDs : reader'[f] \in {reader[f], NoOp}
    BY <1>1, <1>9 DEF ReadyFails, Settle, RemoveReader
  <2>2. FutureOf(t)' /\ ReaderGone(t)'
    BY <1>1, <1>4, <2>1 DEF FutureOf, ReaderGone
  <2>3. ASSUME Peace(t)'
        PROVE  Flowing(t)'
    <3>1. Peace(t)
      BY <1>5, <2>1, <2>3
    <3> QED
      BY <1>1, <1>4, <2>1, <3>1 DEF Flowing
  <2>4. InTurn(t)'
    BY <1>7, <2>1, <2>2, <2>3 DEF InTurn
  <2>5. Fit(h')
    BY <2>1 DEF OrderInv
  <2> QED
    BY <1>1, <2>1, <2>4, <2>5, ReadyOthers
<1>10. CASE ReadyTakes(t, g)
  <2> DEFINE v == Taken(t, c)
  <2>1. c # <<>> /\ h' = Chained(g, id, Left(t, c)) /\ c = g.chain[id]
    BY <1>10 DEF ReadyTakes, Complete
  <2> HIDE DEF c
  <2>2. /\ Fit(h') /\ h'.st = g.st /\ h'.fd = g.fd
        /\ v \in Seq(Msg) /\ v # <<>> /\ Fits(v)
        /\ \A i \in Ids \ {id}, a \in Nat : Flows(g, i, a) => Flows(h', i, a)
        /\ \A a \in Nat : Flows(g, id, a) => Run(v, a) /\ Flows(h', id, a + Len(v))
    <3>1. GoodHandle(g) /\ Fit(g) /\ id \in Ids
      BY <1>1, <1>3
    <3> HIDE DEF id
    <3> QED
      BY <2>1, <3>1, TakenKeeps
  <2>3. h'.epoch = h.epoch
    BY <1>3, <2>1 DEF Chained, GoodHandle, Handles
  <2>4. \A i \in Ids \ {id}, a \in Nat : Flows(h, i, a) => Flows(h', i, a)
    BY <1>3, <2>2
  <2>5. CASE fut[t].st # "pending"
    <3>1. fut' = fut /\ reader' = reader
      BY <1>10, <2>5 DEF ReadyTakes, loopVars
    <3>2. FutureOf(t)' /\ ReaderGone(t)'
      BY <1>1, <1>3, <1>4, <2>2, <2>3, <3>1 DEF FutureOf, ReaderGone
    <3>3. ASSUME Peace(t)'
          PROVE  Flowing(t)'
      <4>1. Peace(t) /\ Run(got[t], 0)
        BY <1>4, <1>5, <2>3, <3>3 DEF Flowing
      <4> QED
        BY <1>1, <1>6, <2>5, <3>1, <4>1 DEF Flowing
    <3>4. InTurn(t)'
      BY <1>1, <1>3, <1>7, <2>2, <2>3, <3>1, <3>2, <3>3 DEF InTurn
    <3> QED
      BY <1>1, <1>3, <2>2, <2>3, <2>4, <3>1, <3>4, ReadyOthers
  <2>6. CASE fut[t].st = "pending"
    <3> DEFINE bad == Type(v[Len(v)]) = "cancelled"
    <3>1. /\ reader'[h.fd] = NoOp
          /\ bad => fut'[t].st = "error" /\ fut'[t].val = <<>>
          /\ ~bad => fut'[t].st = "result" /\ fut'[t].val = v
          /\ \A u \in Ops \ {t} : fut'[u] = fut[u]
          /\ \A f \in FDs : reader'[f] \in {reader[f], NoOp}
      <4>1. bad => Settle(t, "error", <<>>)
        BY <1>10, <2>6 DEF ReadyTakes, c
      <4>2. ~bad => Settle(t, "result", v)
        BY <1>10, <2>6 DEF ReadyTakes, c
      <4>3. RemoveReader(h.fd)
        BY <1>10, <2>6 DEF ReadyTakes, c
      <4> HIDE DEF bad, v
      <4> QED
        BY <1>1, <4>1, <4>2, <4>3 DEF Settle, RemoveReader
    <3>2. /\ Kind[t] = "iterate" => Len(v) = 1
          /\ Kind[t] # "iterate" => Type(v[Len(v)]) \in {"result", "cancelled"}
      BY <1>10 DEF ReadyTakes, Complete, Taken, c
    <3> HIDE DEF v
    <3>3. FutureOf(t)'
      <4>1. Fits(<<>>)
        BY DEF Fits
      <4> QED
        BY <1>1, <1>4, <2>2, <2>6, <3>1, <3>2, <4>1 DEF FutureOf
    <3>4. ReaderGone(t)'
      BY <1>1, <1>3, <2>2, <3>1 DEF ReaderGone
    <3>5. ASSUME Peace(t)'
          PROVE  Flowing(t)'
      <4>1. Peace(t) /\ pc[t] = "waiting"
        BY <1>4, <1>5, <2>3, <2>6, <3>5
      <4>2. Run(got[t], 0) /\ Flows(g, id, Len(got[t])) /\ Len(got[t]) \in Nat
        BY <1>1, <1>6, <2>6, <4>1 DEF Open
      <4>3. Run(v, Len(got[t])) /\ Flows(h', id, Len(got[t]) + Len(v))
        BY <2>2, <4>2
      <4>4. ~bad
        BY <2>2, <4>2, <4>3, NotCancelled
      <4> QED
        BY <1>1, <3>1, <4>2, <4>3, <4>4 DEF Flowing
    <3>6. InTurn(t)'
      BY <1>3, <1>7, <2>2, <2>3, <3>1, <3>3, <3>4, <3>5 DEF InTurn
    <3> QED
      BY <1>1, <1>3, <2>2, <2>3, <2>4, <3>1, <3>6, ReadyOthers
  <2> QED
    BY <2>5, <2>6
<1> QED
  BY <1>2, <1>8, <1>9, <1>10

\* An operation makes or ends its request: what the others need.
LEMMA OthersOrder ==
  ASSUME Inv, OrderInv, [Next]_vars, NEW t \in Ops, Fit(h'), h'.epoch \in Nat, h'.epoch >= h.epoch,
         \A u \in Ops \ {t} : /\ pc'[u] = pc[u] /\ got'[u] = got[u] /\ fut'[u] = fut[u]
                              /\ msgid'[u] = msgid[u] /\ born'[u] = born[u],
         h'.epoch = h.epoch => h'.fd = h.fd /\ reader'[h.fd] \in {reader[h.fd], NoOp, t},
         h'.epoch = h.epoch =>
           \A u \in Ops \ {t} : pc[u] \in Open /\ Peace(u) =>
             \A a \in Nat : Flows(h, msgid[u], a) => Flows(h', msgid[u], a),
         ~Parallel => \A u \in Ops \ {t} : pc[u] = "new" \/ Ended(u),
         Distinct', InTurn(t)'
  PROVE  OrderInv'
<1>1. ASSUME NEW u \in Ops \ {t}
      PROVE  InTurn(u)'
  <2>1. h'.epoch = h.epoch => h'.fd = h.fd /\ (reader'[h.fd] = u => reader[h.fd] = u)
    BY ConstantsAssumption
  <2>2. ~Parallel => pc[u] \notin Running
    BY DEF Ended, Running, Open
  <2> QED
    BY <2>1, <2>2, PassiveInTurn
<1> QED
  BY <1>1 DEF OrderInv

\* One attempt of _retry: a request has a message id of its own, and nothing is queued for it.
LEMMA AttemptOrder ==
  ASSUME Inv, OrderInv, [Next]_vars, NEW t \in Ops, pc[t] \in {"new", "sleeping"},
         NEW g, GoodHandle(g), Fit(g), g = h \/ g.epoch = h.epoch + 1,
         NEW o, NEW rs \in [FDs -> Ops \cup {NoOp}], \A f \in FDs : rs[f] \in {reader[f], NoOp},
         NEW ws, Attempt(t, g, o, rs, ws), UNCHANGED got,
         ~Parallel => \A u \in Ops \ {t} : pc[u] = "new" \/ Ended(u)
  PROVE  OrderInv'
<1>1. /\ g.epoch \in Nat /\ h.epoch \in Nat /\ g.epoch >= h.epoch /\ g.next \in Nat
      /\ h.fd \in FDs /\ g.fd \in FDs /\ g.st \in {"up", "lost", "gone"} /\ NoOp \notin Ops
      /\ g.epoch = h.epoch => g = h
      /\ g \in Handles /\ Ids \subseteq Nat
  BY ConstantsAssumption, SMTT(30) DEF Inv, TypeOK, GoodHandle, Handles, Ids
<1>2. /\ pc \in [Ops -> PCs] /\ fut \in [Ops -> Futures] /\ msgid \in [Ops -> Ids \cup {NoId}]
      /\ born \in [Ops -> Nat] /\ got[t] = <<>> /\ fut[t] = NoFuture
      /\ \A u \in Ops : /\ born[u] <= h.epoch
                        /\ born[u] = h.epoch => msgid[u] \in Ids /\ msgid[u] < h.next
  BY DEF Inv, TypeOK, GoodRequest
<1>3. Fits(<<>>) /\ Run(<<>>, 0) /\ Len(<<>>) = 0 /\ NoFuture.st = "none" /\ NoFuture.val = <<>>
  BY DEF Fits, Run, NoFuture
<1>4. CASE Accepted(t, g, o, rs, ws)
  <2>1. /\ h' = Requested(g, t) /\ g.next \in Ids /\ Kind[t] # "unbind" /\ g.st # "gone"
        /\ msgid' = [msgid EXCEPT ![t] = g.next] /\ born' = [born EXCEPT ![t] = g.epoch]
        /\ pc' = [pc EXCEPT ![t] = "waiting"] /\ fut' = [fut EXCEPT ![t] = Pending]
        /\ reader' = [rs EXCEPT ![g.fd] = t]
    BY <1>4 DEF Accepted, StartPolling, AddReader, Usable
  <2>2. /\ Fit(h') /\ h'.st = g.st /\ h'.fd = g.fd /\ h'.epoch = g.epoch
        /\ \A i \in Ids, a \in Nat : Flows(g, i, a) => Flows(h', i, a)
        /\ Flows(h', g.next, 0)
    BY <2>1, RequestedKeeps, RequestedGood
  <2>3. /\ msgid'[t] = g.next /\ born'[t] = g.epoch /\ pc'[t] = "waiting" /\ fut'[t] = Pending
        /\ got'[t] = <<>> /\ reader'[g.fd] = t
        /\ \A u \in Ops \ {t} : /\ pc'[u] = pc[u] /\ got'[u] = got[u] /\ fut'[u] = fut[u]
                                /\ msgid'[u] = msgid[u] /\ born'[u] = born[u]
        /\ \A f \in FDs : reader'[f] \in {reader[f], NoOp, t}
    BY <1>1, <1>2, <2>1
  <2>4. Pending.st = "pending" /\ Pending.val = <<>>
    BY DEF Pending
  <2>5. FutureOf(t)'
    BY <1>3, <2>1, <2>3, <2>4 DEF FutureOf
  <2>6. ReaderGone(t)'
    BY <2>3, <2>4 DEF ReaderGone
  <2>7. Flowing(t)'
    <3>1. Len(got'[t]) + Len(fut'[t].val) = 0 /\ Len(got'[t]) = 0
      BY <1>3, <2>3, <2>4
    <3> QED
      BY <1>3, <2>2, <2>3, <2>4, <3>1 DEF Flowing
  <2>8. ~Parallel => Undivided(t)'
    BY <2>1, <2>2, <2>3 DEF Undivided, Ended
  <2>9. InTurn(t)'
    BY <2>5, <2>6, <2>7, <2>8 DEF InTurn
  <2>10. Distinct'
    <3>1. ASSUME NEW u \in Ops \ {t}, born[u] = g.epoch
          PROVE  msgid[u] # g.next
      <4>1. born[u] \in Nat /\ born[u] <= h.epoch
        BY <1>2
      <4>2. g.epoch = h.epoch
        BY <1>1, <3>1, <4>1
      <4>3. msgid[u] \in Nat /\ msgid[u] < g.next
        BY <1>1, <1>2, <3>1, <4>2
      <4> QED
        BY <1>1, <4>3
    <3>2. \A u \in Ops \ {t} : born[u] = g.epoch => born[u] = h.epoch
      BY <1>1, <1>2
    <3> QED
      BY <2>2, <2>3, <3>1, <3>2 DEF OrderInv, Distinct
  <2>11. h'.epoch = h.epoch => g = h
    BY <1>1, <2>2
  <2>12. h'.epoch = h.epoch =>
           \A u \in Ops \ {t} : pc[u] \in Open /\ Peace(u) =>
             \A a \in Nat : Flows(h, msgid[u], a) => Flows(h', msgid[u], a)
    BY <1>2, <2>2, <2>11 DEF Peace
  <2> QED
    BY <1>1, <2>2, <2>3, <2>9, <2>10, <2>11, <2>12, OthersOrder
<1>5. ASSUME NEW p \in {"done", "failed", "sleeping"}, pc' = [pc EXCEPT ![t] = p],
             UNCHANGED <<msgid, born, fut>>, reader' = rs,
             NEW r, h' = r, r = g \/ r = [g EXCEPT !.st = "gone"]
      PROVE  OrderInv'
  <2>1. /\ Fit(h') /\ h'.fd = g.fd /\ h'.epoch = g.epoch
        /\ \A i \in Ids, a \in Nat : Flows(g, i, a) => Flows(h', i, a)
    <3>1. CASE r = g
      BY <1>5, <3>1
    <3>2. CASE r = [g EXCEPT !.st = "gone"]
      <4>1. r.epoch = g.epoch
        BY <1>1, <3>2 DEF Handles
      <4> QED
        BY <1>5, <3>2, <4>1, BrokenKeeps
    <3> QED
      BY <1>5, <3>1, <3>2
  <2>2. /\ pc'[t] = p /\ fut'[t] = NoFuture /\ got'[t] = <<>>
        /\ \A u \in Ops \ {t} : /\ pc'[u] = pc[u] /\ got'[u] = got[u] /\ fut'[u] = fut[u]
                                /\ msgid'[u] = msgid[u] /\ born'[u] = born[u]
        /\ \A f \in FDs : reader'[f] \in {reader[f], NoOp, t}
    BY <1>2, <1>5
  <2>3. InTurn(t)'
    <3>1. FutureOf(t)' /\ ReaderGone(t)'
      BY <1>3, <2>2 DEF FutureOf, ReaderGone
    <3>2. Flowing(t)'
      BY <1>3, <2>2 DEF Flowing, Open
    <3>3. ~Parallel => Undivided(t)'
      BY <2>2 DEF Undivided, Open, Ended
    <3> QED
      BY <3>1, <3>2, <3>3 DEF InTurn
  <2>4. Distinct'
    BY <1>1, <1>5, <2>1, DistinctKept
  <2>5. h'.epoch = h.epoch => g = h
    BY <1>1, <2>1
  <2>6. h'.epoch = h.epoch =>
           \A u \in Ops \ {t} : pc[u] \in Open /\ Peace(u) =>
             \A a \in Nat : Flows(h, msgid[u], a) => Flows(h', msgid[u], a)
    BY <1>2, <2>1, <2>5 DEF Peace
  <2> QED
    BY <1>1, <2>1, <2>2, <2>3, <2>4, <2>5, <2>6, OthersOrder
<1>6. CASE Unbound(t, g, o, rs, ws)
  <2>1. /\ pc' = [pc EXCEPT ![t] = "done"] /\ reader' = rs /\ UNCHANGED <<msgid, born, fut>>
        /\ h' = g \/ h' = [g EXCEPT !.st = "gone"]
    BY <1>6 DEF Unbound
  <2> QED
    BY <1>5, <2>1
<1>7. CASE Refused(t, g, o, rs, ws) \/ NoHandle(t, g, o, rs, ws)
  <2>1. /\ \E p \in {"failed", "sleeping"} : pc' = [pc EXCEPT ![t] = p]
        /\ reader' = rs /\ UNCHANGED <<msgid, born, fut>> /\ h' = g
    BY <1>7 DEF Refused, ServerDown, NoHandle
  <2> QED
    BY <1>5, <2>1
<1> QED
  BY <1>4, <1>6, <1>7 DEF Attempt

\* The program calls the operation.
LEMMA CallOrder ==
  ASSUME Inv, OrderInv, [Next]_vars, NEW t \in Ops, Call(t)
  PROVE  OrderInv'
<1>1. GoodHandle(h) /\ Fit(h) /\ reader \in [FDs -> Ops \cup {NoOp}]
  BY DEF Inv, OrderInv, TypeOK
<1>2. /\ pc[t] = "new" /\ Attempt(t, h, h.obj, reader, watched) /\ UNCHANGED got
      /\ ~Parallel => \A u \in Ops \ {t} : pc[u] = "new" \/ Ended(u)
  BY DEF Call
<1> QED
  BY <1>1, <1>2, AttemptOrder

\* _retry goes on, with a handle that reconnect() made or without one.
LEMMA RetryOrder ==
  ASSUME Inv, OrderInv, [Next]_vars, NEW t \in Ops, Retry(t)
  PROVE  OrderInv'
<1> DEFINE rs == ReadersAtReconnect
           ws == watched \ {h.fd}
<1>1. /\ GoodHandle(h) /\ Fit(h) /\ h \in Handles /\ h.epoch \in Nat /\ h.fd \in FDs
      /\ h.obj \in Nat /\ ReconnectId \in Nat
      /\ reader \in [FDs -> Ops \cup {NoOp}] /\ pc \in [Ops -> PCs]
      /\ born \in [Ops -> Nat]
  BY ConstantsAssumption DEF Inv, OrderInv, TypeOK, Handles
<1>2. rs \in [FDs -> Ops \cup {NoOp}] /\ \A f \in FDs : rs[f] \in {reader[f], NoOp}
  BY <1>1 DEF ReadersAtReconnect
<1>3. /\ pc[t] = "sleeping" /\ UNCHANGED got
      /\ ~Parallel => \A u \in Ops \ {t} : pc[u] = "new" \/ Ended(u)
  BY DEF Retry, OrderInv, InTurn, Undivided, Running
<1> HIDE DEF rs, ws
<1>4. CASE \E f \in FDs : Attempt(t, Reopened(h, f), obj[t], rs, ws)
  <2>1. PICK f \in FDs : Attempt(t, Reopened(h, f), obj[t], rs, ws)
    BY <1>4
  <2>2. GoodHandle(Reopened(h, f)) /\ Reopened(h, f).epoch = h.epoch + 1 /\ Fit(Reopened(h, f))
    <3>1. h.epoch + 1 \in Nat /\ h.epoch + 1 > 0
      BY <1>1
    <3>2. GoodHandle(Handle(f, ReconnectId, h.epoch + 1, h.obj))
      BY <1>1, <3>1, HandleGood
    <3>3. Fit(Handle(f, ReconnectId, h.epoch + 1, h.obj))
      BY HandleFit
    <3> QED
      BY <3>2, <3>3 DEF Reopened, Handle
  <2> QED
    BY <1>2, <1>3, <2>1, <2>2, AttemptOrder
<1>5. CASE ServerDown(t, [h EXCEPT !.st = "gone"], rs, ws)
  <2>1. /\ h' = [h EXCEPT !.st = "gone"] /\ reader' = rs /\ UNCHANGED <<msgid, born, fut>>
        /\ \E p \in {"failed", "sleeping"} : pc' = [pc EXCEPT ![t] = p]
    BY <1>5 DEF ServerDown
  <2>2. /\ Fit(h') /\ h'.fd = h.fd /\ h'.epoch = h.epoch
        /\ \A i \in Ids, a \in Nat : Flows(h, i, a) => Flows(h', i, a)
    <3>1. h'.epoch = h.epoch
      BY <1>1, <2>1 DEF Handles
    <3> QED
      BY <1>1, <2>1, <3>1, BrokenKeeps
  <2>3. /\ pc'[t] \in {"failed", "sleeping"} /\ \A u \in Ops \ {t} : pc'[u] = pc[u]
        /\ got[t] = <<>> /\ fut[t] = NoFuture
    BY <1>1, <1>3, <2>1 DEF Inv, GoodRequest
  <2>4. InTurn(t)'
    <3>1. Fits(<<>>) /\ Run(<<>>, 0) /\ NoFuture.st = "none" /\ NoFuture.val = <<>>
      BY DEF Fits, Run, NoFuture
    <3>2. fut'[t] = NoFuture /\ got'[t] = <<>>
      BY <1>3, <2>1, <2>3
    <3>3. FutureOf(t)' /\ ReaderGone(t)' /\ Flowing(t)'
      BY <2>3, <3>1, <3>2 DEF FutureOf, ReaderGone, Flowing, Open
    <3>4. ~Parallel => Undivided(t)'
      BY <1>3, <2>3 DEF Undivided, Open, Ended
    <3> QED
      BY <3>3, <3>4 DEF InTurn
  <2>5. Distinct'
    BY <1>1, <2>1, <2>2, DistinctKept
  <2>6. /\ \A u \in Ops \ {t} : /\ pc'[u] = pc[u] /\ got'[u] = got[u] /\ fut'[u] = fut[u]
                                /\ msgid'[u] = msgid[u] /\ born'[u] = born[u]
        /\ reader'[h.fd] \in {reader[h.fd], NoOp, t}
    BY <1>1, <1>2, <1>3, <2>1, <2>3
  <2>7. \A u \in Ops \ {t} : pc[u] \in Open /\ Peace(u) =>
             \A a \in Nat : Flows(h, msgid[u], a) => Flows(h', msgid[u], a)
    BY <2>2 DEF Peace, Inv, GoodRequest
  <2> QED
    BY <1>1, <1>3, <2>2, <2>4, <2>5, <2>6, <2>7, OthersOrder
<1> QED
  BY <1>4, <1>5 DEF Retry, rs, ws

\* The consumer closes an iteration: what it drains stays in the chains of the others.
LEMMA AcloseOrder ==
  ASSUME Inv, OrderInv, [Next]_vars, NEW t \in Ops, Aclose(t)
  PROVE  OrderInv'
<1> DEFINE id == msgid[t]
<1>1. /\ GoodHandle(h) /\ Fit(h) /\ h \in Handles /\ h.epoch \in Nat /\ h.fd \in FDs
      /\ h.obj \in Nat /\ ReconnectId \in Nat /\ pc \in [Ops -> PCs] /\ id \in Ids
      /\ pc[t] = "yielded" /\ pc' = [pc EXCEPT ![t] = "closed"]
      /\ UNCHANGED <<msgid, born, fut, got, reader>>
  BY ConstantsAssumption DEF Inv, OrderInv, TypeOK, Handles, GoodRequest, Aclose
<1> HIDE DEF id
<1>2. /\ FutureOf(t) /\ (Peace(t) => Flowing(t)) /\ (~Parallel => Undivided(t))
      /\ fut[t].st = "none"
  BY <1>1 DEF OrderInv, InTurn, FutureOf
<1>3. /\ Fit(h') /\ h'.epoch \in Nat /\ h'.epoch >= h.epoch
      /\ h'.epoch = h.epoch =>
           /\ h'.fd = h.fd
           /\ \A i \in Ids \ {id}, a \in Nat : Flows(h, i, a) => Flows(h', i, a)
  <2>1. CASE h' \in CancelAnswered(h, id)
    BY <1>1, <2>1, CancelGood, CancelKeeps
  <2>2. CASE \E f \in FDs : h' \in CancelAnswered(Reopened(h, f), id)
    <3>1. PICK f \in FDs : h' \in CancelAnswered(Reopened(h, f), id)
      BY <2>2
    <3>2. GoodHandle(Reopened(h, f)) /\ Reopened(h, f).epoch = h.epoch + 1 /\ Fit(Reopened(h, f))
      <4>1. h.epoch + 1 \in Nat /\ h.epoch + 1 > 0
        BY <1>1
      <4>2. GoodHandle(Handle(f, ReconnectId, h.epoch + 1, h.obj))
        BY <1>1, <4>1, HandleGood
      <4>3. Fit(Handle(f, ReconnectId, h.epoch + 1, h.obj))
        BY HandleFit
      <4> QED
        BY <4>2, <4>3 DEF Reopened, Handle
    <3>3. h'.epoch = h.epoch + 1 /\ Fit(h')
      BY <1>1, <3>1, <3>2, CancelGood, CancelKeeps
    <3> QED
      BY <1>1, <3>3
  <2>3. CASE h' = [h EXCEPT !.st = "gone"]
    <3>1. h'.epoch = h.epoch
      BY <1>1, <2>3 DEF Handles
    <3>2. /\ Fit(h') /\ h'.fd = h.fd
          /\ \A i \in Ids, a \in Nat : Flows(h, i, a) => Flows(h', i, a)
      BY <1>1, <2>3, BrokenKeeps
    <3> QED
      BY <1>1, <3>1, <3>2
  <2>4. CASE h' = h
    BY <1>1, <2>4
  <2> QED
    BY <2>1, <2>2, <2>3, <2>4 DEF Aclose, id
<1>4. pc'[t] = "closed" /\ \A u \in Ops \ {t} : pc'[u] = pc[u]
  BY <1>1
<1>5. InTurn(t)'
  <2>1. FutureOf(t)' /\ ReaderGone(t)'
    BY <1>1, <1>2, <1>4 DEF FutureOf, ReaderGone
  <2>2. ASSUME Peace(t)'
        PROVE  Flowing(t)'
    <3>1. Peace(t)
      BY <1>1, <1>3, <2>2, PeaceBefore
    <3> QED
      BY <1>1, <1>2, <1>4, <3>1 DEF Flowing, Open
  <2>3. ~Parallel => Undivided(t)'
    BY <1>4 DEF Undivided, Running, Open
  <2> QED
    BY <2>1, <2>2, <2>3 DEF InTurn
<1>6. Distinct'
  BY <1>1, <1>3, DistinctKept
<1>7. \A u \in Ops \ {t} : pc[u] \in Open /\ Peace(u) => msgid[u] \in Ids \ {id}
  BY <1>1, NotMine DEF id
<1>8. ~Parallel => \A u \in Ops \ {t} : pc[u] = "new" \/ Ended(u)
  BY <1>1, <1>2 DEF Undivided, Running, Open
<1> QED
  BY <1>1, <1>3, <1>4, <1>5, <1>6, <1>7, <1>8, OthersOrder

\* The connection and the server.
LEMMA ServerOrder ==
  ASSUME Inv, OrderInv, [Next]_vars,
         \/ (\E i \in Ids : ServerSends(i)) \/ Connect \/ ConnectionLost \/ ServerReturns
         \/ UNCHANGED vars
  PROVE  OrderInv'
<1>1. /\ GoodHandle(h) /\ Fit(h) /\ h \in Handles /\ h.epoch \in Nat /\ h.epoch + 1 > h.epoch
      /\ h.epoch + 1 \in Nat
      /\ pc' = pc /\ msgid' = msgid /\ born' = born /\ fut' = fut /\ got' = got /\ reader' = reader
  BY DEF Inv, OrderInv, TypeOK, Handles, ServerSends, Connect, ConnectionLost, ServerReturns,
         vars, opVars, loopVars
<1>2. /\ Fit(h') /\ h'.epoch \in Nat /\ h'.epoch >= h.epoch
      /\ h'.epoch # h.epoch => h.st = "gone"
      /\ h'.epoch = h.epoch =>
           /\ h'.fd = h.fd /\ (h'.st = "gone" => h.st = "gone")
           /\ \A i \in Ids, a \in Nat : Flows(h, i, a) => Flows(h', i, a)
  <2>1. CASE \E i \in Ids : ServerSends(i)
    <3>1. PICK i \in Ids : h' = Answered(h, i) /\ Unfinished(h, i) /\ h.st = "up"
      BY <2>1 DEF ServerSends
    <3>2. h'.epoch = h.epoch
      BY <1>1, <3>1, AnsweredGood DEF Unfinished
    <3> QED
      BY <1>1, <3>1, <3>2, AnsweredKeeps
  <2>2. CASE Connect
    <3>1. PICK f \in FDs : h' = Handle(f, FirstId, h.epoch + 1, h.obj + 1) /\ h.st = "gone"
      BY <2>2 DEF Connect
    <3>2. Fit(h') /\ h'.epoch = h.epoch + 1
      BY <3>1, HandleFit DEF Handle
    <3> QED
      BY <1>1, <3>1, <3>2
  <2>3. CASE ConnectionLost
    <3>1. /\ h' = [h EXCEPT !.st = "lost"] \/ h' = [h EXCEPT !.st = "lost", !.wire = NoMsgs]
          /\ h.st = "up"
      BY <2>3 DEF ConnectionLost
    <3>2. h'.epoch = h.epoch
      BY <1>1, <3>1 DEF Handles
    <3>3. /\ Fit(h') /\ h'.st = "lost" /\ h'.fd = h.fd
          /\ \A i \in Ids, a \in Nat : Flows(h, i, a) => Flows(h', i, a)
      BY <1>1, <3>1, BrokenKeeps
    <3> QED
      BY <1>1, <3>2, <3>3
  <2>4. CASE h' = h
    BY <1>1, <2>4
  <2> QED
    BY <2>1, <2>2, <2>3, <2>4 DEF ServerReturns, vars
<1>3. ASSUME NEW t \in Ops
      PROVE  InTurn(t)'
  <2>1. ~Parallel /\ pc[t] \in Open =>
          h.st # "gone" /\ reader[h.fd] \in {t, NoOp}
    BY DEF OrderInv, InTurn, Undivided
  <2>2. pc[t] \in Open /\ Peace(t) => msgid[t] \in Ids
    BY DEF Peace, Inv, GoodRequest
  <2> QED
    BY <1>1, <1>2, <2>1, <2>2, PassiveInTurn
<1>4. Distinct'
  BY <1>1, <1>2, DistinctKept
<1> QED
  BY <1>2, <1>3, <1>4 DEF OrderInv

\* At the start nothing has been asked for.
LEMMA InitOrder == Init => OrderInv
<1> SUFFICES ASSUME Init PROVE OrderInv
  OBVIOUS
<1>1. PICK f \in FDs : h = Handle(f, FirstId, 1, 1)
  BY ConstantsAssumption DEF Init
<1>2. Fit(h) /\ h.epoch = 1
  BY <1>1, HandleFit DEF Handle
<1>3. ASSUME NEW t \in Ops
      PROVE  pc[t] = "new" /\ born[t] = 0 /\ fut[t] = NoFuture /\ got[t] = <<>>
  BY DEF Init
<1>4. NoFuture.st = "none" /\ NoFuture.val = <<>> /\ Fits(<<>>)
  BY DEF NoFuture, Fits
<1>5. \A t \in Ops : born[t] # h.epoch
  BY <1>2, <1>3
<1>6. ASSUME NEW t \in Ops
      PROVE  InTurn(t)
  <2>1. FutureOf(t) /\ ReaderGone(t)
    BY <1>3, <1>4 DEF FutureOf, ReaderGone
  <2>2. ~Peace(t)
    BY <1>5 DEF Peace
  <2>3. Undivided(t)
    BY <1>3 DEF Undivided, Running, Open
  <2> QED
    BY <2>1, <2>2, <2>3 DEF InTurn
<1>7. Distinct
  BY <1>5 DEF Distinct
<1> QED
  BY <1>2, <1>6, <1>7 DEF OrderInv

\* Every step keeps the order.
LEMMA NextOrder == Inv /\ OrderInv /\ [Next]_vars => OrderInv'
<1> SUFFICES ASSUME Inv, OrderInv, [Next]_vars PROVE OrderInv'
  OBVIOUS
<1>1. ASSUME NEW t \in Ops, Call(t) PROVE OrderInv'
  BY <1>1, CallOrder
<1>2. ASSUME NEW t \in Ops, Retry(t) PROVE OrderInv'
  BY <1>2, RetryOrder
<1>3. ASSUME NEW t \in Ops, Ready(t) PROVE OrderInv'
  BY <1>3, ReadyOrder
<1>4. ASSUME NEW t \in Ops, Resume(t) PROVE OrderInv'
  BY <1>4, ResumeGivenOrder, BrokenOrder DEF Misread
<1>5. ASSUME NEW t \in Ops, Raise(t) \/ TimerFires(t) \/ CancelTask(t) PROVE OrderInv'
  BY <1>5, BrokenOrder
<1>6. ASSUME NEW t \in Ops, Anext(t) PROVE OrderInv'
  BY <1>6, AnextOrder
<1>7. ASSUME NEW t \in Ops, Aclose(t) PROVE OrderInv'
  BY <1>7, AcloseOrder
<1>8. CASE \/ (\E i \in Ids : ServerSends(i)) \/ Connect \/ ConnectionLost \/ ServerReturns
           \/ UNCHANGED vars
  BY <1>8, ServerOrder
<1> QED
  BY <1>1, <1>2, <1>3, <1>4, <1>5, <1>6, <1>7, <1>8 DEF Next

(***************************************************************************)
(* The theorems.                                                           *)
(***************************************************************************)
\* The order holds in every reachable state.
THEOREM OrderInvariance == Spec => [](Inv /\ OrderInv)
<1>1. Init => Inv /\ OrderInv
  BY InitInv, InitOrder
<1>2. (Inv /\ OrderInv) /\ [Next]_vars => (Inv /\ OrderInv)'
  BY NextInv, NextOrder
<1> QED
  BY <1>1, <1>2, PTL DEF Spec

\* An operation whose message id no operation of an earlier handle has is in peace.
LEMMA UndisturbedPeace ==
  ASSUME NEW t \in Ops, Undisturbed(t)
  PROVE  Peace(t)
  BY DEF Undisturbed, Peace

\* However the polls of the tasks interleave on the shared handle, each taking what it finds for
\* itself and putting the rest aside: what _poll has handed to an operation is a prefix of what
\* the server sent for it, with nothing skipped, repeated or overtaken.
THEOREM HandedInOrder == Spec => []InOrder
<1>1. ASSUME Inv, OrderInv
      PROVE  InOrder
  <2>1. ASSUME NEW t \in Ops, Undisturbed(t), NEW k \in 1..Len(got[t])
        PROVE  got[t][k].n = k
    <3>1. Run(got[t], 0)
      BY <1>1, <2>1, UndisturbedPeace DEF OrderInv, InTurn, Flowing
    <3>2. got[t] \in Seq(Msg)
      BY <1>1 DEF Inv, TypeOK
    <3> QED
      BY <3>1, <3>2 DEF Run
  <2> QED
    BY <2>1 DEF InOrder
<1> QED
  BY <1>1, OrderInvariance, PTL

\* And no response gets lost between the socket, libldap's chains, _poll's future and the caller,
\* whoever reads it from the socket.
THEOREM NothingIsLost == Spec => []NothingLost
<1>1. ASSUME Inv, OrderInv
      PROVE  NothingLost
  <2>1. ASSUME NEW t \in Ops, Undisturbed(t), h.st = "up", pc[t] \in {"waiting", "yielded"},
               fut[t].st # "cancelled"
        PROVE  Len(got[t]) + Len(fut[t].val) + Len(h.chain[msgid[t]]) + Len(h.wire[msgid[t]])
                 = h.sent[msgid[t]]
    BY <1>1, <2>1, UndisturbedPeace DEF OrderInv, InTurn, Flowing, Flows, Open
  <2> QED
    BY <2>1 DEF NothingLost
<1> QED
  BY <1>1, OrderInvariance, PTL

-----------------------------------------------------------------------------
(***************************************************************************)
(* AsyncConnection implements OperationContract for every program that     *)
(* does not overlap operations, and every server that answers each request *)
(* as LDAP has it.                                                         *)
(***************************************************************************)

(***************************************************************************)
(* A server answers a request with any number of responses and then its    *)
(* one result, and an unbind with nothing.                                 *)
(***************************************************************************)
RegularReplies ==
  \A t \in Ops :
    IF Kind[t] = "unbind" THEN Reply[t] = <<>>
    ELSE /\ Reply[t] # <<>>
         /\ \A n \in 1..Len(Reply[t]) : Reply[t][n] = "result" <=> n = Len(Reply[t])

\* What t has been handed are its first k responses.
Handed(t, m, k) == k \in 0..Len(Reply[t]) /\ m = Contract!Answers(t, k)

\* Numbered messages of one operation are its responses from the first one on.
LEMMA RunIsAnswers ==
  ASSUME NEW t \in Ops, NEW m \in Seq(Msg), Run(m, 0), Fits(m), \A k \in 1..Len(m) : m[k].op = t
  PROVE  Handed(t, m, Len(m))
<1>1. Len(m) \in Nat /\ Len(Reply[t]) \in Nat
  BY ConstantsAssumption
<1>2. Len(m) <= Len(Reply[t])
  <2>1. CASE Len(m) = 0
    BY <1>1, <2>1
  <2>2. CASE Len(m) # 0
    <3>1. Len(m) \in 1..Len(m)
      BY <1>1, <2>2
    <3>2. m[Len(m)].n = 0 + Len(m) /\ m[Len(m)].n <= Len(Reply[t])
      BY <3>1 DEF Run, Fits
    <3> QED
      BY <1>1, <3>2
  <2> QED
    BY <2>1, <2>2
<1>3. m = [k \in 1..Len(m) |-> [op |-> t, n |-> k]]
  <2>1. ASSUME NEW k \in 1..Len(m)
        PROVE  m[k] = [op |-> t, n |-> k]
    <3>1. m[k] \in Msg /\ m[k].op = t /\ m[k].n = 0 + k
      BY DEF Run
    <3>2. m[k] = [op |-> m[k].op, n |-> m[k].n]
      BY <3>1 DEF Msg
    <3> QED
      BY <3>1, <3>2
  <2>2. m = [k \in 1..Len(m) |-> m[k]]
    OBVIOUS
  <2> QED
    BY <2>1, <2>2
<1> QED
  BY <1>1, <1>2, <1>3 DEF Handed, Contract!Answers

\* A running operation of a sequential program has been handed its first responses.
LEMMA RunningHasAnswers ==
  ASSUME Inv, OrderInv, ~Parallel, NEW t \in Ops, pc[t] \in Running \cup {"new"}
  PROVE  Handed(t, got[t], Len(got[t]))
<1>1. got[t] \in Seq(Msg) /\ Fits(got[t])
  BY DEF Inv, TypeOK, OrderInv, InTurn, FutureOf
<1>2. CASE pc[t] \in Open
  <2>1. born[t] = h.epoch /\ Peace(t)
    BY <1>2 DEF OrderInv, InTurn, Undivided, Peace
  <2>2. Run(got[t], 0) /\ \A k \in 1..Len(got[t]) : got[t][k].op = t
    BY <2>1 DEF OrderInv, InTurn, Flowing, Inv, OwnAnswers
  <2> QED
    BY <1>1, <2>2, RunIsAnswers
<1>3. CASE pc[t] \notin Open
  <2>1. got[t] = <<>>
    BY <1>3 DEF Running, Open, Inv, GoodRequest
  <2>2. Run(got[t], 0) /\ \A k \in 1..Len(got[t]) : got[t][k].op = t
    BY <2>1 DEF Run
  <2> QED
    BY <1>1, <2>2, RunIsAnswers
<1> QED
  BY <1>2, <1>3

\* What it is given next are the responses that follow, and it ends with the last one.
LEMMA ResumeHands ==
  ASSUME Inv, OrderInv, ~Parallel, RegularReplies, NEW t \in Ops, Resume(t),
         ~Unreadable(fut[t].val)
  PROVE  /\ Handed(t, got'[t], Len(got'[t])) /\ Len(got'[t]) >= Len(got[t])
         /\ pc'[t] = "done" => Len(got'[t]) = Len(Reply[t])
<1> DEFINE val == fut[t].val
           all == got[t] \o val
<1>1. /\ pc[t] = "waiting" /\ fut[t].st = "result"
      /\ got' = [got EXCEPT ![t] = all]
      /\ pc' = [pc EXCEPT ![t] = IF TooMany(t, got'[t]) THEN "failed"
                                 ELSE IF Kind[t] = "iterate" /\ Type(val[1]) # "result" THEN "yielded"
                                 ELSE "done"]
  BY DEF Resume
<1>2. /\ pc \in [Ops -> PCs] /\ got \in [Ops -> Seq(Msg)]
      /\ got[t] \in Seq(Msg) /\ val \in Seq(Msg) /\ Len(got[t]) \in Nat /\ Len(val) \in Nat
  BY DEF Inv, TypeOK, Futures
<1> HIDE DEF all
<1>3. /\ got'[t] = all
      /\ pc'[t] = "done" => Kind[t] # "iterate" \/ Type(val[1]) = "result"
  BY <1>1, <1>2
<1>4. /\ Run(got[t], 0) /\ Run(val, Len(got[t])) /\ Fits(got[t]) /\ Fits(val)
      /\ \A k \in 1..Len(got[t]) : got[t][k].op = t
      /\ \A k \in 1..Len(val) : val[k].op = t
      /\ val # <<>> /\ Kind[t] # "unbind"
      /\ Kind[t] = "iterate" => Len(val) = 1
      /\ Kind[t] # "iterate" => Type(val[Len(val)]) = "result"
  <2>1. born[t] = h.epoch /\ Peace(t)
    BY <1>1 DEF OrderInv, InTurn, Undivided, Peace, Open
  <2>2. FutureOf(t) /\ Flowing(t)
    BY <2>1 DEF OrderInv, InTurn
  <2>3. OwnAnswers
    BY DEF Inv
  <2> QED
    BY <1>1, <2>1, <2>2, <2>3 DEF FutureOf, Flowing, OwnAnswers, Open
<1>5. /\ all \in Seq(Msg) /\ Len(all) = Len(got[t]) + Len(val) /\ Run(all, 0) /\ Fits(all)
      /\ \A k \in 1..Len(all) : all[k].op = t
      /\ all[Len(all)] = val[Len(val)]
  <2>1. 0 + Len(got[t]) = Len(got[t])
    BY <1>2
  <2>2. all \in Seq(Msg) /\ Len(all) = Len(got[t]) + Len(val) /\ Run(all, 0) /\ Fits(all)
    BY <1>2, <1>4, <2>1, RunConcat, FitsKept DEF all
  <2>3. /\ \A k \in 1..Len(got[t]) : all[k] = got[t][k]
        /\ \A k \in 1..Len(val) : all[Len(got[t]) + k] = val[k]
    BY <1>2, ConcatProperties DEF all
  <2>4. ASSUME NEW k \in 1..Len(got[t]) + Len(val)
        PROVE  all[k].op = t
    <3>1. CASE k <= Len(got[t])
      BY <1>2, <1>4, <2>3, <3>1
    <3>2. CASE ~(k <= Len(got[t]))
      <4> DEFINE j == k - Len(got[t])
      <4>1. j \in 1..Len(val) /\ k = Len(got[t]) + j
        BY <1>2, <3>2
      <4> HIDE DEF j
      <4>2. all[k] = val[j]
        BY <2>3, <4>1
      <4>3. val[j].op = t
        BY <1>4, <4>1
      <4> QED
        BY <4>2, <4>3
    <3> QED
      BY <3>1, <3>2
  <2>5. Len(val) \in 1..Len(val)
    BY <1>2, <1>4
  <2> QED
    BY <2>2, <2>3, <2>4, <2>5
<1>6. Handed(t, all, Len(all))
  BY <1>5, RunIsAnswers
<1>7. ASSUME pc'[t] = "done"
      PROVE  Len(all) = Len(Reply[t])
  <2> DEFINE x == all[Len(all)]
  <2>1. Type(x) = "result"
    BY <1>3, <1>4, <1>5, <1>7
  <2>2. Len(all) \in 1..Len(all)
    BY <1>2, <1>4, <1>5
  <2>3. x.op = t /\ x.n = Len(all) /\ Len(all) \in 1..Len(Reply[t])
    <3>1. x.op = t /\ x.n = 0 + Len(all)
      BY <1>5, <2>2 DEF Run
    <3> QED
      BY <1>6, <2>2, <3>1 DEF Handed
  <2>4. Reply[t][Len(all)] = "result"
    BY <2>1, <2>3 DEF Type
  <2> QED
    BY <1>4, <2>3, <2>4 DEF RegularReplies
<1> QED
  BY <1>2, <1>3, <1>5, <1>6, <1>7

\* An iteration that yielded has the loop go on.
LEMMA YieldedGoesOn ==
  ASSUME Inv, OrderInv, ~Parallel, NEW t \in Ops, pc[t] = "yielded"
  PROVE  GoesOn(got[t][Len(got[t])])
<1> DEFINE x == got[t][Len(got[t])]
<1>1. /\ got[t] \in Seq(Msg) /\ got[t] # <<>> /\ Kind[t] = "iterate"
      /\ Type(x) \notin {"result", "reference"}
  BY DEF Inv, TypeOK, OrderInv, InTurn, FutureOf
<1>2. Len(got[t]) \in 1..Len(got[t])
  BY <1>1
<1>3. Handed(t, got[t], Len(got[t]))
  BY RunningHasAnswers DEF Running, Open
<1>4. x.op = t /\ x.n = Len(got[t]) /\ Len(got[t]) \in 1..Len(Reply[t])
  BY <1>2, <1>3 DEF Handed, Contract!Answers
<1>5. Reply[t][Len(got[t])] \in {"entry", "reference", "result"}
  BY <1>4, ConstantsAssumption
<1> QED
  BY <1>1, <1>2, <1>4, <1>5 DEF GoesOn, Type

(***************************************************************************)
(* The refinement mapping, step by step.                                   *)
(***************************************************************************)
phases == [t \in Ops |-> Phase(t)]

\* A step of one operation that is handed nothing is a step of the contract or none.
LEMMA PhaseStep ==
  ASSUME Inv, OrderInv, ~Parallel, NEW t \in Ops, pc[t] \in Running \cup {"new"}, UNCHANGED got,
         NEW p, pc' = [pc EXCEPT ![t] = p],
         \/ p \in Running
         \/ p = "done" /\ Len(Reply[t]) = 0
         \/ p \in {"failed", "cancelled", "closed"}
  PROVE  [Contract!Next]_(Contract!vars)
<1>1. /\ pc \in [Ops -> PCs] /\ got \in [Ops -> Seq(Msg)] /\ Handed(t, got[t], Len(got[t]))
      /\ got' = got /\ Len(got[t]) >= Len(got[t]) /\ Len(got[t]) \in Nat
  BY RunningHasAnswers DEF Inv, TypeOK
<1> DEFINE q == IF p \in Running THEN "running" ELSE IF p = "done" THEN "done" ELSE "broken"
<1>2. phases' = [phases EXCEPT ![t] = q]
  BY <1>1 DEF phases, Phase, Running, Open
<1>3. phases[t] = IF pc[t] = "new" THEN "new" ELSE "running"
  <2>1. phases[t] = Phase(t) /\ pc[t] \in {"new", "sleeping", "waiting", "yielded"}
    BY DEF phases, Running, Open
  <2> QED
    BY <2>1 DEF Phase
<1>4. got' = [got EXCEPT ![t] = Contract!Answers(t, Len(got[t]))] /\ Len(got[t]) \in 0..Len(Reply[t])
  <2>1. got = [got EXCEPT ![t] = got[t]]
    BY <1>1
  <2> QED
    BY <1>1, <2>1 DEF Handed
<1>5. CASE p \in Running /\ pc[t] = "new"
  BY <1>1, <1>2, <1>3, <1>5 DEF Contract!Next, Contract!Begin, phases
<1>6. CASE p \in Running /\ pc[t] # "new"
  BY <1>1, <1>2, <1>3, <1>6 DEF Contract!vars, phases
<1>7. CASE p = "done" /\ Len(Reply[t]) = 0 /\ pc[t] = "new"
  BY <1>1, <1>2, <1>3, <1>7 DEF Contract!Next, Contract!Begin, phases, Running, Open
<1>8. CASE p = "done" /\ Len(Reply[t]) = 0 /\ pc[t] # "new"
  <2>1. q = "done" /\ Len(got[t]) = Len(Reply[t])
    BY <1>1, <1>4, <1>8 DEF Running, Open
  <2> HIDE DEF q
  <2>2. Contract!HandOut(t)
    BY <1>1, <1>2, <1>3, <1>4, <1>8, <2>1 DEF Contract!HandOut, phases
  <2> QED
    BY <2>2 DEF Contract!Next
<1>9. CASE p \in {"failed", "cancelled", "closed"}
  BY <1>1, <1>2, <1>3, <1>4, <1>9 DEF Contract!Next, Contract!BreakOff, phases, Running, Open
<1> QED
  BY <1>5, <1>6, <1>7, <1>8, <1>9

\* A step that neither moves an operation nor hands anything out is none of the contract's.
LEMMA SilentStep ==
  ASSUME UNCHANGED <<pc, got>>
  PROVE  UNCHANGED Contract!vars
  BY DEF Contract!vars, Phase

\* An attempt begins an operation, goes on with it, or breaks it off; an unbind ends.
LEMMA AttemptStep ==
  ASSUME Inv, OrderInv, ~Parallel, RegularReplies, NEW t \in Ops, pc[t] \in {"new", "sleeping"},
         NEW g, NEW o, NEW rs, NEW ws, Attempt(t, g, o, rs, ws), UNCHANGED got
  PROVE  [Contract!Next]_(Contract!vars)
<1>1. PICK p : /\ pc' = [pc EXCEPT ![t] = p]
               /\ \/ p \in {"waiting", "sleeping", "failed"}
                  \/ p = "done" /\ Kind[t] = "unbind"
  BY DEF Attempt, Accepted, StartPolling, Unbound, Refused, ServerDown, NoHandle
<1>2. Kind[t] = "unbind" => Len(Reply[t]) = 0
  BY DEF RegularReplies
<1> QED
  BY <1>1, <1>2, PhaseStep DEF Running, Open

\* The caller is given a response.
LEMMA ResumeStep ==
  ASSUME Inv, OrderInv, ~Parallel, RegularReplies, NEW t \in Ops, Resume(t),
         ~Unreadable(fut[t].val)
  PROVE  Contract!Next
<1> DEFINE k == Len(got'[t])
<1>1. /\ Handed(t, got'[t], k) /\ k >= Len(got[t])
      /\ pc'[t] = "done" => k = Len(Reply[t])
  BY ResumeHands
<1>2. /\ pc[t] = "waiting" /\ pc \in [Ops -> PCs] /\ got \in [Ops -> Seq(Msg)]
      /\ got' = [got EXCEPT ![t] = got'[t]]
      /\ \E p \in {"failed", "yielded", "done"} : pc' = [pc EXCEPT ![t] = p]
  BY DEF Resume, Inv, TypeOK
<1>3. PICK p \in {"failed", "yielded", "done"} : pc' = [pc EXCEPT ![t] = p]
  BY <1>2
<1> HIDE DEF k
<1>4. k \in 0..Len(Reply[t]) /\ got' = [got EXCEPT ![t] = Contract!Answers(t, k)]
  BY <1>1, <1>2 DEF Handed
<1>5. phases[t] = "running" /\ pc'[t] = p
  BY <1>2, <1>3 DEF phases, Phase
<1> DEFINE q == IF p = "yielded" THEN "running" ELSE IF p = "done" THEN "done" ELSE "broken"
<1>6. phases' = [phases EXCEPT ![t] = q]
  BY <1>2, <1>3 DEF phases, Phase
<1>7. CASE p = "failed"
  BY <1>1, <1>4, <1>5, <1>6, <1>7 DEF Contract!Next, Contract!BreakOff, phases
<1>8. CASE p = "done"
  BY <1>1, <1>4, <1>5, <1>6, <1>8 DEF Contract!Next, Contract!HandOut, phases
<1>9. CASE p = "yielded"
  <2>1. phases' = phases
    BY <1>5, <1>6, <1>9 DEF phases
  <2> QED
    BY <1>1, <1>4, <1>5, <2>1 DEF Contract!Next, Contract!HandOut, phases
<1> QED
  BY <1>3, <1>7, <1>8, <1>9

\* Every step of the machinery is one of the contract, or none.
LEMMA StepImplements ==
  ASSUME Inv, OrderInv, ~Parallel, RegularReplies, [Next]_vars
  PROVE  [Contract!Next]_(Contract!vars)
<1>1. ASSUME NEW t \in Ops, Call(t)
      PROVE  [Contract!Next]_(Contract!vars)
  <2>1. pc[t] = "new" /\ Attempt(t, h, h.obj, reader, watched) /\ UNCHANGED got
    BY <1>1 DEF Call
  <2> QED
    BY <2>1, AttemptStep
<1>2. ASSUME NEW t \in Ops, Retry(t)
      PROVE  [Contract!Next]_(Contract!vars)
  <2>1. pc[t] = "sleeping" /\ UNCHANGED got
    BY <1>2 DEF Retry
  <2>2. CASE \E f \in FDs :
               Attempt(t, Reopened(h, f), obj[t], ReadersAtReconnect, watched \ {h.fd})
    BY <2>1, <2>2, AttemptStep
  <2>3. CASE ServerDown(t, [h EXCEPT !.st = "gone"], ReadersAtReconnect, watched \ {h.fd})
    <3>1. PICK p \in {"failed", "sleeping"} : pc' = [pc EXCEPT ![t] = p]
      BY <2>3 DEF ServerDown
    <3> QED
      BY <2>1, <3>1, PhaseStep DEF Running
  <2> QED
    BY <1>2, <2>2, <2>3 DEF Retry
<1>3. ASSUME NEW t \in Ops, Ready(t) \/ TimerFires(t)
      PROVE  [Contract!Next]_(Contract!vars)
  <2>1. UNCHANGED <<pc, got>>
    BY <1>3 DEF Ready, TimerFires
  <2> QED
    BY <2>1, SilentStep
<1>4. ASSUME NEW t \in Ops, Resume(t)
      PROVE  [Contract!Next]_(Contract!vars)
  <2>1. CASE ~Unreadable(fut[t].val)
    BY <1>4, <2>1, ResumeStep
  <2>2. CASE Unreadable(fut[t].val)
    <3>1. pc[t] \in Running /\ pc' = [pc EXCEPT ![t] = "failed"] /\ UNCHANGED got
      BY <1>4, <2>2 DEF Resume, Running, Open
    <3> QED
      BY <3>1, PhaseStep
  <2> QED
    BY <2>1, <2>2
<1>5. ASSUME NEW t \in Ops, Raise(t) \/ CancelTask(t) \/ Aclose(t)
      PROVE  [Contract!Next]_(Contract!vars)
  <2>1. PICK p \in {"failed", "cancelled", "closed"} : pc' = [pc EXCEPT ![t] = p]
    BY <1>5 DEF Raise, CancelTask, Aclose
  <2>2. pc[t] \in Running /\ UNCHANGED got
    BY <1>5 DEF Raise, CancelTask, Aclose, Running, Open
  <2> QED
    BY <2>1, <2>2, PhaseStep
<1>6. ASSUME NEW t \in Ops, Anext(t)
      PROVE  [Contract!Next]_(Contract!vars)
  <2>1. pc[t] = "yielded" /\ UNCHANGED got
    BY <1>6 DEF Anext
  <2>2. GoesOn(got[t][Len(got[t])])
    BY <2>1, YieldedGoesOn
  <2>3. PICK p \in {"waiting", "failed"} : pc' = [pc EXCEPT ![t] = p]
    BY <1>6, <2>2 DEF Anext, StartPolling
  <2> QED
    BY <2>1, <2>3, PhaseStep DEF Running, Open
<1>7. CASE (\E i \in Ids : ServerSends(i)) \/ Connect \/ ConnectionLost \/ ServerReturns
  <2>1. UNCHANGED <<pc, got>>
    BY <1>7 DEF ServerSends, Connect, ConnectionLost, ServerReturns, opVars
  <2> QED
    BY <2>1, SilentStep
<1>8. CASE UNCHANGED vars
  <2>1. UNCHANGED <<pc, got>>
    BY <1>8 DEF vars, opVars
  <2> QED
    BY <2>1, SilentStep
<1> QED
  BY <1>1, <1>2, <1>3, <1>4, <1>5, <1>6, <1>7, <1>8 DEF Next

\* As long as a program does not overlap operations, the machinery keeps the promise that
\* OperationContract makes to callers: an operation is handed its own responses, in order, and
\* all of them if it returns normally, through lost connections, retries, time limits,
\* cancellations and iterations closed half-way.
THEOREM KeepsContract ==
  ASSUME ~Parallel, RegularReplies
  PROVE  Spec => ContractSpec
<1>1. Init => Contract!Init
  BY DEF Init, Contract!Init, Phase
<1>2. Inv /\ OrderInv /\ [Next]_vars => [Contract!Next]_(Contract!vars)
  BY StepImplements
<1> QED
  BY <1>1, <1>2, OrderInvariance, PTL DEF Spec, ContractSpec, Contract!Spec
=============================================================================
