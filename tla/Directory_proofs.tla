--------------------------- MODULE Directory_proofs ---------------------------
(***************************************************************************)
(* Proofs about Directory: transaction() and delete_recursive(), whatever  *)
(* the names, the trees and the number of calls.                           *)
(***************************************************************************)
EXTENDS Directory, SequenceTheorems, TLAPS

\* s is a sequence, of whatever.
Sequence(s) == s \in Seq({s[n] : n \in DOMAIN s})
Members(s) == {s[n] : n \in DOMAIN s}

\* What is a sequence of some elements is one of its own members.
LEMMA SequenceOfMembers ==
  ASSUME NEW S, NEW s \in Seq(S)
  PROVE  Sequence(s) /\ Len(s) \in Nat /\ DOMAIN s = 1 .. Len(s) /\ (s = <<>> <=> Len(s) = 0)
<1>1. Len(s) \in Nat /\ DOMAIN s = 1 .. Len(s) /\ (s = <<>> <=> Len(s) = 0)
  BY EmptySeq
<1>2. Sequence(s)
  BY <1>1 DEF Sequence
<1> QED
  BY <1>1, <1>2

(***************************************************************************)
(* Requests.                                                               *)
(***************************************************************************)

\* A server that the connection has lost has no transaction for it any more.
Dropped == link # "up" => pending = NoTxn

\* What is left of connection, tree and queue after a request.
LEMMA ExchangeOutcome ==
  ASSUME NEW c, NEW result, NEW t, NEW queue, NEW res,
         Dropped, Exchange(c, result, t, queue, res)
  PROVE  /\ Dropped'
         /\ pending' \in {pending, queue, NoTxn} /\ tree' \in {tree, t}
         /\ res \in Failures \cup {result}
         /\ res \notin Failures => tree' = t /\ pending' = queue
  BY DEF Dropped, Exchange, Failures

\* The handle after a request, which is one that python-ldap could bind, or is deleted.
LEMMA ExchangeHandle ==
  ASSUME NEW c, NEW result, NEW t, NEW queue, NEW res, Exchange(c, result, t, queue, res)
  PROVE  /\ link = "gone" \/ Unusable(c) => link' = "gone" /\ tree' = tree
         /\ res = "ok" => link # "gone" /\ ~Unusable(c) /\ link' = "up"
  BY DEF Exchange

\* A request is queued in the transaction or changes the tree, and counts as promised only in the
\* first case, and if it has succeeded.
LEMMA AskOutcome ==
  ASSUME NEW q, NEW via, NEW res, Dropped, Ask(q, via, res)
  PROVE  /\ Dropped'
         /\ tree' = tree \/ tree' = Effect(q, tree)
         /\ Inside(via) => tree' = tree
         /\ res \in Outcomes(q, via)
         /\ ~Inside(via) /\ res \notin Failures => tree' = Effect(q, tree)
         /\ \/ pending' \in {pending, NoTxn} /\ promised' = promised
            \/ /\ pending # NoTxn /\ pending' \in {pending, NoTxn, Append(pending, q)}
               /\ promised' = promised \/ (pending' = Append(pending, q) /\ promised' = promised \cup {q})
<1> DEFINE queued == Inside(via) /\ Answered(q, via) = "ok"
           t == IF Inside(via) THEN tree ELSE Effect(q, tree)
           queue == IF queued THEN Append(pending, q) ELSE pending
<1>1. /\ Exchange(ctl, Answered(q, via), t, queue, res)
      /\ promised' = IF queued /\ res = "ok" THEN promised \cup {q} ELSE promised
  BY DEF Ask
<1>2. /\ Dropped'
      /\ pending' \in {pending, queue, NoTxn} /\ tree' \in {tree, t}
      /\ res \in Failures \cup {Answered(q, via)}
      /\ res \notin Failures => tree' = t /\ pending' = queue
  BY <1>1, ExchangeOutcome
<1>3. queued => pending # NoTxn
  BY DEF Answered
<1>4. "ok" \notin Failures
  BY DEF Failures
<1> QED
  BY <1>1, <1>2, <1>3, <1>4 DEF Outcomes

(***************************************************************************)
(* transaction().                                                          *)
(***************************************************************************)

\* Both lists have the block's control as last value of the option while the block is open, and
\* so has the handle, if there is one; otherwise none of them.
InForce(handle, c) == c.own /\ c.py /\ (handle # "gone" => c.now)
OutOfForce(handle, c) == ~c.own /\ ~c.py /\ (handle # "gone" => ~c.now)
ControlsInForce ==
  (block = "open" => InForce(link, ctl)) /\ (block # "open" => OutOfForce(link, ctl))

\* The queue of the transaction at the server has all that the block has seen succeed, until it
\* is lost as a whole.
Fulfilled ==
  pending # NoTxn => Sequence(pending) /\ (block # "none" => promised \subseteq Members(pending))

NoneStray == block # "none" => ~stray

TxnInv == ControlsInForce /\ Dropped /\ Fulfilled /\ NoneStray

\* What the option is set to is in force.
LEMMA OptionSet ==
  ASSUME NEW handle, NEW c
  PROVE  /\ InForce(handle, SetOption(handle, c, TRUE))
         /\ OutOfForce(handle, SetOption(handle, c, FALSE))
  BY DEF InForce, OutOfForce, SetOption

\* So it is after a reconnect.
LEMMA OptionsRestored ==
  ASSUME NEW handle, NEW c
  PROVE  /\ InForce(handle, c) => InForce("up", RestoreOptions(c))
         /\ OutOfForce(handle, c) => OutOfForce("up", RestoreOptions(c))
<1> DEFINE r == RestoreOptions(c)
<1>1. r.now = c.own /\ r.own = c.own /\ r.py = c.own
  BY DEF RestoreOptions, SetOption
<1>2. r = RestoreOptions(c)
  OBVIOUS
<1> HIDE DEF r
<1>3. InForce(handle, c) => InForce("up", r)
  BY <1>1, Zenon DEF InForce
<1>4. OutOfForce(handle, c) => OutOfForce("up", r)
  BY <1>1, Zenon DEF OutOfForce
<1> QED
  BY <1>2, <1>3, <1>4

\* A request leaves it in force.
LEMMA ReachedInForce ==
  ASSUME NEW c, NEW result, NEW t, NEW queue, NEW res, Exchange(c, result, t, queue, res)
  PROVE  /\ InForce(link, c) => InForce(link', Reached(c))
         /\ OutOfForce(link, c) => OutOfForce(link', Reached(c))
<1>1. CASE link = "lost" /\ ~Unusable(c)
  <2>1. Reached(c) = RestoreOptions(c)
    BY <1>1 DEF Reached
  <2>2. /\ InForce("up", Reached(c)) => InForce(link', Reached(c))
        /\ OutOfForce("up", Reached(c)) => OutOfForce(link', Reached(c))
    BY DEF InForce, OutOfForce
  <2> QED
    BY <2>1, <2>2, OptionsRestored
<1>2. CASE ~(link = "lost" /\ ~Unusable(c))
  <2>1. Reached(c) = c
    BY <1>2 DEF Reached
  <2>2. link = "gone" => link' = "gone"
    BY ExchangeHandle
  <2> QED
    BY <2>1, <2>2 DEF InForce, OutOfForce
<1> QED
  BY <1>1, <1>2

\* Out of force, no request has it.
LEMMA DefaultOutside ==
  ASSUME OutOfForce(link, ctl), link # "gone"
  PROVE  ~Inside("default")
<1>1. CASE link = "lost" /\ ~Unusable(ctl)
  <2>1. OutOfForce("up", Reached(ctl))
    BY <1>1, OptionsRestored DEF Reached
  <2> QED
    BY <2>1 DEF OutOfForce, Inside
<1>2. CASE ~(link = "lost" /\ ~Unusable(ctl))
  BY <1>2 DEF Reached, OutOfForce, Inside
<1> QED
  BY <1>1, <1>2

\* A request without controls of its own is part of the open block's transaction, or not made.
LEMMA OpenBlockKeeps ==
  ASSUME TxnInv, block = "open", NEW q, NEW res, Ask(q, "default", res)
  PROVE  tree' = tree
<1>1. ctl.py /\ (link # "gone" => ctl.now) /\ Dropped
  BY DEF TxnInv, ControlsInForce, InForce
<1>2. Exchange(ctl, Answered(q, "default"),
               IF Inside("default") THEN tree ELSE Effect(q, tree),
               IF Inside("default") /\ Answered(q, "default") = "ok" THEN Append(pending, q) ELSE pending, res)
  BY DEF Ask
<1>3. CASE link = "up"
  <2>1. Inside("default")
    BY <1>1, <1>3 DEF Inside, Reached
  <2> QED
    BY <1>1, <2>1, AskOutcome
<1>4. CASE link # "up"
  BY <1>1, <1>2, <1>4, ExchangeHandle DEF Unusable
<1> QED
  BY <1>3, <1>4

\* One more update in the queue.
LEMMA QueueGrows ==
  ASSUME NEW p, Sequence(p), NEW q
  PROVE  Sequence(Append(p, q)) /\ Members(Append(p, q)) = Members(p) \cup {q}
<1> DEFINE S == Members(p) \cup {q}
<1>1. p \in Seq(S) /\ q \in S
  BY SeqMonotonic DEF Sequence, Members
<1>2. /\ Append(p, q) \in Seq(S) /\ DOMAIN Append(p, q) = 1 .. Len(p) + 1 /\ DOMAIN p = 1 .. Len(p)
      /\ \A n \in 1 .. Len(p) : Append(p, q)[n] = p[n]
      /\ Append(p, q)[Len(p) + 1] = q /\ Len(p) \in Nat
  BY <1>1
<1>3. Members(Append(p, q)) = S
  BY <1>2 DEF Members
<1> QED
  BY <1>2, <1>3 DEF Sequence, Members

\* What a step may do to block, controls, transaction and promises.
Requests ==
  /\ UNCHANGED block
  /\ \/ \E q, via, res : Ask(q, via, res)
     \/ UNCHANGED <<server, client, record>>

\* The operations of one request are such steps.
LEMMA SingleRequests ==
  ASSUME NEW op, NEW q, NEW via, NEW d,
         Single(op, q, via, d) \/ Extended(op, q, d)
  PROVE  Requests
  BY DEF Single, Extended, Requests

\* So are those of the others, and what happens besides is the loss of a connection, another
\* client's change, and the ends of the block.
LEMMA StepsOfTransaction ==
  ASSUME Next
  PROVE  \/ Requests
         \/ (\E q : Other(q)) \/ ConnectionLost \/ Reconnect
         \/ (\E set \in BOOLEAN : Begin(set)) \/ Abort \/ Commit
<1>1. ASSUME NEW via \in Via, Starts(via)
      PROVE  Requests
  <2>1. ASSUME NEW op, NEW d, NEW new, NEW drop, Rename(op, d, new, drop, via)
        PROVE  Requests
    BY <2>1, SingleRequests DEF Rename, Raises, Requests
  <2>2. ASSUME NEW d, NEW ml, Modify(d, ml, via)
        PROVE  Requests
    BY <2>2, SingleRequests DEF Modify, Requests
  <2> QED
    BY <1>1, <2>1, <2>2, SingleRequests
       DEF Starts, Add, Delete, DeleteRecursive, Move, Modrdn, Requests
<1>2. ASSUME Continues
      PROVE  Requests
  BY <1>2 DEF Continues, ModifyRenamed, RecursiveDelete, RecursiveSearch, RecursiveDescend,
              CompareComponent, CompareDnEnds, Requests
<1>3. ASSUME NEW entry, NEW d, CompareDn(entry, d)
      PROVE  Requests
  BY <1>3 DEF CompareDn, Requests
<1>4. ASSUME NEW d, NEW ava, Compare(d, ava) \/ RefreshTtl(d)
      PROVE  Requests
  BY <1>4, SingleRequests DEF Compare, RefreshTtl
<1> QED
  BY <1>1, <1>2, <1>3, <1>4 DEF Next, Environment

\* The requests take the control only within the block.
LEMMA RequestsTxn ==
  ASSUME TxnInv, Requests
  PROVE  TxnInv'
<1>1. CASE UNCHANGED <<server, client, record>>
  BY <1>1 DEF Requests, server, client, record, TxnInv, ControlsInForce, InForce, OutOfForce, Dropped, Fulfilled,
              NoneStray
<1>2. ASSUME NEW q, NEW via, NEW res, Ask(q, via, res)
      PROVE  TxnInv'
  <2>1. Dropped /\ UNCHANGED block
    BY DEF Requests, TxnInv
  <2>4. ControlsInForce'
    <3>1. PICK result, t, queue : Exchange(ctl, result, t, queue, res)
      BY <1>2 DEF Ask
    <3>2. ctl' = Reached(ctl)
      BY <1>2 DEF Ask
    <3> QED
      BY <2>1, <3>1, <3>2, ReachedInForce DEF TxnInv, ControlsInForce
  <2>5. NoneStray'
    BY <1>2, <2>1, OpenBlockKeeps DEF TxnInv, NoneStray, Ask
  <2>2. CASE pending' \in {pending, NoTxn} /\ promised' = promised
    BY <1>2, <2>1, <2>2, <2>4, <2>5, AskOutcome DEF TxnInv, Fulfilled
  <2>3. CASE /\ pending # NoTxn /\ pending' \in {pending, NoTxn, Append(pending, q)}
             /\ promised' = promised \/ (pending' = Append(pending, q) /\ promised' = promised \cup {q})
    <3>1. Sequence(pending) /\ (block # "none" => promised \subseteq Members(pending))
      BY <2>3 DEF TxnInv, Fulfilled
    <3>2. Sequence(Append(pending, q)) /\ Members(Append(pending, q)) = Members(pending) \cup {q}
      BY <3>1, QueueGrows
    <3> QED
      BY <1>2, <2>1, <2>3, <2>4, <2>5, <3>1, <3>2, AskOutcome DEF TxnInv, Fulfilled
  <2> QED
    BY <1>2, <2>1, <2>2, <2>3, AskOutcome
<1> QED
  BY <1>1, <1>2 DEF Requests

\* The block opens with an empty queue of its own, or not at all.
LEMMA BeginTxn ==
  ASSUME TxnInv, NEW set \in BOOLEAN, Begin(set)
  PROVE  TxnInv'
<1>1. Dropped /\ block = "none" /\ OutOfForce(link, ctl)
  BY DEF TxnInv, Begin, ControlsInForce
<1>2. PICK res \in Failures \cup {"ok", "busy"} :
        /\ IF pending = NoTxn THEN Exchange(ctl, "ok", tree, <<>>, res)
           ELSE Exchange(ctl, "busy", tree, pending, res)
        /\ IF res = "ok"
           THEN /\ block' = IF set THEN "open" ELSE "plain"
                /\ ctl' = IF set THEN SetOption(link', Reached(ctl), TRUE) ELSE Reached(ctl)
                /\ promised' = {} /\ stray' = FALSE
           ELSE ctl' = Reached(ctl) /\ UNCHANGED <<block, record>>
  BY DEF Begin
<1>3. Sequence(<<>>)
  BY DEF Sequence
<1>4. OutOfForce(link', Reached(ctl))
  BY <1>1, <1>2, ReachedInForce
<1>5. ControlsInForce' /\ NoneStray'
  <2>1. CASE res = "ok" /\ set
    <3>1. InForce(link', SetOption(link', Reached(ctl), TRUE))
      BY OptionSet
    <3> QED
      BY <1>2, <2>1, <3>1 DEF ControlsInForce, NoneStray
  <2>2. CASE ~(res = "ok" /\ set)
    BY <1>1, <1>2, <1>4, <2>2 DEF ControlsInForce, NoneStray
  <2> QED
    BY <2>1, <2>2
<1>6. CASE pending = NoTxn
  <2>1. Dropped' /\ pending' \in {<<>>, NoTxn}
    BY <1>1, <1>2, <1>6, ExchangeOutcome
  <2>2. Fulfilled'
    BY <1>1, <1>2, <1>3, <2>1 DEF Fulfilled
  <2> QED
    BY <1>5, <2>1, <2>2 DEF TxnInv
<1>7. CASE pending # NoTxn
  <2>1. Dropped' /\ pending' \in {pending, NoTxn} /\ res # "ok"
    <3>1. Exchange(ctl, "busy", tree, pending, res)
      BY <1>2, <1>7
    <3>2. Dropped' /\ pending' \in {pending, NoTxn} /\ res \in Failures \cup {"busy"}
      BY <1>1, <3>1, ExchangeOutcome
    <3> QED
      BY <3>2 DEF Failures
  <2>2. block' = "none"
    BY <1>1, <1>2, <2>1
  <2>3. Fulfilled'
    BY <2>1, <2>2 DEF TxnInv, Fulfilled
  <2> QED
    BY <1>5, <2>1, <2>3 DEF TxnInv
<1> QED
  BY <1>6, <1>7

\* However the block ends, nothing of it is left in the connection.
LEMMA LeavesTxn ==
  ASSUME TxnInv, Abort \/ Commit
  PROVE  TxnInv'
<1>1. Dropped /\ ctl' = Reached(ResetControls) /\ block' = "none"
  BY DEF TxnInv, Abort, Commit, LeavesBlock
<1>2. \E result, t, res : Exchange(ResetControls, result, t, NoTxn, res)
  BY DEF Abort, Commit
<1>3. Dropped' /\ pending' \in {pending, NoTxn}
  BY <1>1, <1>2, ExchangeOutcome
<1>4. OutOfForce(link, ResetControls)
  BY OptionSet DEF ResetControls
<1>5. OutOfForce(link', Reached(ResetControls))
  BY <1>2, <1>4, ReachedInForce
<1>6. ControlsInForce'
  BY <1>1, <1>5 DEF ControlsInForce
<1> QED
  BY <1>1, <1>3, <1>6 DEF TxnInv, Fulfilled, NoneStray

\* reconnect() is a new handle, or none.
LEMMA ReconnectTxn ==
  ASSUME TxnInv, Reconnect
  PROVE  TxnInv'
<1>1. CASE Unusable(ctl)
  BY <1>1 DEF Reconnect, TxnInv, ControlsInForce, InForce, OutOfForce, record, Dropped, Fulfilled,
              NoneStray
<1>2. CASE ~Unusable(ctl)
  <2>1. ControlsInForce'
    BY <1>2, OptionsRestored DEF Reconnect, TxnInv, ControlsInForce
  <2> QED
    BY <1>2, <2>1 DEF Reconnect, record, TxnInv, Dropped, Fulfilled, NoneStray
<1> QED
  BY <1>1, <1>2

\* The invariant of transactions is inductive.
LEMMA NextTxn ==
  ASSUME TxnInv, [Next]_vars
  PROVE  TxnInv'
<1>1. CASE UNCHANGED vars
  BY <1>1 DEF vars, server, client, record, TxnInv, ControlsInForce, InForce, OutOfForce, Dropped, Fulfilled,
              NoneStray
<1>2. ASSUME NEW q, Other(q)
      PROVE  TxnInv'
  BY <1>2 DEF Other, client, record, TxnInv, ControlsInForce, InForce, OutOfForce, Dropped, Fulfilled, NoneStray
<1>3. CASE ConnectionLost
  BY <1>3 DEF ConnectionLost, record, TxnInv, ControlsInForce, InForce, OutOfForce, Dropped, Fulfilled, NoneStray
<1> QED
  BY <1>1, <1>2, <1>3, StepsOfTransaction, RequestsTxn, BeginTxn, LeavesTxn, ReconnectTxn

\* At the start there is no block.
LEMMA InitTxn == Init => TxnInv
  BY DEF Init, TxnInv, ControlsInForce, InForce, OutOfForce, Dropped, Fulfilled, NoneStray

\* Controls and queue belong to the block, whatever is lost on the way.
THEOREM TransactionInvariance == Spec => []TxnInv
  BY InitTxn, NextTxn, PTL DEF Spec

\* No operation after a block carries the control of its transaction (925-943), on no handle that
\* the two layers of options have set up.
THEOREM ControlsAreReset == Spec => []NoStaleControl
<1>1. TxnInv => NoStaleControl
  BY DEF TxnInv, ControlsInForce, OutOfForce, NoStaleControl
<1> QED
  BY <1>1, TransactionInvariance, PTL

\* The step that ends the block.
Whole ==
  block # "none" /\ block' = "none" =>
    /\ ~stray
    /\ answer'.op = "left" =>
         /\ pending # NoTxn /\ promised \subseteq {pending[n] : n \in DOMAIN pending}
         /\ answer'.res # "operationsError" => tree' = Made(tree, pending)

\* A block that is left without an exception was committed, or is said to have been.
LEMMA CommitWhole ==
  ASSUME TxnInv, Commit
  PROVE  Whole
<1> SUFFICES ASSUME answer'.op = "left"
             PROVE  /\ pending # NoTxn /\ promised \subseteq Members(pending)
                    /\ answer'.res # "operationsError" => tree' = Made(tree, pending)
  BY DEF Whole, Members, Commit, LeavesBlock, TxnInv, NoneStray
<1>1. PICK result \in CommitResults : \E res \in Failures \cup {result} :
        /\ Exchange(ResetControls, result, IF result = "ok" THEN Made(tree, pending) ELSE tree,
                    NoTxn, res)
        /\ Leaves(res = "ok" \/ Swallowed(res), res)
  BY DEF Commit
<1>2. PICK res \in Failures \cup {result} :
        /\ Exchange(ResetControls, result, IF result = "ok" THEN Made(tree, pending) ELSE tree,
                    NoTxn, res)
        /\ Leaves(res = "ok" \/ Swallowed(res), res)
  BY <1>1
<1>3. res \in {"ok", "operationsError"} /\ answer'.res = res
  BY <1>2 DEF Leaves, Swallowed
<1>4. res = result /\ res \notin Failures
  BY <1>2, <1>3 DEF Failures
<1>5. pending # NoTxn
  BY <1>3, <1>4 DEF CommitResults
<1>6. res = "ok" => tree' = Made(tree, pending)
  BY <1>2, <1>4, ExchangeOutcome DEF TxnInv
<1> QED
  BY <1>3, <1>5, <1>6 DEF Commit, LeavesBlock, TxnInv, Fulfilled

\* Nor has a block that raises made an update outside its transaction.
LEMMA AbortWhole ==
  ASSUME TxnInv, Abort
  PROVE  Whole
<1>1. answer'.op = "raised"
  BY DEF Abort, Leaves
<1> QED
  BY <1>1 DEF Whole, Abort, LeavesBlock, TxnInv, NoneStray

\* A block that ends without an exception has had all its updates in one transaction at the
\* server, which made them unless it answered OperationsError, and no block has made an update
\* beside its transaction (925-943).
THEOREM TransactionsAreWhole == Spec => TransactionWhole
<1>1. ASSUME TxnInv, [Next]_vars
      PROVE  [Whole]_vars
  <2>1. SUFFICES ASSUME Next, block # "none", block' = "none"
                 PROVE  Whole
    BY <1>1 DEF Whole
  <2>2. Abort \/ Commit
    BY <2>1, StepsOfTransaction DEF Requests, Other, ConnectionLost, Reconnect, Begin, client
  <2> QED
    BY <1>1, <2>2, AbortWhole, CommitWhole
<1>2. TransactionWhole <=> [][Whole]_vars
  BY DEF TransactionWhole, Whole
<1> QED
  BY <1>1, <1>2, TransactionInvariance, PTL DEF Spec

(***************************************************************************)
(* delete_recursive().                                                     *)
(***************************************************************************)

\* A name below j ends with j.
LEMMA UnderEnds ==
  ASSUME NEW k, NEW j
  PROVE  /\ Len(k) \in Nat /\ Len(j) \in Nat
         /\ Under(k, j) <=> Len(k) >= Len(j) /\ j = [i \in 1 .. Len(j) |-> k[Len(k) - Len(j) + i]]
<1>1. Len(k) \in Nat /\ Len(j) \in Nat
  OBVIOUS
<1>2. ASSUME Len(k) >= Len(j)
      PROVE  SubSeq(k, Len(k) - Len(j) + 1, Len(k)) = [i \in 1 .. Len(j) |-> k[Len(k) - Len(j) + i]]
  BY <1>1, <1>2
<1> QED
  BY <1>1, <1>2 DEF Under

\* Names below a name that is below another are below that one.
LEMMA UnderTransitive ==
  ASSUME NEW k, NEW j, NEW c, Under(k, j), Under(j, c)
  PROVE  Under(k, c)
<1>1. /\ Len(k) \in Nat /\ Len(j) \in Nat /\ Len(c) \in Nat
      /\ Len(k) >= Len(j) /\ j = [i \in 1 .. Len(j) |-> k[Len(k) - Len(j) + i]]
      /\ Len(j) >= Len(c) /\ c = [i \in 1 .. Len(c) |-> j[Len(j) - Len(c) + i]]
  BY UnderEnds
<1>2. \A i \in 1 .. Len(c) : j[Len(j) - Len(c) + i] = k[Len(k) - Len(c) + i]
  BY <1>1
<1>3. c = [i \in 1 .. Len(c) |-> k[Len(k) - Len(c) + i]]
  BY <1>1, <1>2
<1> QED
  BY <1>1, <1>3, UnderEnds

\* A frame is a record of four fields.
IsFrame(f) == f = [key |-> f.key, via |-> f.via, at |-> f.at, todo |-> f.todo]

\* The stack is a path down from the entry to delete, and each frame has to delete entries right
\* below its own.
Path(key, s) ==
  /\ Sequence(s) /\ s # <<>>
  /\ \A n \in 1 .. Len(s) :
       /\ IsFrame(s[n])
       /\ Under(s[n].key, key) /\ Len(s[n].key) + n = Len(key) + Len(s)
       /\ \A k \in s[n].todo : Under(k, s[n].key) /\ Len(k) = Len(s[n].key) + 1

\* With nobody else at work, what a frame has to delete is what there is, except for what the
\* frame above it is deleting.
Above(s, n) == IF n > 1 THEN {s[n - 1].key} ELSE {}
Matching(s, t) ==
  \A n \in 1 .. Len(s) :
    /\ s[n].via = "default" /\ s[n].key \in DOMAIN t
    /\ s[n].at = "loop" => Children(s[n].key, t) = s[n].todo \cup Above(s, n)
    /\ s[n].todo \cap Above(s, n) = {}

Recursion(c, s) == [op |-> "recursive", key |-> c.key, existed |-> c.existed, stack |-> s]
Alone == undisturbed /\ call.existed /\ block = "none"

RecursiveInv ==
  /\ "op" \in DOMAIN call /\ others \in Nat
  /\ call.op = "recursive" =>
       /\ call = Recursion(call, call.stack)
       /\ Path(call.key, call.stack)
       /\ Alone => Matching(call.stack, tree)

\* The key of a name is a sequence, and below itself.
LEMMA KeyOfName ==
  ASSUME NEW d \in Names \cup {Suffix}
  PROVE  Sequence(Key(d)) /\ Under(Key(d), Key(d))
<1>1. d \in Seq({d[i] : i \in DOMAIN d})
  BY ConstantsAssumption
<1>2. DOMAIN d = 1 .. Len(d) /\ Len(d) \in Nat
  BY <1>1
<1>3. Key(d) = [i \in 1 .. Len(d) |-> Pairs(d[i])]
  BY <1>2 DEF Key
<1>4. Key(d) \in Seq({Pairs(d[i]) : i \in 1 .. Len(d)}) /\ Len(Key(d)) = Len(d)
  BY <1>2, <1>3
<1>5. {Key(d)[i] : i \in DOMAIN Key(d)} = {Pairs(d[i]) : i \in 1 .. Len(d)}
  BY <1>3
<1>6. Key(d) = [i \in 1 .. Len(Key(d)) |-> Key(d)[Len(Key(d)) - Len(Key(d)) + i]]
  BY <1>2, <1>3, <1>4
<1> QED
  BY <1>4, <1>5, <1>6, UnderEnds DEF Sequence

\* delete_recursive() begins with a path of one entry.
LEMMA PathBegins ==
  ASSUME NEW d \in Names \cup {Suffix}, NEW via, NEW s, s = <<Frame(Key(d), via)>>
  PROVE  /\ Path(Key(d), s)
         /\ \A t : via = "default" /\ Key(d) \in DOMAIN t => Matching(s, t)
<1> DEFINE f == Frame(Key(d), via)
<1>1. IsFrame(f) /\ f.key = Key(d) /\ f.via = via /\ f.at = "try" /\ f.todo = {}
  BY DEF Frame, IsFrame
<1>2. s = <<f>> /\ Len(s) = 1 /\ s[1] = f /\ Sequence(s) /\ s # <<>>
  BY DEF Sequence
<1> HIDE DEF f
<1>3. Path(Key(d), s)
  BY <1>1, <1>2, KeyOfName, UnderEnds DEF Path
<1>4. ASSUME NEW t, via = "default", Key(d) \in DOMAIN t
      PROVE  Matching(s, t)
  BY <1>1, <1>2, <1>4 DEF Matching, Above
<1> QED
  BY <1>3, <1>4

\* Another frame at the end of the path, which is the first in the stack.
Topped(s, f) == [s EXCEPT ![1] = f]

\* A frame that is at something else, or has something else to delete, is a frame.
Moved(f, at, todo) == [key |-> f.key, via |-> f.via, at |-> at, todo |-> todo]
Listed(f, at, todo) == [[f EXCEPT !.at = at] EXCEPT !.todo = todo]
Spared(f, todo) == [f EXCEPT !.todo = todo]
\* All three are frames, and the first two the same.
LEMMA FrameMoves ==
  ASSUME NEW f, IsFrame(f), NEW at, NEW todo
  PROVE  /\ IsFrame(Moved(f, at, todo))
         /\ Listed(f, at, todo) = Moved(f, at, todo)
         /\ Spared(f, todo) = Moved(f, f.at, todo)
<1>1. PICK k, v, a, t : f = [key |-> k, via |-> v, at |-> a, todo |-> t]
  BY DEF IsFrame
<1>2. [f EXCEPT !.at = at] = [key |-> k, via |-> v, at |-> at, todo |-> t]
  BY <1>1
<1>3. [f EXCEPT !.todo = todo] = [key |-> k, via |-> v, at |-> a, todo |-> todo]
  BY <1>1
<1>4. [[key |-> k, via |-> v, at |-> at, todo |-> t] EXCEPT !.todo = todo]
        = [key |-> k, via |-> v, at |-> at, todo |-> todo]
  OBVIOUS
<1>5. f.key = k /\ f.via = v /\ f.at = a
  BY <1>1
<1>6. IsFrame(Moved(f, at, todo))
  BY DEF IsFrame, Moved
<1>7. Spared(f, todo) = Moved(f, f.at, todo)
  BY <1>3, <1>5 DEF Moved, Spared
<1>8. Listed(f, at, todo) = Moved(f, at, todo)
  BY <1>2, <1>4, <1>5 DEF Moved, Listed
<1> QED
  BY <1>6, <1>7, <1>8

\* Nothing is above that.
LEMMA NothingAbove == \A s : Above(s, 1) = {}
  BY DEF Above

\* The entry at the end of the path changes what it is at, or what it has still to delete.
LEMMA PathStays ==
  ASSUME NEW key, NEW s, Path(key, s), NEW f, IsFrame(f), f.key = s[1].key,
         \A k \in f.todo : Under(k, f.key) /\ Len(k) = Len(f.key) + 1,
         NEW r, r = Topped(s, f)
  PROVE  /\ Path(key, r) /\ Len(r) = Len(s) /\ r[1] = f
         /\ \A n \in 2 .. Len(r) : r[n] = s[n]
         /\ \A n \in 1 .. Len(r) : r[n].key = s[n].key /\ Above(r, n) = Above(s, n)
<1>1. /\ Len(s) \in Nat \ {0} /\ DOMAIN s = 1 .. Len(s) /\ s \in Seq(Members(s))
  BY SequenceOfMembers DEF Path, Sequence, Members
<1>2. r[1] = f /\ \A n \in 2 .. Len(s) : r[n] = s[n]
  BY <1>1 DEF Topped
<1>3. s \in Seq(Members(s) \cup {f})
  BY <1>1, SeqMonotonic
<1>4. Len(r) = Len(s) /\ r # <<>> /\ Sequence(r)
  <2>1. r \in Seq(Members(s) \cup {f}) /\ Len(r) = Len(s)
    BY <1>1, <1>3, ExceptSeq DEF Topped
  <2> QED
    BY <1>1, <2>1, SequenceOfMembers
<1>5. \A n \in 1 .. Len(r) : r[n].key = s[n].key
  BY <1>1, <1>2, <1>4
<1>6. ASSUME NEW n \in 1 .. Len(r)
      PROVE  Above(r, n) = Above(s, n)
  <2>1. n > 1 => r[n - 1].key = s[n - 1].key
    BY <1>1, <1>4, <1>5
  <2> QED
    BY <2>1 DEF Above
<1>7. ASSUME NEW n \in 1 .. Len(r)
      PROVE  /\ IsFrame(r[n])
             /\ Under(r[n].key, key) /\ Len(r[n].key) + n = Len(key) + Len(r)
             /\ \A k \in r[n].todo : Under(k, r[n].key) /\ Len(k) = Len(r[n].key) + 1
  <2>1. CASE n = 1
    BY <1>1, <1>2, <1>4, <2>1 DEF Path
  <2>2. CASE n # 1
    <3>1. n \in 1 .. Len(s) /\ r[n] = s[n]
      BY <1>1, <1>2, <1>4, <2>2
    <3> QED
      BY <1>4, <3>1 DEF Path
  <2> QED
    BY <2>1, <2>2
<1>8. Path(key, r)
  BY <1>4, <1>7 DEF Path
<1> QED
  BY <1>2, <1>4, <1>5, <1>6, <1>8

\* The entry at the end of the path is deleted, and the loop over its siblings goes on.
LEMMA PathShortens ==
  ASSUME NEW key, NEW s, Path(key, s), Len(s) # 1, NEW r, r = Tail(s)
  PROVE  /\ Path(key, r) /\ Len(r) = Len(s) - 1
         /\ \A n \in 1 .. Len(r) : r[n] = s[n + 1]
<1>1. /\ Len(s) \in Nat \ {0, 1} /\ s \in Seq(Members(s)) /\ s # <<>>
  BY SequenceOfMembers DEF Path, Sequence, Members
<1>2. r \in Seq(Members(s)) /\ Len(r) = Len(s) - 1 /\ \A n \in 1 .. Len(r) : r[n] = s[n + 1]
  BY <1>1, HeadTailProperties
<1>3. Sequence(r) /\ r # <<>>
  <2>1. Len(r) # 0
    BY <1>1, <1>2
  <2> QED
    BY <1>2, <2>1, SequenceOfMembers
<1>4. ASSUME NEW n \in 1 .. Len(r)
      PROVE  /\ IsFrame(r[n])
             /\ Under(r[n].key, key) /\ Len(r[n].key) + n = Len(key) + Len(r)
             /\ \A k \in r[n].todo : Under(k, r[n].key) /\ Len(k) = Len(r[n].key) + 1
  <2> DEFINE l == Len(r[n].key)
  <2>1. n \in Nat /\ n + 1 \in 1 .. Len(s) /\ r[n] = s[n + 1]
    BY <1>1, <1>2
  <2>2. l + (n + 1) = Len(key) + Len(s) /\ l \in Nat /\ Len(key) \in Nat
    BY <2>1, UnderEnds DEF Path
  <2> HIDE DEF l
  <2>3. l + n = Len(key) + Len(r)
    BY <1>1, <1>2, <2>1, <2>2
  <2> QED
    BY <2>1, <2>3 DEF Path, l
<1> QED
  BY <1>2, <1>3, <1>4 DEF Path

\* The path goes on to an entry right below its end.
Lengthened(s, f) == <<f>> \o s
\* The longer path is one, too.
LEMMA PathLengthens ==
  ASSUME NEW key, NEW s, Path(key, s), NEW f, IsFrame(f), f.todo = {},
         Under(f.key, s[1].key), Len(f.key) = Len(s[1].key) + 1, NEW r, r = Lengthened(s, f)
  PROVE  /\ Path(key, r) /\ Len(r) = Len(s) + 1 /\ r[1] = f
         /\ \A n \in 2 .. Len(r) : r[n] = s[n - 1]
<1>1. Len(s) \in Nat \ {0} /\ s \in Seq(Members(s) \cup {f}) /\ <<f>> \in Seq(Members(s) \cup {f})
  BY SequenceOfMembers, SeqMonotonic DEF Path, Sequence, Members
<1>2. /\ r \in Seq(Members(s) \cup {f}) /\ Len(r) = Len(s) + 1 /\ r[1] = f
      /\ \A n \in 2 .. Len(r) : r[n] = s[n - 1]
  BY <1>1, ConcatProperties DEF Lengthened
<1>3. Sequence(r) /\ r # <<>>
  <2>1. Len(r) # 0
    BY <1>1, <1>2
  <2> QED
    BY <1>2, <2>1, SequenceOfMembers
<1>4. ASSUME NEW n \in 1 .. Len(r)
      PROVE  /\ IsFrame(r[n])
             /\ Under(r[n].key, key) /\ Len(r[n].key) + n = Len(key) + Len(r)
             /\ \A k \in r[n].todo : Under(k, r[n].key) /\ Len(k) = Len(r[n].key) + 1
  <2>1. CASE n = 1
    <3>1. Under(s[1].key, key) /\ Len(s[1].key) + 1 = Len(key) + Len(s)
      BY <1>1 DEF Path
    <3>2. Under(f.key, key) /\ Len(s[1].key) \in Nat /\ Len(key) \in Nat
      <4>1. Under(f.key, key)
        BY <3>1, UnderTransitive
      <4> QED
        BY <4>1, <3>1, UnderEnds
    <3>3. Len(f.key) + 1 = Len(key) + Len(r)
      <4>1. Len(r) = Len(s) + 1 /\ Len(s) \in Nat
        BY <1>1, <1>2
      <4> QED
        BY <3>1, <3>2, <4>1
    <3> QED
      BY <1>2, <2>1, <3>2, <3>3
  <2>2. CASE n # 1
    <3>1. n - 1 \in 1 .. Len(s) /\ r[n] = s[n - 1]
      BY <1>1, <1>2, <2>2
    <3>2. /\ Len(s[n - 1].key) + (n - 1) = Len(key) + Len(s)
          /\ Len(s[n - 1].key) \in Nat /\ Len(key) \in Nat
      BY <3>1, UnderEnds DEF Path
    <3> QED
      BY <1>1, <1>2, <3>1, <3>2 DEF Path
  <2> QED
    BY <2>1, <2>2
<1> QED
  BY <1>2, <1>3, <1>4 DEF Path

\* The same three steps with nobody else at work: the tree is what the path takes it for.
LEMMA MatchingStays ==
  ASSUME NEW key, NEW s, Path(key, s), NEW t, Matching(s, t),
         NEW f, IsFrame(f), f.key = s[1].key, f.via = s[1].via,
         \A k \in f.todo : Under(k, f.key) /\ Len(k) = Len(f.key) + 1,
         f.at = "loop" => Children(f.key, t) = f.todo,
         NEW r, r = Topped(s, f)
  PROVE  Matching(r, t)
<1>1. /\ Len(r) = Len(s) /\ r[1] = f /\ \A n \in 2 .. Len(r) : r[n] = s[n]
      /\ \A n \in 1 .. Len(r) : r[n].key = s[n].key /\ Above(r, n) = Above(s, n)
  BY PathStays
<1>2. Len(s) \in Nat \ {0}
  BY SequenceOfMembers DEF Path, Sequence
<1> SUFFICES ASSUME NEW n \in 1 .. Len(r)
             PROVE  /\ r[n].via = "default" /\ r[n].key \in DOMAIN t
                    /\ r[n].at = "loop" => Children(r[n].key, t) = r[n].todo \cup Above(r, n)
                    /\ r[n].todo \cap Above(r, n) = {}
  BY DEF Matching
<1>3. CASE n = 1
  BY <1>1, <1>2, <1>3, NothingAbove DEF Matching
<1>4. CASE n # 1
  BY <1>1, <1>2, <1>4 DEF Matching
<1> QED
  BY <1>3, <1>4

\* The lowest call ends with its entry gone: what is left to do still covers what is below.
LEMMA MatchingShortens ==
  ASSUME NEW key, NEW s, Path(key, s), Len(s) # 1, NEW t, Matching(s, t),
         NEW u, DOMAIN u = DOMAIN t \ {s[1].key}, NEW r, r = Tail(s)
  PROVE  Matching(r, u)
<1>1. Len(r) = Len(s) - 1 /\ \A n \in 1 .. Len(r) : r[n] = s[n + 1]
  BY PathShortens
<1>2. Len(s) \in Nat \ {0} /\ Len(key) \in Nat
  BY SequenceOfMembers, UnderEnds DEF Path, Sequence
<1>3. \A k : Children(k, u) = Children(k, t) \ {s[1].key}
  BY DEF Children
<1> SUFFICES ASSUME NEW n \in 1 .. Len(r)
             PROVE  /\ r[n].via = "default" /\ r[n].key \in DOMAIN u
                    /\ r[n].at = "loop" => Children(r[n].key, u) = r[n].todo \cup Above(r, n)
                    /\ r[n].todo \cap Above(r, n) = {}
  BY DEF Matching
<1>4. n \in Nat /\ n + 1 \in 1 .. Len(s) /\ n + 1 > 1 /\ r[n] = s[n + 1] /\ 1 \in 1 .. Len(s)
  BY <1>1, <1>2
<1> DEFINE l == Len(s[n + 1].key)
           m == Len(s[1].key)
<1>5. l \in Nat /\ m \in Nat /\ l + (n + 1) = Len(key) + Len(s) /\ m + 1 = Len(key) + Len(s)
  BY <1>4, UnderEnds DEF Path
<1> HIDE DEF l, m
<1>6. m # l /\ (n > 1 => m # l + 1)
  BY <1>2, <1>4, <1>5
<1>7. s[1].key # s[n + 1].key /\ (n > 1 => s[1].key \notin Children(s[n + 1].key, t))
  BY <1>6 DEF l, m, Children
<1>8. /\ s[n + 1].via = "default" /\ s[n + 1].key \in DOMAIN t
      /\ s[n + 1].at = "loop" => Children(s[n + 1].key, t) = s[n + 1].todo \cup {s[n].key}
      /\ s[n + 1].todo \cap {s[n].key} = {}
  <2>1. Above(s, n + 1) = {s[n].key}
    BY <1>4 DEF Above
  <2> QED
    BY <1>4, <2>1 DEF Matching
<1>9. Above(r, n) = IF n > 1 THEN {s[n].key} ELSE {}
  <2>1. n > 1 => r[n - 1] = s[n]
    BY <1>1, <1>2, <1>4
  <2> QED
    BY <2>1 DEF Above
<1>10. CASE n > 1
  BY <1>3, <1>4, <1>7, <1>8, <1>9, <1>10
<1>11. CASE ~(n > 1)
  <2>1. n = 1
    BY <1>4, <1>11
  <2> QED
    BY <1>3, <1>4, <1>7, <1>8, <1>9, <2>1
<1> QED
  BY <1>10, <1>11

\* A child is taken from the search results and is the next to be deleted.
LEMMA MatchingLengthens ==
  ASSUME NEW key, NEW s, Path(key, s), NEW t, Matching(s, t), s[1].at = "loop",
         NEW x \in s[1].todo, NEW f, f.key = x, f.via = "default", f.at = "try", f.todo = {},
         NEW g, g.key = s[1].key, g.via = s[1].via, g.at = s[1].at, g.todo = s[1].todo \ {x},
         NEW r, Len(r) = Len(s) + 1, r[1] = f, r[2] = g, \A n \in 3 .. Len(r) : r[n] = s[n - 1]
  PROVE  Matching(r, t)
<1>1. Len(s) \in Nat \ {0} /\ 1 \in 1 .. Len(s)
  BY SequenceOfMembers DEF Path, Sequence
<1>2. /\ s[1].via = "default" /\ s[1].key \in DOMAIN t
      /\ Children(s[1].key, t) = s[1].todo
  <2>1. /\ s[1].via = "default" /\ s[1].key \in DOMAIN t
        /\ s[1].at = "loop" => Children(s[1].key, t) = s[1].todo \cup Above(s, 1)
    BY <1>1 DEF Matching
  <2> QED
    BY <2>1, NothingAbove
<1>3. x \in DOMAIN t
  BY <1>2 DEF Children
<1> SUFFICES ASSUME NEW n \in 1 .. Len(r)
             PROVE  /\ r[n].via = "default" /\ r[n].key \in DOMAIN t
                    /\ r[n].at = "loop" => Children(r[n].key, t) = r[n].todo \cup Above(r, n)
                    /\ r[n].todo \cap Above(r, n) = {}
  BY DEF Matching
<1>4. CASE n = 1
  BY <1>3, <1>4
<1>5. CASE n = 2
  <2>1. Above(r, 2) = {x}
    BY DEF Above
  <2> QED
    BY <1>2, <1>5, <2>1
<1>6. CASE n # 1 /\ n # 2
  <2>1. n \in 3 .. Len(r) /\ n - 1 \in 2 .. Len(s) /\ r[n] = s[n - 1] /\ n > 1 /\ n - 1 > 1
    BY <1>1, <1>6
  <2>2. r[n - 1].key = s[n - 1 - 1].key
    <3>1. CASE n = 3
      BY <3>1
    <3>2. CASE n # 3
      BY <1>1, <2>1, <3>2
    <3> QED
      BY <3>1, <3>2
  <2>3. Above(r, n) = Above(s, n - 1)
    BY <2>1, <2>2 DEF Above
  <2> QED
    BY <2>1, <2>3 DEF Matching
<1> QED
  BY <1>4, <1>5, <1>6

(***************************************************************************)
(* The steps of delete_recursive(), and those of the others.               *)
(***************************************************************************)

\* A step of another operation.
Elsewhere ==
  /\ call.op # "recursive" /\ call'.op # "recursive" /\ "op" \in DOMAIN call'
  /\ ~Finishes("recursive")

\* Something happens meanwhile.
Meanwhile == others' # others /\ undisturbed' = FALSE /\ UNCHANGED <<call, answer, calls>>

\* A call that ends and is not recursive concerns no recursive deletion.
LEMMA EndsElsewhere ==
  ASSUME call.op # "recursive", NEW op, op # "recursive", NEW res, NEW d, Ends(op, res, d)
  PROVE  Elsewhere
  BY DEF Ends, Elsewhere, Idle, Finishes

\* Nor does one that goes on.
LEMMA ProceedsElsewhere ==
  ASSUME call.op # "recursive", NEW c, "op" \in DOMAIN c, c.op # "recursive", c # Idle, Proceeds(c)
  PROVE  Elsewhere
  BY DEF Proceeds, Elsewhere, Finishes, NoAnswer

\* Nor do the operations of one request.
LEMMA SingleElsewhere ==
  ASSUME NEW op, op # "recursive", NEW q, NEW via, NEW d, NEW res,
         Single(op, q, via, d) \/ Extended(op, q, d) \/ Raises(op, res)
  PROVE  Elsewhere
<1>1. call = Idle /\ call.op # "recursive"
  BY DEF Single, Extended, Raises, Begins, Idle
<1> QED
  BY <1>1, EndsElsewhere DEF Single, Extended, Raises, Ended

\* Nor does compare_dn, which asks nothing.
LEMMA CompareElsewhere ==
  ASSUME "op" \in DOMAIN call, CompareComponent \/ CompareDnEnds
  PROVE  Elsewhere
<1>1. call.op = "compareDn" /\ call.op # "recursive" /\ Idle.op = "idle"
  BY DEF CompareComponent, CompareDnEnds, Idle
<1>2. ASSUME NEW i, NEW j
      PROVE  LET c == [call EXCEPT !.i = i, !.j = j] IN "op" \in DOMAIN c /\ c.op = "compareDn" /\ c # Idle
  <2> DEFINE c == [call EXCEPT !.i = i, !.j = j]
  <2>1. "op" \in DOMAIN c /\ c.op = "compareDn"
    BY <1>1
  <2> QED
    BY <1>1, <2>1
<1>3. ASSUME NEW j
      PROVE  LET c == [call EXCEPT !.j = j] IN "op" \in DOMAIN c /\ c.op = "compareDn" /\ c # Idle
  <2> DEFINE c == [call EXCEPT !.j = j]
  <2>1. "op" \in DOMAIN c /\ c.op = "compareDn"
    BY <1>1
  <2> QED
    BY <1>1, <2>1
<1>4. ASSUME NEW equal, Compared(equal)
      PROVE  Elsewhere
  <2>1. CASE Ended("compareDn", "false")
    BY <1>1, <2>1, EndsElsewhere DEF Ended
  <2>2. CASE Proceeds([call EXCEPT !.j = @ + 1])
    BY <1>1, <1>3, <2>2, ProceedsElsewhere
  <2>3. CASE Proceeds([call EXCEPT !.i = @ + 1, !.j = 1])
    BY <1>1, <1>2, <2>3, ProceedsElsewhere
  <2> QED
    BY <1>4, <2>1, <2>2, <2>3 DEF Compared
<1>5. CASE CompareComponent
  <2>1. \/ \E equal : Compared(equal)
        \/ \E res : Ended("compareDn", res)
    BY <1>5 DEF CompareComponent
  <2> QED
    BY <1>1, <1>4, <2>1, EndsElsewhere DEF Ended
<1>6. CASE CompareDnEnds
  BY <1>1, <1>6, EndsElsewhere DEF CompareDnEnds, Ended
<1> QED
  BY <1>5, <1>6

\* Nor does modify, with the rename it may begin with.
LEMMA ModifyElsewhere ==
  ASSUME NEW d, NEW ml, NEW via, Modify(d, ml, via) \/ ModifyRenamed
  PROVE  Elsewhere
<1>1. call.op # "recursive"
  <2>1. Modify(d, ml, via) => call = Idle
    BY DEF Modify, Single, Begins
  <2>2. ModifyRenamed => call.op = "modify"
    BY DEF ModifyRenamed
  <2> QED
    BY <2>1, <2>2 DEF Idle
<1>2. CASE ModifyRenamed
  BY <1>1, <1>2, EndsElsewhere DEF ModifyRenamed
<1>3. ASSUME NEW new, Proceeds([op |-> "modify", dn |-> new, ml |-> ml, via |-> via])
      PROVE  Elsewhere
  <2> DEFINE c == [op |-> "modify", dn |-> new, ml |-> ml, via |-> via]
  <2>1. "op" \in DOMAIN c /\ c.op = "modify" /\ c # Idle
    BY DEF Idle
  <2> QED
    BY <1>1, <1>3, <2>1, ProceedsElsewhere
<1>4. CASE Modify(d, ml, via)
  <2>1. \/ \E q : Single("modify", q, via, d)
        \/ \E res : Ended("modify", res)
        \/ \E new : Proceeds([op |-> "modify", dn |-> new, ml |-> ml, via |-> via])
    BY <1>4 DEF Modify
  <2> QED
    BY <1>1, <1>3, <2>1, SingleElsewhere, EndsElsewhere DEF Ended
<1> QED
  BY <1>2, <1>4

\* delete_recursive() is called with the controls that fit the block.
Started ==
  \E d \in Names \cup {Suffix}, via \in Via :
    (via = "default" \/ block # "none") /\ DeleteRecursive(d, via)

\* The steps by what they are to a recursive deletion.
LEMMA StepsOfCall ==
  ASSUME "op" \in DOMAIN call, others \in Nat, Next
  PROVE  \/ Started
         \/ RecursiveDelete \/ RecursiveSearch \/ RecursiveDescend
         \/ Meanwhile \/ Elsewhere
<1>1. ASSUME NEW via \in Via, via = "own" \/ via = "txn" => block # "none", Starts(via)
      PROVE  Started \/ Elsewhere
  <2>1. ASSUME NEW op \in {"rename", "move", "modrdn"}, NEW d, NEW new, NEW drop,
               Rename(op, d, new, drop, via)
        PROVE  Elsewhere
    <3>1. \/ \E res : Raises(op, res)
          \/ \E q : Single(op, q, via, new)
      BY <2>1 DEF Rename
    <3> QED
      BY <3>1, SingleElsewhere
  <2>2. ASSUME NEW d, Add(d, via) \/ Delete(d, via)
        PROVE  Elsewhere
    BY <2>2, SingleElsewhere DEF Add, Delete
  <2>3. ASSUME NEW d \in Names \cup {Suffix}, DeleteRecursive(d, via)
        PROVE  Started
    BY <1>1, <2>3 DEF Started, Via
  <2> QED
    BY <1>1, <2>1, <2>2, <2>3, ModifyElsewhere DEF Starts, Move, Modrdn
<1>2. ASSUME Continues
      PROVE  RecursiveDelete \/ RecursiveSearch \/ RecursiveDescend \/ Elsewhere
  BY <1>2, ModifyElsewhere, CompareElsewhere DEF Continues
<1>3. ASSUME NEW entry, NEW d, CompareDn(entry, d)
      PROVE  Elsewhere
  <2> DEFINE c == [op |-> "compareDn", entry |-> entry, dn |-> d, i |-> 1, j |-> 1,
                   existed |-> Key(entry) \in DOMAIN tree]
  <2>1. "op" \in DOMAIN c /\ c.op = "compareDn" /\ c # Idle
    BY DEF Idle
  <2>2. Proceeds(c) /\ call = Idle
    BY <1>3 DEF CompareDn, Begins
  <2>3. call.op # "recursive"
    BY <2>2 DEF Idle
  <2> HIDE DEF c
  <2> QED
    BY <2>1, <2>2, <2>3, ProceedsElsewhere
<1>4. ASSUME NEW d, NEW ava, Compare(d, ava) \/ RefreshTtl(d)
      PROVE  Elsewhere
  BY <1>4, SingleElsewhere DEF Compare, RefreshTtl
<1>5. ASSUME NEW set \in BOOLEAN, Begin(set)
      PROVE  Elsewhere
  <2>1. call.op # "recursive" /\ \E res : Ended("begin", res)
    BY <1>5 DEF Begin, Idle
  <2> QED
    BY <2>1, EndsElsewhere DEF Ended
<1>6. CASE Abort \/ Commit \/ Reconnect
  <2>1. call = Idle /\ call' = Idle /\ calls' = calls
    BY <1>6 DEF Abort, Commit, LeavesBlock, Reconnect, bounds
  <2>2. Idle.op # "recursive" /\ "op" \in DOMAIN Idle
    BY DEF Idle
  <2> QED
    BY <2>1, <2>2 DEF Elsewhere, Finishes
<1>7. CASE Environment
  <2>1. ConnectionLost \/ \E q : Other(q)
    BY <1>7 DEF Environment
  <2>2. others' = others + 1 /\ others < MaxOthers /\ undisturbed' = FALSE /\ UNCHANGED <<call, answer, calls>>
    BY <2>1 DEF ConnectionLost, Other
  <2> QED
    BY <2>2, ConstantsAssumption DEF Meanwhile
<1> QED
  BY <1>1, <1>2, <1>3, <1>4, <1>5, <1>6, <1>7 DEF Next

\* Outside of a block requests are those of the entries, or there is no handle for them.
LEMMA AloneOutside ==
  ASSUME TxnInv, block = "none", NEW q, NEW via, via # "txn", NEW res, Ask(q, via, res)
  PROVE  ~Inside(via) \/ res = "failed"
<1>1. CASE link = "gone"
  BY <1>1 DEF Ask, Exchange
<1>2. CASE link # "gone"
  BY <1>2, DefaultOutside DEF TxnInv, ControlsInForce, Inside
<1> QED
  BY <1>1, <1>2

\* Every step of the program counts the changes of others as they are.
LEMMA OthersCounted ==
  ASSUME others \in Nat, [Next]_vars
  PROVE  others' \in Nat
<1>1. ASSUME Next
      PROVE  others' \in {others, others + 1}
  <2>1. ASSUME NEW via \in Via, Starts(via)
        PROVE  others' = others
    <3>1. ASSUME NEW op, NEW q, NEW d, NEW res, Single(op, q, via, d) \/ Raises(op, res)
          PROVE  others' = others
      BY <3>1 DEF Single, Raises
    <3>2. ASSUME NEW op, NEW d, NEW new, NEW drop, Rename(op, d, new, drop, via)
          PROVE  others' = others
      BY <3>1, <3>2 DEF Rename
    <3>3. ASSUME NEW d, NEW ml, Modify(d, ml, via)
          PROVE  others' = others
      BY <3>1, <3>3 DEF Modify
    <3> QED
      BY <2>1, <3>1, <3>2, <3>3 DEF Starts, Add, Delete, DeleteRecursive, Move, Modrdn
  <2>2. CASE Continues
    BY <2>2 DEF Continues, ModifyRenamed, RecursiveDelete, RecursiveSearch, RecursiveDescend,
                CompareComponent, CompareDnEnds, bounds
  <2>3. ASSUME NEW d, NEW e, CompareDn(d, e) \/ Compare(d, e) \/ RefreshTtl(d)
        PROVE  others' = others
    BY <2>3 DEF CompareDn, Compare, Single, RefreshTtl, Extended
  <2>4. CASE (\E set \in BOOLEAN : Begin(set)) \/ Abort \/ Commit \/ Reconnect
    BY <2>4 DEF Begin, Abort, Commit, LeavesBlock, Reconnect, bounds
  <2>5. CASE Environment
    BY <2>5 DEF Environment, Other, ConnectionLost
  <2> QED
    BY <1>1, <2>1, <2>2, <2>3, <2>4, <2>5 DEF Next
<1> QED
  BY <1>1 DEF vars, bounds

\* A delete takes away an entry without children, and no other.
LEMMA DeleteEffect ==
  ASSUME NEW k, NEW t
  PROVE  LET q == Request("delete", k) IN
         /\ q.key = k
         /\ Result(q, t) = "ok" => DOMAIN Effect(q, t) = DOMAIN t \ {k}
         /\ Result(q, t) # "ok" => Effect(q, t) = t
         /\ k \in DOMAIN t => Result(q, t) = IF Children(k, t) = {} THEN "ok" ELSE "notAllowedOnNonleaf"
<1> DEFINE q == Request("delete", k)
<1>1. q.kind = "delete" /\ q.key = k
  BY DEF Request
<1> HIDE DEF q
<1>2. Result(q, t) = "ok" => Effect(q, t) = [j \in DOMAIN t \ {k} |-> t[j]]
  BY <1>1 DEF Effect
<1>3. Result(q, t) # "ok" => Effect(q, t) = t
  BY DEF Effect
<1>4. k \in DOMAIN t => Result(q, t) = IF Children(k, t) = {} THEN "ok" ELSE "notAllowedOnNonleaf"
  BY <1>1 DEF Result
<1> QED
  BY <1>1, <1>2, <1>3, <1>4 DEF q

\* What is promised of each step: the calls of delete_recursive() stay in the subtree, and with
\* nobody else at work a call that ends has been successful, or a request of its has failed.
Subtree ==
  call # Idle /\ call.op = "recursive" /\ others' = others =>
    \A k \in DOMAIN tree \ DOMAIN tree' : Under(k, call.key)
Successful ==
  Finishes("recursive") /\ undisturbed /\ call.existed /\ block = "none" =>
    answer'.res \in {"failed", "ok"}

\* What the frame at the end of the path is like.
LEMMA EndOfPath ==
  ASSUME NEW key, NEW s, Path(key, s)
  PROVE  /\ IsFrame(s[1]) /\ Under(s[1].key, key) /\ 1 \in 1 .. Len(s) /\ Len(s) \in Nat
         /\ \A k \in s[1].todo : Under(k, s[1].key) /\ Len(k) = Len(s[1].key) + 1
         /\ \A t : Matching(s, t) =>
              /\ s[1].via = "default" /\ s[1].key \in DOMAIN t
              /\ s[1].at = "loop" => Children(s[1].key, t) = s[1].todo
<1>1. Len(s) \in Nat \ {0} /\ 1 \in 1 .. Len(s)
  BY SequenceOfMembers DEF Path, Sequence
<1>2. /\ IsFrame(s[1]) /\ Under(s[1].key, key)
      /\ \A k \in s[1].todo : Under(k, s[1].key) /\ Len(k) = Len(s[1].key) + 1
  BY <1>1 DEF Path
<1>3. ASSUME NEW t, Matching(s, t)
      PROVE  /\ s[1].via = "default" /\ s[1].key \in DOMAIN t
             /\ s[1].at = "loop" => Children(s[1].key, t) = s[1].todo
  <2>1. /\ s[1].via = "default" /\ s[1].key \in DOMAIN t
        /\ s[1].at = "loop" => Children(s[1].key, t) = s[1].todo \cup Above(s, 1)
    BY <1>1, <1>3 DEF Matching
  <2> QED
    BY <2>1, NothingAbove
<1> QED
  BY <1>1, <1>2, <1>3

\* The first delete, and the last one.
LEMMA DeleteStep ==
  ASSUME RecursiveInv, TxnInv, RecursiveDelete
  PROVE  RecursiveInv' /\ Subtree /\ Successful
<1> DEFINE s == call.stack
           f == s[1]
           q == Request("delete", f.key)
<1>1. /\ call.op = "recursive" /\ call = Recursion(call, s) /\ Path(call.key, s)
      /\ Alone => Matching(s, tree)
      /\ f.at = "try" \/ (f.at = "loop" /\ f.todo = {})
      /\ others \in Nat /\ UNCHANGED <<block, calls, others, undisturbed>>
  BY DEF RecursiveInv, RecursiveDelete, TopFrame, bounds
<1>2. PICK res : /\ Ask(q, f.via, res)
                 /\ CASE res = "ok" -> Returns
                      [] res = "notAllowedOnNonleaf" /\ f.at = "try" ->
                           Goes([s EXCEPT ![1].at = "list"])
                      [] OTHER -> Ended("recursive", res)
  BY DEF RecursiveDelete, TopFrame
<1>3. /\ tree' = tree \/ tree' = Effect(q, tree)
      /\ ~Inside(f.via) /\ res \notin Failures => tree' = Effect(q, tree)
      /\ res \in Failures \cup {Answered(q, f.via)}
  BY <1>2, AskOutcome DEF Outcomes, TxnInv
<1>4. IsFrame(f) /\ Under(f.key, call.key)
  BY <1>1, EndOfPath
<1>5. Subtree
  <2>1. DOMAIN Effect(q, tree) = DOMAIN tree \ {f.key} \/ Effect(q, tree) = tree
    BY DeleteEffect
  <2> HIDE DEF q
  <2>2. DOMAIN tree \ DOMAIN tree' \subseteq {f.key}
    BY <1>3, <2>1
  <2> QED
    BY <1>4, <2>2 DEF Subtree
<1>6. ASSUME Alone
      PROVE  /\ f.key \in DOMAIN tree /\ Matching(s, tree)
             /\ res \in Failures \/ (res = Result(q, tree) /\ tree' = Effect(q, tree))
             /\ f.at = "loop" => Result(q, tree) = "ok"
             /\ Result(q, tree) \in {"ok", "notAllowedOnNonleaf"}
  <2>1. /\ f.via = "default" /\ f.key \in DOMAIN tree /\ Matching(s, tree)
        /\ f.at = "loop" => Children(f.key, tree) = {}
    BY <1>1, <1>6, EndOfPath
  <2>2. ~Inside(f.via) \/ res \in Failures
    BY <1>2, <1>6, <2>1, AloneOutside DEF Alone, Failures
  <2> QED
    BY <1>3, <2>1, <2>2, DeleteEffect DEF Answered
<1>7. CASE res = "ok"
  <2>1. CASE Len(s) = 1
    <3>1. Ended("recursive", "ok")
      BY <1>2, <1>7, <2>1 DEF Returns
    <3> QED
      BY <1>1, <1>5, <3>1 DEF Ended, Ends, Failures, RecursiveInv, Successful, Idle
  <2>2. CASE Len(s) # 1
    <3>1. call' = [call EXCEPT !.stack = Tail(s)] /\ answer'.op = "none"
      BY <1>2, <1>7, <2>2 DEF Returns, Goes, Proceeds, NoAnswer
    <3>2. call' = Recursion(call, Tail(s))
      BY <1>1, <3>1 DEF Recursion
    <3>3. Path(call.key, Tail(s))
      BY <1>1, <2>2, PathShortens
    <3>4. ASSUME Alone
          PROVE  Matching(Tail(s), tree')
      <4>1. DOMAIN tree' = DOMAIN tree \ {f.key}
        BY <1>6, <1>7, <3>4, DeleteEffect DEF Failures
      <4> QED
        BY <1>1, <1>6, <2>2, <3>4, <4>1, MatchingShortens
    <3>5. RecursiveInv'
      BY <1>1, <3>2, <3>3, <3>4 DEF RecursiveInv, Recursion, Alone
    <3> QED
      BY <1>5, <3>1, <3>5 DEF Successful, Finishes
  <2> QED
    BY <2>1, <2>2
<1>8. CASE res = "notAllowedOnNonleaf" /\ f.at = "try"
  <2> DEFINE g == [f EXCEPT !.at = "list"]
  <2>1. call' = [call EXCEPT !.stack = [s EXCEPT ![1].at = "list"]] /\ answer'.op = "none"
    BY <1>2, <1>8 DEF Goes, Proceeds, NoAnswer
  <2>2. call' = Recursion(call, Topped(s, g))
    BY <1>1, <2>1 DEF Recursion, Topped
  <2>3. IsFrame(g) /\ g.key = f.key /\ g.via = f.via /\ g.todo = f.todo /\ g.at = "list"
    BY <1>4 DEF IsFrame
  <2>4. \A k \in f.todo : Under(k, f.key) /\ Len(k) = Len(f.key) + 1
    BY <1>1, EndOfPath
  <2> HIDE DEF g
  <2>5. Path(call.key, Topped(s, g))
    BY <1>1, <2>3, <2>4, PathStays
  <2>6. ASSUME Alone
        PROVE  Matching(Topped(s, g), tree')
    <3>1. tree' = tree
      BY <1>6, <1>8, <2>6, DeleteEffect DEF Failures
    <3> QED
      BY <1>1, <1>6, <2>3, <2>4, <2>6, <3>1, MatchingStays
  <2>7. RecursiveInv'
    BY <1>1, <2>2, <2>5, <2>6 DEF RecursiveInv, Recursion, Alone
  <2> QED
    BY <1>5, <2>1, <2>7 DEF Successful, Finishes
<1>9. CASE res # "ok" /\ ~(res = "notAllowedOnNonleaf" /\ f.at = "try")
  <2>1. Ended("recursive", res)
    BY <1>2, <1>9
  <2>2. Alone => res \in Failures
    BY <1>1, <1>6, <1>9
  <2> QED
    BY <1>1, <1>5, <2>1, <2>2 DEF Ended, Ends, RecursiveInv, Successful, Idle, Alone
<1> QED
  BY <1>7, <1>8, <1>9

\* What the search has found is to be deleted by the frame at the end of the path.
Searched(s, todo) == [s EXCEPT ![1].at = "loop", ![1].todo = todo]
\* It is another frame at the end of the path.
LEMMA SearchedIsTopped ==
  ASSUME NEW s, s \in Seq(Members(s)), 1 \in DOMAIN s, IsFrame(s[1]), NEW todo
  PROVE  Searched(s, todo) = Topped(s, Moved(s[1], "loop", todo))
<1> DEFINE f == s[1]
           h == [f EXCEPT !.at = "loop"]
           r == [s EXCEPT ![1] = h]
<1>1. [h EXCEPT !.todo = todo] = Moved(f, "loop", todo)
  <2>1. Listed(f, "loop", todo) = Moved(f, "loop", todo)
    BY FrameMoves
  <2> QED
    BY <2>1 DEF Listed
<1>2. r[1] = h /\ DOMAIN r = DOMAIN s
  OBVIOUS
<1>3. Searched(s, todo) = [r EXCEPT ![1] = [h EXCEPT !.todo = todo]]
  BY <1>2 DEF Searched
<1> HIDE DEF h
<1>4. \A x : [r EXCEPT ![1] = x] = [s EXCEPT ![1] = x]
  OBVIOUS
<1> QED
  BY <1>1, <1>3, <1>4 DEF Topped

\* The search for children.
LEMMA SearchStep ==
  ASSUME RecursiveInv, TxnInv, RecursiveSearch
  PROVE  RecursiveInv' /\ Subtree /\ Successful
<1> DEFINE s == call.stack
           f == s[1]
           q == Request("search", f.key)
           g == Moved(f, "loop", Found(f.key))
<1>1. /\ call.op = "recursive" /\ call = Recursion(call, s) /\ Path(call.key, s)
      /\ Alone => Matching(s, tree)
      /\ others \in Nat /\ UNCHANGED <<block, calls, others, undisturbed>>
  BY DEF RecursiveInv, RecursiveSearch, bounds
<1>2. PICK res : /\ Ask(q, "default", res)
                 /\ IF res = "ok"
                    THEN Goes([s EXCEPT ![1].at = "loop", ![1].todo = Found(f.key)])
                    ELSE Ended("recursive", res)
  BY DEF RecursiveSearch, TopFrame
<1>3. Effect(q, tree) = tree /\ q.kind = "search" /\ q.key = f.key /\ q.kind \in Reads
  BY DEF Effect, Request, Reads
<1>4. tree' = tree /\ res \in Failures \cup {Answered(q, "default")}
  BY <1>2, <1>3, AskOutcome DEF Outcomes, TxnInv
<1>5. Subtree
  BY <1>4 DEF Subtree
<1>6. Alone => res \in Failures \cup {"ok"}
  <2>1. ASSUME Alone
        PROVE  Answered(q, "default") = "ok" \/ res \in Failures
    <3>1. f.key \in DOMAIN tree /\ (~Inside("default") \/ res \in Failures)
      BY <1>1, <1>2, <2>1, EndOfPath, AloneOutside DEF Alone, Failures
    <3> QED
      BY <1>3, <3>1 DEF Answered, Result
  <2> QED
    BY <1>4, <2>1
<1>7. CASE res = "ok"
  <2>1. s \in Seq(Members(s)) /\ 1 \in DOMAIN s /\ IsFrame(f)
    BY <1>1, EndOfPath, SequenceOfMembers DEF Path, Sequence, Members
  <2>2. Goes(Searched(s, Found(f.key)))
    BY <1>2, <1>7 DEF Searched
  <2>3. call' = [call EXCEPT !.stack = Topped(s, g)] /\ answer'.op = "none"
    BY <2>1, <2>2, SearchedIsTopped DEF Goes, Proceeds, NoAnswer
  <2>4. call' = Recursion(call, Topped(s, g))
    BY <1>1, <2>3 DEF Recursion
  <2>5. /\ IsFrame(g) /\ g.key = f.key /\ g.via = f.via /\ g.at = "loop"
        /\ g.todo = Children(f.key, tree)
    BY DEF IsFrame, Moved, Found
  <2>6. \A k \in g.todo : Under(k, g.key) /\ Len(k) = Len(g.key) + 1
    BY <2>5 DEF Children
  <2> HIDE DEF g
  <2>7. Path(call.key, Topped(s, g))
    BY <1>1, <2>5, <2>6, PathStays
  <2>8. Alone => Matching(Topped(s, g), tree)
    BY <1>1, <2>5, <2>6, MatchingStays
  <2>9. RecursiveInv'
    BY <1>1, <1>4, <2>4, <2>7, <2>8 DEF RecursiveInv, Recursion, Alone
  <2> QED
    BY <1>5, <2>3, <2>9 DEF Successful, Finishes
<1>8. CASE res # "ok"
  <2>1. Ended("recursive", res)
    BY <1>2, <1>8
  <2> QED
    BY <1>1, <1>5, <1>6, <1>8, <2>1 DEF Ended, Ends, RecursiveInv, Successful, Idle, Alone
<1> QED
  BY <1>7, <1>8

\* The loop goes on to a child.
LEMMA DescendStep ==
  ASSUME RecursiveInv, RecursiveDescend
  PROVE  RecursiveInv' /\ Subtree /\ Successful
<1> DEFINE s == call.stack
           f == s[1]
<1>1. /\ call.op = "recursive" /\ call = Recursion(call, s) /\ Path(call.key, s)
      /\ Alone => Matching(s, tree) /\ f.at = "loop"
      /\ others \in Nat /\ UNCHANGED <<tree, block, calls, others, undisturbed>>
  BY DEF RecursiveInv, RecursiveDescend, TopFrame, bounds, server
<1>2. PICK x \in f.todo : Goes(<<Frame(x, "default")>> \o [s EXCEPT ![1].todo = @ \ {x}])
  BY DEF RecursiveDescend, TopFrame
<1> DEFINE e == Frame(x, "default")
           g == Moved(f, f.at, f.todo \ {x})
           r == Lengthened(Topped(s, g), e)
<1>3. call' = [call EXCEPT !.stack = r] /\ answer'.op = "none"
  <2>1. IsFrame(f) /\ 1 \in DOMAIN s
    BY <1>1, EndOfPath, SequenceOfMembers DEF Path, Sequence, Members
  <2>2. g = Spared(f, f.todo \ {x})
    BY <2>1, FrameMoves
  <2> HIDE DEF g, e
  <2>3. [s EXCEPT ![1].todo = @ \ {x}] = Topped(s, g)
    BY <2>1, <2>2 DEF Topped, Spared
  <2> QED
    BY <1>2, <2>3 DEF Goes, Proceeds, NoAnswer, Lengthened, e
<1>4. call' = Recursion(call, r)
  BY <1>1, <1>3 DEF Recursion
<1>5. IsFrame(e) /\ e.key = x /\ e.via = "default" /\ e.at = "try" /\ e.todo = {}
  BY DEF Frame, IsFrame
<1>6. IsFrame(f) /\ \A k \in f.todo : Under(k, f.key) /\ Len(k) = Len(f.key) + 1
  BY <1>1, EndOfPath
<1>7. IsFrame(g) /\ g.key = f.key /\ g.via = f.via /\ g.at = f.at /\ g.todo = f.todo \ {x}
  BY DEF IsFrame, Moved
<1>8. \A k \in g.todo : Under(k, g.key) /\ Len(k) = Len(g.key) + 1
  BY <1>6, <1>7
<1> HIDE DEF e, g, r
<1>9. /\ Path(call.key, Topped(s, g)) /\ Len(Topped(s, g)) = Len(s) /\ Topped(s, g)[1] = g
      /\ \A n \in 2 .. Len(s) : Topped(s, g)[n] = s[n]
  BY <1>1, <1>7, <1>8, PathStays
<1>10. /\ Path(call.key, r) /\ Len(r) = Len(s) + 1 /\ r[1] = e
       /\ \A n \in 2 .. Len(r) : r[n] = Topped(s, g)[n - 1]
  <2>1. Under(e.key, Topped(s, g)[1].key) /\ Len(e.key) = Len(Topped(s, g)[1].key) + 1
    BY <1>5, <1>6, <1>7, <1>9
  <2> DEFINE p == Topped(s, g)
  <2>2. Path(call.key, p) /\ Under(e.key, p[1].key) /\ Len(e.key) = Len(p[1].key) + 1 /\ r = Lengthened(p, e)
    BY <1>9, <2>1 DEF r
  <2> HIDE DEF p
  <2>3. /\ Path(call.key, r) /\ Len(r) = Len(p) + 1 /\ r[1] = e
        /\ \A n \in 2 .. Len(r) : r[n] = p[n - 1]
    BY <1>5, <2>2, PathLengthens
  <2> QED
    BY <1>9, <2>3 DEF p
<1>11. r[2] = g /\ \A n \in 3 .. Len(r) : r[n] = s[n - 1]
  <2>1. Len(s) \in Nat \ {0}
    BY <1>1, EndOfPath
  <2>2. r[2] = g
    BY <1>9, <1>10, <2>1
  <2>3. ASSUME NEW n \in 3 .. Len(r)
        PROVE  r[n] = s[n - 1]
    <3>1. n \in 2 .. Len(r) /\ n - 1 \in 2 .. Len(s)
      BY <1>10, <2>1
    <3> QED
      BY <1>9, <1>10, <3>1
  <2> QED
    BY <2>2, <2>3
<1>12. Alone => Matching(r, tree)
  BY <1>1, <1>5, <1>7, <1>10, <1>11, MatchingLengthens, ZenonT(30)
<1>13. RecursiveInv'
  BY <1>1, <1>4, <1>10, <1>12 DEF RecursiveInv, Recursion, Alone
<1> QED
  BY <1>1, <1>3, <1>13 DEF Subtree, Successful, Finishes

\* The call begins with the entry to delete.
LEMMA StartedStep ==
  ASSUME RecursiveInv, Started
  PROVE  RecursiveInv' /\ Subtree /\ Successful
<1>1. PICK d \in Names \cup {Suffix}, via \in Via :
        (via = "default" \/ block # "none") /\ DeleteRecursive(d, via)
  BY DEF Started
<1> DEFINE s == <<Frame(Key(d), via)>>
           c == [op |-> "recursive", key |-> Key(d), existed |-> Key(d) \in DOMAIN tree, stack |-> s]
<1>2. /\ call = Idle /\ call' = c /\ answer'.op = "none"
      /\ others \in Nat /\ UNCHANGED <<tree, block, others>>
  BY <1>1 DEF DeleteRecursive, Begins, Proceeds, NoAnswer, RecursiveInv, server
<1>3. /\ Path(Key(d), s)
      /\ \A t : via = "default" /\ Key(d) \in DOMAIN t => Matching(s, t)
  BY PathBegins
<1>4. block = "none" => via = "default"
  BY <1>1
<1> HIDE DEF s
<1>5. /\ "op" \in DOMAIN c /\ c.op = "recursive" /\ c.key = Key(d) /\ c.stack = s
      /\ c.existed <=> Key(d) \in DOMAIN tree
      /\ c = Recursion(c, s)
  BY DEF Recursion
<1> HIDE DEF c
<1>6. ASSUME Alone'
      PROVE  Matching(call'.stack, tree')
  <2>1. via = "default" /\ Key(d) \in DOMAIN tree
    BY <1>2, <1>4, <1>5, <1>6 DEF Alone
  <2> QED
    BY <1>2, <1>3, <1>5, <2>1
<1>7. RecursiveInv'
  BY <1>2, <1>3, <1>5, <1>6 DEF RecursiveInv
<1> QED
  BY <1>2, <1>7 DEF Subtree, Successful, Finishes

\* Another operation, or the other client.
LEMMA OtherStep ==
  ASSUME RecursiveInv, others' \in Nat, Elsewhere \/ Meanwhile
  PROVE  RecursiveInv' /\ Subtree /\ Successful
<1>1. CASE Elsewhere
  BY <1>1 DEF Elsewhere, RecursiveInv, Subtree, Successful
<1>2. CASE Meanwhile
  <2>1. /\ call' = call /\ others' # others /\ ~undisturbed' /\ ~Finishes("recursive")
    BY <1>2 DEF Meanwhile, Finishes
  <2> QED
    BY <2>1 DEF RecursiveInv, Subtree, Successful, Alone
<1> QED
  BY <1>1, <1>2

\* The invariant, with that of transactions, which says that no control is left over.
LEMMA RecursiveInvariance == Spec => []RecursiveInv
<1>1. Init => RecursiveInv
  BY DEF Init, RecursiveInv, Idle
<1>2. ASSUME RecursiveInv, TxnInv, [Next]_vars
      PROVE  RecursiveInv'
  <2>1. others' \in Nat
    BY <1>2, OthersCounted DEF RecursiveInv
  <2>2. CASE Next
    BY <1>2, <2>1, <2>2, StepsOfCall, StartedStep, DeleteStep, SearchStep, DescendStep, OtherStep
    DEF RecursiveInv, TxnInv
  <2>3. CASE UNCHANGED vars
    BY <1>2, <2>3 DEF vars, server, bounds, RecursiveInv, Alone
  <2> QED
    BY <1>2, <2>2, <2>3
<1> QED
  BY <1>1, <1>2, TransactionInvariance, PTL DEF Spec

\* What each step keeps to.
LEMMA RecursiveStep ==
  ASSUME RecursiveInv, TxnInv, [Next]_vars
  PROVE  [Subtree /\ Successful]_vars
<1>1. others' \in Nat
  BY OthersCounted DEF RecursiveInv
<1>2. CASE Next
  BY <1>1, <1>2, StepsOfCall, StartedStep, DeleteStep, SearchStep, DescendStep, OtherStep
  DEF RecursiveInv, TxnInv
<1> QED
  BY <1>2

\* delete_recursive() removes nothing outside the subtree of the entry it was called for (843-850),
\* whatever the other client adds and removes between its requests.
THEOREM DeleteStaysConfined == Spec => DeleteConfined
<1>1. RecursiveInv /\ TxnInv /\ [Next]_vars => [Subtree]_vars
  BY RecursiveStep
<1>2. DeleteConfined <=> [][Subtree]_vars
  BY DEF DeleteConfined, Subtree
<1> QED
  BY <1>1, <1>2, RecursiveInvariance, TransactionInvariance, PTL DEF Spec

\* delete_recursive() of an entry with nobody else at work never meets an entry that is gone or
\* that still has children when it comes to delete it: it succeeds unless a request fails.
THEOREM DeleteIsComplete == Spec => DeleteComplete
<1>1. RecursiveInv /\ TxnInv /\ [Next]_vars => [Successful]_vars
  BY RecursiveStep
<1>2. DeleteComplete <=> [][Successful]_vars
  BY DEF DeleteComplete, Successful
<1> QED
  BY <1>1, <1>2, RecursiveInvariance, TransactionInvariance, PTL DEF Spec
(***************************************************************************)
(* The names in results.                                                   *)
(***************************************************************************)

\* The second request of modify_ml takes the caller's controls, and a transaction's only in the block.
ModifyInv ==
  "op" \in DOMAIN call /\ (call.op = "modify" /\ call.via = "txn" => block # "none")

Named ==
  \A op \in {"add", "modify", "rename", "move", "modrdn", "refreshTtl"} :
    Finishes(op) /\ answer'.res = "ok" /\ block = "none" => Key(answer'.dn) \in DOMAIN tree'

\* Outside the block, a request that succeeds has its effect.
LEMMA RequestDone ==
  ASSUME TxnInv, block = "none", NEW q, NEW via, via = "txn" => block # "none", 
         NEW res, res = "ok", Ask(q, via, res)
  PROVE  Result(q, tree) = "ok" /\ tree' = Effect(q, tree)
<1>1. ~Inside(via)
  BY AloneOutside
<1>2. /\ res \in Outcomes(q, via) /\ res \notin Failures /\ tree' = Effect(q, tree)
  <2>1. Dropped
    BY DEF TxnInv
  <2> QED
    BY <1>1, <2>1, AskOutcome DEF Failures
<1>3. Answered(q, via) = Result(q, tree)
  BY <1>1 DEF Answered
<1> QED
  BY <1>2, <1>3 DEF Outcomes

\* The entry of a rename has the new name then.
LEMMA RenamedHasName ==
  ASSUME NEW q, NEW t, q.key \in DOMAIN t, Sequence(q.key), Sequence(q.new), Under(q.key, q.key)
  PROVE  q.new \in DOMAIN Renamed(q, t)
<1> DEFINE moved(k) == SubSeq(k, 1, Len(k) - Len(q.key)) \o q.new
           names == {IF Under(k, q.key) THEN moved(k) ELSE k : k \in DOMAIN t}
<1>1. moved(q.key) = q.new
  <2>1. SubSeq(q.key, 1, Len(q.key) - Len(q.key)) = <<>>
    BY SequenceOfMembers DEF Sequence
  <2>2. <<>> \o q.new = q.new
    BY SequenceOfMembers DEF Sequence
  <2> QED
    BY <2>1, <2>2
<1>2. q.new \in names
  BY <1>1
<1>3. DOMAIN Renamed(q, t) = names
  BY DEF Renamed
<1> QED
  BY <1>2, <1>3

\* The entry that a request of success is about is there afterwards.
LEMMA EffectNames ==
  ASSUME NEW q, NEW t, Result(q, t) = "ok"
  PROVE  /\ q.kind \in {"add", "modify", "refresh"} => q.key \in DOMAIN Effect(q, t)
         /\ q.kind = "rename" /\ Sequence(q.key) /\ Sequence(q.new) /\ Under(q.key, q.key) =>
              q.new \in DOMAIN Effect(q, t)
<1>1. CASE q.kind = "add"
  BY <1>1 DEF Effect
<1>2. CASE q.kind # "add"
  <2>1. q.key \in DOMAIN t
    BY <1>2 DEF Result
  <2>2. q.kind = "modify" => Effect(q, t) = [t EXCEPT ![q.key] = AfterChanges(@, q.ml)]
    BY <1>2 DEF Effect
  <2>3. q.kind = "refresh" => Effect(q, t) = t
    BY <1>2 DEF Effect
  <2>4. q.kind = "rename" => Effect(q, t) = Renamed(q, t)
    BY <1>2 DEF Effect
  <2>5. q.kind = "modify" => DOMAIN Effect(q, t) = DOMAIN t
    BY <2>2
  <2> QED
    BY <1>2, <2>1, <2>3, <2>4, <2>5, RenamedHasName
<1> QED
  BY <1>1, <1>2

\* A request that ends the call.
Concludes(op, q, via, d) ==
  \E res \in Outcomes(q, via) :
    Ask(q, via, res) /\ (Ends(op, res, d) \/ (res = "ok" /\ Ended(op, "protocolError")))

\* If it succeeds, the entry is there.
LEMMA ConcludesNames ==
  ASSUME TxnInv, NEW op, NEW q, NEW via, via = "txn" => block # "none", NEW d,
         \/ q.kind \in {"add", "modify", "refresh"} /\ q.key = Key(d)
         \/ /\ q.kind = "rename" /\ q.new = Key(d)
            /\ Sequence(q.key) /\ Sequence(q.new) /\ Under(q.key, q.key),
         Concludes(op, q, via, d)
  PROVE  Named /\ call' = Idle
<1>1. PICK res \in Outcomes(q, via) :
        Ask(q, via, res) /\ (Ends(op, res, d) \/ (res = "ok" /\ Ended(op, "protocolError")))
  BY DEF Concludes
<1>2. call' = Idle /\ (answer'.res = "ok" => res = "ok" /\ answer'.dn = d)
  BY <1>1 DEF Ends, Ended, Failures
<1>3. ASSUME answer'.res = "ok", block = "none"
      PROVE  Key(answer'.dn) \in DOMAIN tree'
  <2>1. Result(q, tree) = "ok" /\ tree' = Effect(q, tree)
    BY <1>1, <1>2, <1>3, RequestDone
  <2> QED
    BY <1>2, <1>3, <2>1, EffectNames
<1> QED
  BY <1>2, <1>3 DEF Named

\* The other calls have no name in their results.
LEMMA NamelessNames ==
  ASSUME \/ answer'.op \notin {"add", "modify", "rename", "move", "modrdn", "refreshTtl"}
         \/ answer'.res # "ok"
         \/ call' = call /\ calls' = calls
  PROVE  Named
BY DEF Named, Finishes

\* An operation of one request.
LEMMA SingleNames ==
  ASSUME TxnInv, NEW op, NEW q, NEW via, via = "txn" => block # "none", NEW d,
         \/ q.kind \in {"add", "modify", "refresh"} /\ q.key = Key(d)
         \/ /\ q.kind = "rename" /\ q.new = Key(d)
            /\ Sequence(q.key) /\ Sequence(q.new) /\ Under(q.key, q.key)
         \/ op \in {"delete", "compare"},
         Single(op, q, via, d) \/ (via = "default" /\ Extended(op, q, d))
  PROVE  Named /\ ModifyInv'
<1>1. Concludes(op, q, via, d)
  BY DEF Single, Extended, Concludes
<1>2. call' = Idle /\ answer'.op = op
  BY <1>1 DEF Concludes, Ends, Ended
<1>3. ModifyInv'
  BY <1>2 DEF ModifyInv, Idle
<1>4. op \in {"delete", "compare"} => Named
  BY <1>2, NamelessNames
<1> QED
  BY <1>1, <1>3, <1>4, ConcludesNames

\* The key of a sequence of components is a sequence.
LEMMA KeyOfSequence ==
  ASSUME NEW d, Sequence(d)
  PROVE  Sequence(Key(d)) /\ Under(Key(d), Key(d))
<1>2. DOMAIN d = 1 .. Len(d) /\ Len(d) \in Nat
  BY SequenceOfMembers DEF Sequence
<1>3. Key(d) = [i \in 1 .. Len(d) |-> Pairs(d[i])]
  BY <1>2 DEF Key
<1>4. Key(d) \in Seq({Pairs(d[i]) : i \in 1 .. Len(d)}) /\ Len(Key(d)) = Len(d)
  BY <1>2, <1>3
<1>5. Sequence(Key(d))
  BY <1>4, SequenceOfMembers
<1>6. Key(d) = [i \in 1 .. Len(Key(d)) |-> Key(d)[Len(Key(d)) - Len(Key(d)) + i]]
  BY <1>2, <1>3, <1>4
<1>7. Under(Key(d), Key(d))
  BY <1>4, <1>6, UnderEnds
<1> QED
  BY <1>5, <1>7

\* A component before a name makes a name.
LEMMA ComponentBefore ==
  ASSUME NEW r, NEW e, Sequence(e)
  PROVE  Sequence(<<r>> \o e)
<1> DEFINE S == {r} \cup Members(e)
<1>1. <<r>> \in Seq(S) /\ e \in Seq(S)
  BY SeqMonotonic DEF Sequence, Members
<1>2. <<r>> \o e \in Seq(S)
  BY <1>1
<1> QED
  BY <1>2, SequenceOfMembers

\* What is left of a name is one.
LEMMA EndOfName ==
  ASSUME NEW e, Sequence(e), NEW n \in Nat
  PROVE  Sequence(Ending(e, n)) /\ Sequence(From(e, n))
<1>1. e \in Seq(Members(e)) /\ Len(e) \in Nat
  BY SequenceOfMembers DEF Sequence, Members
<1>2. \A m \in Nat : From(e, m) \in Seq(Members(e))
  BY <1>1 DEF From
<1>3. \A m \in Nat : Sequence(From(e, m))
  BY <1>2, SequenceOfMembers
<1>4. n <= Len(e) => Len(e) - n \in Nat
  BY <1>1
<1> QED
  BY <1>1, <1>3, <1>4 DEF Ending

\* f'{rdn},{name}' is a name or none.
LEMMA PlusIsName ==
  ASSUME NEW r, NEW e, Sequence(e) \/ e = NoDn
  PROVE  Plus(<<r>>, e) = InvalidDN \/ Sequence(Plus(<<r>>, e))
<1>1. CASE e \in {<<>>, NoDn, InvalidDN}
  BY <1>1 DEF Plus
<1>2. CASE e \notin {<<>>, NoDn, InvalidDN}
  <2>1. <<r>> # <<>>
    OBVIOUS
  <2>2. Plus(<<r>>, e) = <<r>> \o e
    BY <1>2, <2>1 DEF Plus
  <2>3. Sequence(e)
    BY <1>2
  <2> QED
    BY <2>2, <2>3, ComponentBefore
<1> QED
  BY <1>1, <1>2

\* rename(), to whatever name.
LEMMA RenameNames ==
  ASSUME TxnInv, NEW op, NEW via, via = "txn" => block # "none", NEW d, Sequence(d),
         NEW new, new = InvalidDN \/ Sequence(new), NEW drop, Rename(op, d, new, drop, via)
  PROVE  Named /\ ModifyInv'
<1>1. ASSUME NEW res, Raises(op, res), res # "ok"
      PROVE  Named /\ ModifyInv'
  <2>1. call' = Idle /\ answer'.res # "ok"
    BY <1>1 DEF Raises, Ended, Ends
  <2> QED
    BY <2>1, NamelessNames DEF ModifyInv, Idle
<1>2. ASSUME Single(op, Renaming(Key(d), Key(new), drop), via, new), new # InvalidDN
      PROVE  Named /\ ModifyInv'
  <2> DEFINE q == Renaming(Key(d), Key(new), drop)
  <2>1. q.kind = "rename" /\ q.key = Key(d) /\ q.new = Key(new)
    BY DEF Renaming, Request
  <2>2. Sequence(q.key) /\ Sequence(q.new) /\ Under(q.key, q.key)
    BY <1>2, <2>1, KeyOfSequence
  <2> HIDE DEF q
  <2>3. Single(op, q, via, new)
    BY <1>2 DEF q
  <2> QED
    BY <2>1, <2>2, <2>3, SingleNames
<1> QED
  BY <1>1, <1>2 DEF Rename

\* modify_ml(), in one request or the first of two.
LEMMA ModifyNames ==
  ASSUME TxnInv, NEW via, via = "txn" => block # "none", NEW d, NEW ml, Modify(d, ml, via)
  PROVE  Named /\ ModifyInv'
<1> DEFINE new == ComputeChangedDn(d, ml)
<1>1. CASE Same(d, new)
  <2> DEFINE q == Modifying(Key(d), ml)
  <2>1. q.kind = "modify" /\ q.key = Key(d)
    BY DEF Modifying, Request
  <2> HIDE DEF q
  <2>2. Single("modify", q, via, d)
    BY <1>1 DEF Modify, q
  <2> QED
    BY <2>1, <2>2, SingleNames
<1>2. CASE ~Same(d, new)
  <2> DEFINE c == [op |-> "modify", dn |-> new, ml |-> ml, via |-> via]
  <2>1. PICK res : IF res = "ok" THEN Proceeds(c) ELSE Ended("modify", res)
    BY <1>2 DEF Modify
  <2>2. block' = block /\ c.op = "modify" /\ c.via = via /\ "op" \in DOMAIN c
    BY <1>2 DEF Modify
  <2> HIDE DEF c
  <2>3. CASE res = "ok"
    BY <2>1, <2>2, <2>3, NamelessNames DEF Proceeds, NoAnswer, ModifyInv
  <2>4. CASE res # "ok"
    <3>1. call' = Idle /\ answer'.res # "ok"
      BY <2>1, <2>4 DEF Ended, Ends
    <3> QED
      BY <3>1, NamelessNames DEF ModifyInv, Idle
  <2> QED
    BY <2>3, <2>4
<1> QED
  BY <1>1, <1>2

\* The first step of a modification.
LEMMA StartsNames ==
  ASSUME TxnInv, NEW via \in Via, via = "txn" => block # "none", Starts(via)
  PROVE  Named /\ ModifyInv'
<1>1. ASSUME NEW d \in Names, Add(d, via) \/ Delete(d, via)
      PROVE  Named /\ ModifyInv'
  <2>1. Request("add", Key(d)).kind = "add" /\ Request("add", Key(d)).key = Key(d)
    BY DEF Request
  <2> QED
    BY <1>1, <2>1, SingleNames DEF Add, Delete
<1>2. ASSUME NEW d, DeleteRecursive(d, via)
      PROVE  Named /\ ModifyInv'
  BY <1>2, NamelessNames DEF DeleteRecursive, Proceeds, NoAnswer, ModifyInv
<1>3. \A d \in Names \cup {Suffix} : Sequence(d)
  BY ConstantsAssumption DEF Sequence
<1>4. ASSUME NEW d \in Names, NEW new \in Names, NEW drop \in BOOLEAN, Rename("rename", d, new, drop, via)
      PROVE  Named /\ ModifyInv'
  BY <1>3, <1>4, RenameNames
<1>5. ASSUME NEW d \in Names, NEW to \in Names \cup {Suffix, <<>>}, Move(d, to, via)
      PROVE  Named /\ ModifyInv'
  <2>1. Sequence(<<>>)
    BY DEF Sequence
  <2>2. Sequence(d) /\ Sequence(to)
    BY <1>3, <2>1
  <2> QED
    BY <1>5, <2>2, PlusIsName, RenameNames DEF Move
<1>6. ASSUME NEW d \in Names \cup {Ending(Suffix, 1)}, NEW rdn, NEW drop, Modrdn(d, rdn, drop, via)
      PROVE  Named /\ ModifyInv'
  <2>1. Sequence(d)
    BY <1>3, EndOfName
  <2>2. Sequence(Parent(d)) \/ Parent(d) = NoDn
    BY <2>1, EndOfName DEF Parent
  <2> QED
    BY <1>6, <2>1, <2>2, PlusIsName, RenameNames DEF Modrdn
<1> QED
  BY <1>1, <1>2, <1>4, <1>5, <1>6, ModifyNames DEF Starts

\* The steps of an operation between its requests and at its end.
LEMMA ContinuesNames ==
  ASSUME TxnInv, ModifyInv, Continues
  PROVE  Named /\ ModifyInv'
<1>1. CASE ModifyRenamed
  <2> DEFINE q == Modifying(Key(call.dn), call.ml)
  <2>1. q.kind = "modify" /\ q.key = Key(call.dn)
    BY DEF Modifying, Request
  <2>2. Concludes("modify", q, call.via, call.dn)
    BY <1>1 DEF ModifyRenamed, Concludes
  <2>3. call.via = "txn" => block # "none"
    BY <1>1 DEF ModifyRenamed, ModifyInv
  <2> HIDE DEF q
  <2>4. Named /\ call' = Idle
    BY <2>1, <2>2, <2>3, ConcludesNames
  <2> QED
    BY <2>4 DEF ModifyInv, Idle
<1> DEFINE Beside == /\ answer'.op \in {"none", "recursive", "compareDn"}
                     /\ "op" \in DOMAIN call' /\ call'.op # "modify"
<1>2. ASSUME NEW res, NEW op \in {"recursive", "compareDn"}, Ended(op, res)
      PROVE  Beside
  BY <1>2 DEF Ended, Ends, Idle
<1>3. ASSUME NEW stack, Goes(stack), call.op = "recursive"
      PROVE  Beside
  BY <1>3 DEF Goes, Proceeds, NoAnswer, ModifyInv
<1>4. CASE RecursiveDelete \/ RecursiveSearch \/ RecursiveDescend
  <2>1. call.op = "recursive"
    BY <1>4 DEF RecursiveDelete, RecursiveSearch, RecursiveDescend
  <2>2. (\E stack : Goes(stack)) \/ (\E res : Ended("recursive", res))
    BY <1>4 DEF RecursiveDelete, RecursiveSearch, RecursiveDescend, Returns
  <2> QED
    BY <1>2, <1>3, <2>1, <2>2, NamelessNames DEF ModifyInv
<1>5. CASE CompareComponent \/ CompareDnEnds
  <2>1. call.op = "compareDn"
    BY <1>5 DEF CompareComponent, CompareDnEnds
  <2>2. (\E equal : Compared(equal)) \/ (\E res : Ended("compareDn", res))
    BY <1>5 DEF CompareComponent, CompareDnEnds
  <2>3. ASSUME NEW equal, Compared(equal)
        PROVE  Beside
    <3>1. CASE equal
      <4>1. answer' = NoAnswer /\ call' \in {[call EXCEPT !.j = @ + 1], [call EXCEPT !.i = @ + 1, !.j = 1]}
        BY <2>3, <3>1 DEF Compared, Proceeds
      <4>2. "op" \in DOMAIN call
        BY DEF ModifyInv
      <4>3. CASE call' = [call EXCEPT !.j = @ + 1]
        BY <2>1, <4>1, <4>2, <4>3 DEF NoAnswer
      <4>4. CASE call' = [call EXCEPT !.i = @ + 1, !.j = 1]
        <5> DEFINE c == [call EXCEPT !.i = @ + 1]
        <5>1. c.op = "compareDn" /\ "op" \in DOMAIN c
          BY <2>1, <4>2
        <5>2. call' = [c EXCEPT !.j = 1]
          BY <4>4
        <5> HIDE DEF c
        <5> QED
          BY <4>1, <5>1, <5>2 DEF NoAnswer
      <4> QED
        BY <4>1, <4>3, <4>4
    <3>2. CASE ~equal
      BY <1>2, <2>3, <3>2 DEF Compared
    <3> QED
      BY <3>1, <3>2
  <2> QED
    BY <1>2, <2>2, <2>3, NamelessNames DEF ModifyInv
<1> QED
  BY <1>1, <1>4, <1>5 DEF Continues

\* Every step names entries that are there.
LEMMA NextNames ==
  ASSUME TxnInv, ModifyInv, Next
  PROVE  Named /\ ModifyInv'
<1>1. ASSUME NEW d, NEW ava, Compare(d, ava)
      PROVE  Named /\ ModifyInv'
  BY <1>1, SingleNames DEF Compare
<1>2. ASSUME NEW d, RefreshTtl(d)
      PROVE  Named /\ ModifyInv'
  <2>1. Request("refresh", Key(d)).kind = "refresh" /\ Request("refresh", Key(d)).key = Key(d)
    BY DEF Request
  <2> QED
    BY <1>2, <2>1, SingleNames DEF RefreshTtl
<1>3. ASSUME NEW entry, NEW d, CompareDn(entry, d)
      PROVE  Named /\ ModifyInv'
  BY <1>3, NamelessNames DEF CompareDn, Proceeds, NoAnswer, ModifyInv
<1>4. CASE (\E set \in BOOLEAN : Begin(set)) \/ Abort \/ Commit
  <2>1. ASSUME NEW set, Begin(set)
        PROVE  call' = Idle /\ answer'.op = "begin"
    BY <2>1 DEF Begin, Ended, Ends
  <2>2. ASSUME Abort
        PROVE  call' = Idle /\ answer'.op = "raised"
    <3>1. answer'.op = "raised" /\ call' = Idle
      BY <2>2 DEF Abort, LeavesBlock, Leaves
    <3> QED
      BY <3>1
  <2>3. ASSUME Commit
        PROVE  call' = Idle /\ answer'.op \in {"left", "raised"}
    <3>1. PICK res : Leaves(res = "ok" \/ Swallowed(res), res)
      BY <2>3 DEF Commit
    <3>2. answer'.op \in {"left", "raised"} /\ call' = Idle
      BY <2>3, <3>1 DEF Commit, LeavesBlock, Leaves
    <3> QED
      BY <3>2
  <2>4. call' = Idle /\ answer'.op \in {"begin", "left", "raised"}
    BY <1>4, <2>1, <2>2, <2>3
  <2> QED
    BY <2>4, NamelessNames DEF ModifyInv, Idle
<1>5. CASE (\E q : Other(q)) \/ ConnectionLost \/ Reconnect
  <2>1. UNCHANGED <<call, calls, block>>
    BY <1>5 DEF Other, ConnectionLost, Reconnect, bounds
  <2> QED
    BY <2>1, NamelessNames DEF ModifyInv
<1> QED
  BY <1>1, <1>2, <1>3, <1>4, <1>5, StartsNames, ContinuesNames DEF Next, Environment

\* The name that add, modify, rename, move, modrdn and refresh_ttl return (719-767, 800-835,
\* 945-950) is that of an entry which is there, however many requests it took and whoever was at
\* work between them.
THEOREM ResultsNameEntries == Spec => ResultNamesEntry
<1>1. Init => ModifyInv
  BY DEF Init, ModifyInv, Idle
<1>2. TxnInv /\ ModifyInv /\ [Next]_vars => ModifyInv'
  <2>1. ASSUME ModifyInv, UNCHANGED vars
        PROVE  ModifyInv'
    BY <2>1 DEF vars, ModifyInv
  <2> QED
    BY <2>1, NextNames
<1>3. TxnInv /\ ModifyInv /\ [Next]_vars => [Named]_vars
  BY NextNames
<1>4. ResultNamesEntry <=> [][Named]_vars
  BY DEF ResultNamesEntry, Named
<1> QED
  BY <1>1, <1>2, <1>3, <1>4, TransactionInvariance, PTL DEF Spec
=============================================================================
