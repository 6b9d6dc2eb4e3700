-------------------------- MODULE AsyncConnection --------------------------
(***************************************************************************)
(* The asynchronous request machinery of freeiam.ldap.connection:          *)
(* _retry, request, _execute, _execute_iter, _poll, _ready, _wait_for,     *)
(* _add_reader, _remove_reader, search_iter and the calls of cancel,       *)
(* reconnect, unbind, disconnect and connect that interfere with it.       *)
(*                                                                         *)
(* Several tasks of one event loop share one Connection.  An action runs   *)
(* from one await (or yield) of the code to the next, so nothing else      *)
(* happens inside it.  libldap, the LDAP server and the loop's selector    *)
(* are modelled from the way the code uses them.                           *)
(***************************************************************************)
EXTENDS Naturals, Sequences, FiniteSets

CONSTANTS
  Ops,            \* the operations; each one is called once, by a task of its own
  NoOp,           \* no operation
  Kind,           \* "execute" | "iterate" | "unbind", for each operation
  Reply,          \* the responses the server has for each operation, by type
  Searches,       \* the searches that the program may call with unique=True
  FDs,            \* file descriptor numbers the kernel hands out
  FirstId,        \* first free message id of a connection: earlier calls took the others
  ReconnectId,    \* first free message id once reconnect() has bound again
  MaxId,          \* bound: the highest message id used on one libldap handle
  MaxAttempts,    \* max_connection_attempts
  Timed,          \* whether self.timeout > 0
  Parallel,       \* whether the program overlaps operations on the connection
  Cancels,        \* whether the program cancels tasks
  MaxLosses,      \* bound: how often the server drops the connection
  MaxConnects     \* bound: how often the program calls connect() again

Ids == 1..MaxId
NoId == 0

ASSUME ConstantsAssumption ==
  /\ NoOp \notin Ops /\ FDs # {}
  /\ Kind \in [Ops -> {"execute", "iterate", "unbind"}]
  /\ Reply \in [Ops -> Seq({"entry", "reference", "result"})]
  /\ Searches \subseteq Ops
  /\ FirstId \in Nat \ {0} /\ ReconnectId \in Nat \ {0}
  /\ MaxId \in Nat /\ MaxLosses \in Nat /\ MaxConnects \in Nat
  /\ MaxAttempts \in Nat \ {0}
  /\ Timed \in BOOLEAN /\ Parallel \in BOOLEAN /\ Cancels \in BOOLEAN

VARIABLES
  pc,         \* where each operation's coroutine is suspended
  attempts,   \* _retry's remaining attempts
  msgid,      \* the message id request() returned
  born,       \* the libldap handle that id belongs to (its h.epoch)
  unique,     \* the searches called with unique=True
  obj,        \* the python-ldap object the operation captured (its h.obj)
  fd,         \* _poll's local variable fd
  fut,        \* _poll's future
  got,        \* the responses the operation has handed to its caller
  h,          \* the connection's libldap handle and the server's side of it
  reader,     \* the loop's registered reader of each file descriptor
  watched,    \* the descriptors the kernel watches for the loop
  reachable,  \* whether the server accepts connections
  losses, connects

opVars == <<pc, unique, attempts, msgid, born, obj, fd, fut, got>>
loopVars == <<reader, watched>>
envVars == <<reachable, losses, connects>>
vars == <<opVars, h, loopVars, envVars>>

(***************************************************************************)
(* libldap and the server.  A message is the n-th response to an           *)
(* operation, n = 0 standing for the result "cancelled".  It carries the   *)
(* message id of the request it answers: wire[i] holds those in the        *)
(* socket, chain[i] those that libldap has read and nobody asked for yet.  *)
(* Answers to different requests come in any order, to one request in      *)
(* theirs, so one queue per id says all there is.                          *)
(***************************************************************************)
Msg == [op: Ops, n: Nat]
NoMsgs == [i \in Ids |-> <<>>]

Type(m) == IF m.n = 0 THEN "cancelled" ELSE Reply[m.op][m.n]

Handles ==
  [st: {"up", "lost", "gone"}, fd: FDs, next: Nat, epoch: Nat, obj: Nat,
   asked: [Ids -> Ops \cup {NoOp}], sent: [Ids -> Nat],
   wire: [Ids -> Seq(Msg)], chain: [Ids -> Seq(Msg)]]

Handle(f, next, epoch, object) ==
  [st |-> "up", fd |-> f, next |-> next, epoch |-> epoch, obj |-> object,
   asked |-> [i \in Ids |-> NoOp], sent |-> [i \in Ids |-> 0],
   wire |-> NoMsgs, chain |-> NoMsgs]

\* What python-ldap's reconnect() puts in the place of handle g, inside the same object.
Reopened(g, f) == Handle(f, ReconnectId, g.epoch + 1, g.obj)

\* g after t's request: the server of a lost connection never sees it.
Requested(g, t) ==
  [g EXCEPT !.next = g.next + 1,
            !.asked = [g.asked EXCEPT ![g.next] = IF g.st = "up" THEN t ELSE NoOp]]

\* One message with id i moves from the socket into its response chain.
ReadOne(g, i) ==
  [g EXCEPT !.wire = [g.wire EXCEPT ![i] = Tail(@)],
            !.chain = [g.chain EXCEPT ![i] = Append(@, Head(g.wire[i]))]]

InSocket(g) == {i \in Ids : g.wire[i] # <<>>}
Readable(g) == g.st = "lost" \/ (g.st = "up" /\ InSocket(g) # {})

\* Whether chain c answers t: any response does for all=0, the last one must be there for all=1.
Complete(t, c) ==
  c # <<>> /\ (Kind[t] = "iterate" \/ Type(c[Len(c)]) \in {"result", "cancelled"})

\* Mutant: an iteration keeps the first response of a poll and drops the others.
LeftNothing(t, c) == <<>>

\* What get_result returns of such a chain, and what stays in it.
Taken(t, c) == IF Kind[t] = "iterate" THEN <<Head(c)>> ELSE c
Left(t, c) == IF Kind[t] = "iterate" THEN Tail(c) ELSE <<>>

\* The handles result4(id, timeout=0) may turn h into before it answers t: the socket is read,
\* one message at a time, only when the chain does not answer t already.
Polled(t, id) ==
  IF Complete(t, h.chain[id]) \/ InSocket(h) = {}
  THEN {h}
  ELSE {ReadOne(h, i) : i \in InSocket(h)}

\* g after a cancel request for id has been answered: all that was in the socket before the
\* answer is in the chains now.  The server stops the request, or it knows better.
Drained(g) ==
  [g EXCEPT !.next = g.next + 1, !.wire = NoMsgs,
            !.chain = [i \in Ids |-> g.chain[i] \o g.wire[i]]]

Unfinished(g, id) == g.asked[id] # NoOp /\ g.sent[id] < Len(Reply[g.asked[id]])

Stopped(g, id) ==
  [g EXCEPT !.sent = [g.sent EXCEPT ![id] = Len(Reply[g.asked[id]])],
            !.chain = [g.chain EXCEPT ![id] = Append(@, [op |-> g.asked[id], n |-> 0])]]

CancelAnswered(g, id) ==
  {Drained(g)} \cup IF Unfinished(g, id) THEN {Stopped(Drained(g), id)} ELSE {}

(***************************************************************************)
(* The event loop's readers.                                               *)
(***************************************************************************)
\* Mutant: a reader that is there already is kept.
AddReaderKeeping(t, f, rs, ws) ==
  /\ reader' = IF rs[f] = NoOp THEN [rs EXCEPT ![f] = t] ELSE rs
  /\ watched' = ws \cup {f}

\* loop.add_reader: the reader already registered for the number is replaced, and then the
\* selector sees nothing to tell the kernel.
AddReader(t, f, rs, ws) ==
  /\ reader' = [rs EXCEPT ![f] = t]
  /\ watched' = IF rs[f] = NoOp THEN ws \cup {f} ELSE ws

\* loop.remove_reader: by number, whoever registered it.
RemoveReader(f) ==
  /\ reader' = [reader EXCEPT ![f] = NoOp]
  /\ watched' = watched \ {f}

(***************************************************************************)
(* Waiting for a response: one turn of _poll's loop up to _wait_for.       *)
(***************************************************************************)
NoFuture == [st |-> "none", val |-> <<>>]
Pending == [st |-> "pending", val |-> <<>>]
Settle(t, st, val) == fut' = [fut EXCEPT ![t] = [st |-> st, val |-> val]]

StartPolling(t, f, rs, ws) ==
  /\ pc' = [pc EXCEPT ![t] = "waiting"]
  /\ fut' = [fut EXCEPT ![t] = Pending]
  /\ fd' = [fd EXCEPT ![t] = f]
  /\ AddReader(t, f, rs, ws)

\* The captured object has its `_l` still: otherwise each call on it raises AttributeError.
Usable(o, g) == g.st # "gone" /\ o = g.obj

(***************************************************************************)
(* One attempt of _retry: func(...) on handle g, captured as object o.     *)
(***************************************************************************)
Accepted(t, g, o, rs, ws) ==
  /\ Kind[t] # "unbind" /\ Usable(o, g) /\ g.next \in Ids
  /\ h' = Requested(g, t)
  /\ msgid' = [msgid EXCEPT ![t] = g.next]
  /\ born' = [born EXCEPT ![t] = g.epoch]
  /\ StartPolling(t, g.fd, rs, ws)
  /\ UNCHANGED attempts

\* unbind_ext closes the socket and deletes `_l`; a second one is forgiven.
Unbound(t, g, o, rs, ws) ==
  /\ Kind[t] = "unbind"
  /\ pc' = [pc EXCEPT ![t] = "done"]
  /\ h' = IF Usable(o, g) THEN [g EXCEPT !.st = "gone"] ELSE g
  /\ reader' = rs
  /\ watched' = IF Usable(o, g) THEN ws \ {g.fd} ELSE ws
  /\ UNCHANGED <<attempts, msgid, born, fut, fd>>

\* Mutant: `while attempts >= 0`.
LastAttemptLate(t) == attempts[t] = 0

LastAttempt(t) == attempts[t] = 1

\* ServerDown: sleep and try again, or give up.
ServerDown(t, g, rs, ws) ==
  /\ attempts' = [attempts EXCEPT ![t] = @ - 1]
  /\ pc' = [pc EXCEPT ![t] = IF LastAttempt(t) THEN "failed" ELSE "sleeping"]
  /\ h' = g /\ reader' = rs /\ watched' = ws
  /\ UNCHANGED <<msgid, born, fut, fd>>

Refused(t, g, o, rs, ws) ==
  /\ Kind[t] # "unbind" /\ Usable(o, g) /\ g.st = "lost"
  /\ ServerDown(t, g, rs, ws)

\* AttributeError is not retried.
NoHandle(t, g, o, rs, ws) ==
  /\ Kind[t] # "unbind" /\ ~Usable(o, g)
  /\ pc' = [pc EXCEPT ![t] = "failed"]
  /\ h' = g /\ reader' = rs /\ watched' = ws
  /\ UNCHANGED <<attempts, msgid, born, fut, fd>>

Attempt(t, g, o, rs, ws) ==
  \/ Accepted(t, g, o, rs, ws)
  \/ Unbound(t, g, o, rs, ws)
  \/ Refused(t, g, o, rs, ws)
  \/ NoHandle(t, g, o, rs, ws)

Ended(t) == pc[t] \in {"done", "failed", "cancelled", "closed"}

(***************************************************************************)
(* Actions of the operations.                                              *)
(***************************************************************************)
\* The program calls the operation.
Call(t) ==
  /\ pc[t] = "new"
  /\ Parallel \/ \A u \in Ops \ {t} : pc[u] = "new" \/ Ended(u)
  /\ unique' \in {unique, unique \cup ({t} \cap Searches)}
  /\ obj' = [obj EXCEPT ![t] = h.obj]
  /\ Attempt(t, h, h.obj, reader, watched)
  /\ UNCHANGED <<got, envVars>>

\* reconnect() first removes the reader of the descriptor the connection has, if any.
ReadersAtReconnect == IF h.st = "gone" THEN reader ELSE [reader EXCEPT ![h.fd] = NoOp]

\* _retry wakes up, reconnects the connection whatever its state is by now, and tries again.
Retry(t) ==
  /\ pc[t] = "sleeping"
  /\ \/ /\ reachable
        /\ \E f \in FDs :
             Attempt(t, Reopened(h, f), obj[t], ReadersAtReconnect, watched \ {h.fd})
     \/ /\ ~reachable
        /\ ServerDown(t, [h EXCEPT !.st = "gone"], ReadersAtReconnect, watched \ {h.fd})
  /\ UNCHANGED <<unique, obj, got, envVars>>

\* Mutant: _ready leaves get_result's default ResponseType.Any.
AskedAny(t) ==
  IF \E i \in Ids : h.chain[i] \o h.wire[i] # <<>>
  THEN CHOOSE i \in Ids : h.chain[i] \o h.wire[i] # <<>> ELSE msgid[t]

\* The message id _ready asks libldap for.
Asked(t) == msgid[t]

\* The loop calls _ready for the reader registered at the handle's descriptor.
Ready(t) ==
  /\ Readable(h) /\ reader[h.fd] = t /\ h.fd \in watched
  /\ \E g \in Polled(t, Asked(t)) :
       LET id == Asked(t)
           c == g.chain[id]
           alive == fut[t].st = "pending"  \* else InvalidStateError, before _remove_reader
       IN \/ /\ Complete(t, c)
             /\ h' = [g EXCEPT !.chain = [g.chain EXCEPT ![id] = Left(t, c)]]
             /\ IF alive
                THEN /\ IF Type(Taken(t, c)[Len(Taken(t, c))]) = "cancelled"
                        THEN Settle(t, "error", <<>>)
                        ELSE Settle(t, "result", Taken(t, c))
                     /\ RemoveReader(h.fd)
                ELSE UNCHANGED <<fut, loopVars>>
          \/ /\ ~Complete(t, c) /\ InSocket(h) # {}
             /\ h' = g
             /\ UNCHANGED <<fut, loopVars>>
          \/ /\ ~Complete(t, c) /\ InSocket(h) = {}  \* end of file
             /\ alive
             /\ Settle(t, "error", <<>>)
             /\ RemoveReader(h.fd)
             /\ UNCHANGED h
  /\ UNCHANGED <<pc, unique, attempts, msgid, born, obj, fd, got, envVars>>

\* unique=True raises NotUnique over a second search result.
TooMany(t, r) ==
  t \in unique /\ Cardinality({k \in 1..Len(r) : Type(r[k]) # "result"}) > 1

\* search and search_iter make a Result of every item of a response before they hand one out,
\* and of a reference they cannot: Attributes(its list of URLs) raises ValueError.
Unreadable(r) == \E k \in 1..Len(r) : Type(r[k]) = "reference"

\* The awaiting task goes on with a response: _poll yields it, _execute returns it, search_iter
\* yields its data, of which the final result of a search has none.
Resume(t) ==
  /\ pc[t] = "waiting" /\ fut[t].st = "result"
  /\ IF Unreadable(fut[t].val)
     THEN /\ pc' = [pc EXCEPT ![t] = "failed"]
          /\ UNCHANGED got
     ELSE /\ got' = [got EXCEPT ![t] = @ \o fut[t].val]
          /\ pc' = [pc EXCEPT ![t] =
               IF TooMany(t, got'[t]) THEN "failed"
               ELSE IF Kind[t] = "iterate" /\ Type(fut[t].val[1]) # "result" THEN "yielded"
               ELSE "done"]
  /\ fut' = [fut EXCEPT ![t] = NoFuture]
  /\ UNCHANGED <<unique, attempts, msgid, born, obj, fd, h, loopVars, envVars>>

\* Mutant: _execute runs the whole operation again after a failed wait.
RaiseRetrying(t) ==
  /\ pc[t] = "waiting" /\ fut[t].st \in {"error", "cancelled"}
  /\ pc' = [pc EXCEPT ![t] = IF attempts[t] > 1 THEN "sleeping" ELSE "failed"]
  /\ attempts' = [attempts EXCEPT ![t] = @ - 1]
  /\ fut' = [fut EXCEPT ![t] = NoFuture]
  /\ RemoveReader(fd[t])
  /\ UNCHANGED <<unique, msgid, born, obj, fd, got, h, envVars>>

\* Mutant: a wait that timed out or failed is begun again.
RaiseContinuing(t) ==
  /\ pc[t] = "waiting" /\ fut[t].st \in {"error", "cancelled"} /\ h.st # "gone"
  /\ StartPolling(t, h.fd, reader, watched)
  /\ UNCHANGED <<unique, attempts, msgid, born, obj, got, h, envVars>>

\* The awaiting task goes on with an exception, TimeoutError included.
Raise(t) ==
  /\ pc[t] = "waiting" /\ fut[t].st \in {"error", "cancelled"}
  /\ pc' = [pc EXCEPT ![t] = "failed"]
  /\ fut' = [fut EXCEPT ![t] = NoFuture]
  /\ RemoveReader(fd[t])
  /\ UNCHANGED <<unique, attempts, msgid, born, obj, fd, got, h, envVars>>

\* Mutant: wait_for shields the future of an iteration.
TimerFiresOnce(t) ==
  /\ Timed /\ pc[t] = "waiting" /\ fut[t].st \in {"pending", "result"} /\ Kind[t] = "execute"
  /\ Settle(t, "cancelled", <<>>)
  /\ UNCHANGED <<pc, unique, attempts, msgid, born, obj, fd, got, h, loopVars, envVars>>

\* wait_for's timer fires and cancels the future; a response that has come, but that the task
\* has not resumed with, may be dropped too (Python 3.12 and later).
TimerFires(t) ==
  /\ Timed /\ pc[t] = "waiting" /\ fut[t].st \in {"pending", "result"}
  /\ Settle(t, "cancelled", <<>>)
  /\ UNCHANGED <<pc, unique, attempts, msgid, born, obj, fd, got, h, loopVars, envVars>>

\* The task is cancelled: CancelledError is no Exception, so _poll leaves the reader alone.
CancelTask(t) ==
  /\ Cancels /\ pc[t] \in {"waiting", "sleeping"}
  /\ pc' = [pc EXCEPT ![t] = "cancelled"]
  /\ IF pc[t] = "waiting" THEN Settle(t, "cancelled", <<>>) ELSE UNCHANGED fut
  /\ UNCHANGED <<unique, attempts, msgid, born, obj, fd, got, h, loopVars, envVars>>

\* Mutant: the loop ends with the first response.
GoesOnNever(m) == FALSE

\* Whether _poll's loop goes on after response m; of what search_iter yields, after each.
GoesOn(m) == Type(m) = "entry"

\* The consumer of search_iter asks for more.
Anext(t) ==
  /\ pc[t] = "yielded"
  /\ IF ~GoesOn(got[t][Len(got[t])])
     THEN /\ pc' = [pc EXCEPT ![t] = "done"]
          /\ UNCHANGED <<fut, fd, loopVars>>
     ELSE IF Usable(obj[t], h)
     THEN StartPolling(t, h.fd, reader, watched)
     ELSE /\ pc' = [pc EXCEPT ![t] = "failed"]
          /\ UNCHANGED <<fut, fd, loopVars>>
  /\ UNCHANGED <<unique, attempts, msgid, born, obj, got, h, envVars>>

\* The consumer closes search_iter: it cancels the request through the synchronous connection,
\* which shares the handle, and whose reconnect() removes no reader.
Aclose(t) ==
  /\ pc[t] = "yielded"
  /\ pc' = [pc EXCEPT ![t] = "closed"]
  /\ \/ h.st = "up" /\ h.next \in Ids
        /\ h' \in CancelAnswered(h, msgid[t]) /\ UNCHANGED watched
     \/ h.st = "lost" /\ reachable /\ ReconnectId \in Ids
        /\ \E f \in FDs : h' \in CancelAnswered(Reopened(h, f), msgid[t])
        /\ watched' = watched \ {h.fd}
     \/ h.st = "lost" /\ ~reachable
        /\ h' = [h EXCEPT !.st = "gone"] /\ watched' = watched \ {h.fd}
     \/ h.st = "gone" /\ UNCHANGED <<h, watched>>
  /\ UNCHANGED <<unique, attempts, msgid, born, obj, fd, fut, got, reader, envVars>>

(***************************************************************************)
(* The program's connection context and the server.                        *)
(***************************************************************************)
\* After unbind(), or a reconnect() that failed: disconnect(), which finds no descriptor to
\* remove a reader from, and connect().
Connect ==
  /\ h.st = "gone" /\ connects < MaxConnects
  /\ connects' = connects + 1
  /\ \E f \in FDs : h' = Handle(f, FirstId, h.epoch + 1, h.obj + 1)
  /\ UNCHANGED <<opVars, loopVars, reachable, losses>>

Answered(g, i) ==
  [g EXCEPT !.sent = [g.sent EXCEPT ![i] = @ + 1],
            !.wire = [g.wire EXCEPT ![i] =
                        Append(@, [op |-> g.asked[i], n |-> g.sent[i] + 1])]]

\* The server sends the next response to the request with id i.
ServerSends(i) ==
  /\ h.st = "up" /\ Unfinished(h, i)
  /\ h' = Answered(h, i)
  /\ UNCHANGED <<opVars, loopVars, envVars>>

\* The connection breaks; what is in the socket may be lost, and the server may be away.
ConnectionLost ==
  /\ h.st = "up" /\ losses < MaxLosses
  /\ losses' = losses + 1
  /\ h' \in {[h EXCEPT !.st = "lost"], [h EXCEPT !.st = "lost", !.wire = NoMsgs]}
  /\ reachable' \in BOOLEAN
  /\ UNCHANGED <<opVars, loopVars, connects>>

ServerReturns ==
  /\ ~reachable /\ reachable' = TRUE
  /\ UNCHANGED <<opVars, h, loopVars, losses, connects>>

Init ==
  /\ pc = [t \in Ops |-> "new"]
  /\ attempts = [t \in Ops |-> MaxAttempts]
  /\ msgid = [t \in Ops |-> NoId]
  /\ born = [t \in Ops |-> 0]
  /\ unique = {}
  /\ obj = [t \in Ops |-> 0]
  /\ fut = [t \in Ops |-> NoFuture]
  /\ got = [t \in Ops |-> <<>>]
  /\ LET f == CHOOSE f \in FDs : TRUE  \* any: nothing tells the numbers apart
     IN h = Handle(f, FirstId, 1, 1) /\ fd = [t \in Ops |-> f]
  /\ reader = [f \in FDs |-> NoOp]
  /\ watched = {}
  /\ reachable = TRUE /\ losses = 0 /\ connects = 0

Next ==
  \/ \E t \in Ops : \/ Call(t) \/ Retry(t) \/ Ready(t) \/ Resume(t) \/ Raise(t)
                    \/ TimerFires(t) \/ CancelTask(t) \/ Anext(t) \/ Aclose(t)
  \/ \E i \in Ids : ServerSends(i)
  \/ Connect \/ ConnectionLost \/ ServerReturns

Spec == Init /\ [][Next]_vars

\* The loop runs what is ready, timers go off, and a server that is there answers.  Nobody
\* forces the program to call, to consume, to close or to cancel anything.
Fairness ==
  /\ \A t \in Ops : /\ WF_vars(Ready(t)) /\ WF_vars(Resume(t)) /\ WF_vars(Raise(t))
                    /\ WF_vars(Retry(t)) /\ WF_vars(TimerFires(t))
  /\ \A i \in Ids : WF_vars(ServerSends(i))

FairSpec == Spec /\ Fairness

(***************************************************************************)
(* What must hold.                                                         *)
(***************************************************************************)
PCs == {"new", "sleeping", "waiting", "yielded", "done", "failed", "cancelled", "closed"}
Futures == [st: {"none", "pending", "result", "error", "cancelled"}, val: Seq(Msg)]

TypeOK ==
  /\ pc \in [Ops -> PCs]
  /\ unique \subseteq Ops
  /\ attempts \in [Ops -> 0..MaxAttempts]
  /\ msgid \in [Ops -> Ids \cup {NoId}]
  /\ born \in [Ops -> Nat] /\ obj \in [Ops -> Nat]
  /\ fd \in [Ops -> FDs]
  /\ fut \in [Ops -> Futures]
  /\ got \in [Ops -> Seq(Msg)]
  /\ h \in Handles
  /\ reader \in [FDs -> Ops \cup {NoOp}]
  /\ watched \subseteq FDs
  /\ reachable \in BOOLEAN /\ losses \in Nat /\ connects \in Nat

\* As long as the handle that carried its request is the connection's handle, an operation is
\* only ever given responses to its own request, whatever the other tasks do to the shared
\* response chains, readers and futures.
OwnAnswers ==
  \A t \in Ops : born[t] = h.epoch =>
    /\ \A k \in 1..Len(fut[t].val) : fut[t].val[k].op = t
    /\ \A k \in 1..Len(got[t]) : got[t][k].op = t

\* No operation that began on an earlier handle holds t's message id.
Undisturbed(t) ==
  /\ born[t] = h.epoch
  /\ \A o \in Ops : msgid[o] = msgid[t] => born[o] = h.epoch

\* Then what an operation has handed out is exactly a prefix of what the server sent for it: no
\* response is skipped, repeated or overtaken by another.
InOrder ==
  \A t \in Ops : Undisturbed(t) => \A k \in 1..Len(got[t]) : got[t][k].n = k

\* And a response sent is in the socket, in libldap's chain, in the future or with the caller:
\* polls for other operations put aside what they read and lose none of it.
NothingLost ==
  \A t \in Ops :
    /\ Undisturbed(t) /\ h.st = "up"
    /\ pc[t] \in {"waiting", "yielded"} /\ fut[t].st # "cancelled"
    => Len(got[t]) + Len(fut[t].val) + Len(h.chain[msgid[t]]) + Len(h.wire[msgid[t]])
         = h.sent[msgid[t]]

\* No operation is ever given another operation's response.
NoCrossTalk ==
  \A t \in Ops : \A k \in 1..Len(got[t]) : got[t][k].op = t

\* Every await in _poll comes to an end: with a response, or with an exception.
EveryAwaitEnds ==
  \A t \in Ops : pc[t] = "waiting" ~> pc[t] # "waiting"

\* A request that got a message id is never made again: _retry repeats only what failed.
RequestedOnce ==
  [][\A t \in Ops : msgid[t] # NoId => msgid'[t] = msgid[t] /\ born'[t] = born[t]]_vars

\* The kernel watches the descriptor for an operation that awaits its response there.
WaiterIsWatched ==
  \A t \in Ops :
    pc[t] = "waiting" /\ fut[t].st = "pending" /\ h.st # "gone" /\ reader[h.fd] = t
    => h.fd \in watched

\* What a caller sees of an operation.
Phase(t) == IF pc[t] = "new" THEN "new"
            ELSE IF pc[t] \in {"sleeping", "waiting", "yielded"} THEN "running"
            ELSE IF pc[t] = "done" THEN "done"
            ELSE "broken"

Contract == INSTANCE OperationContract WITH
  Length <- [t \in Ops |-> Len(Reply[t])],
  phase <- [t \in Ops |-> Phase(t)],
  handed <- got

\* The machinery keeps the promise OperationContract makes to the callers: as long as they do not
\* overlap operations, each is given its own responses in order, and none is missing when it
\* returns, through lost connections, retries, cancellations and iterations closed half-way.
ContractSpec == Contract!Spec
=============================================================================
