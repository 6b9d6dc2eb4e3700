------------------------------ MODULE Directory -----------------------------
(***************************************************************************)
(* The modifying operations of a freeiam.ldap Connection, comparisons and  *)
(* the transaction() context manager, on a directory that another client   *)
(* changes too.  One task calls one operation at a time; an operation that *)
(* takes several requests is overtaken between them, and every request may *)
(* be refused, answered too late, or lost with the connection.             *)
(***************************************************************************)
EXTENDS Dn
LOCAL INSTANCE SequencesExt
LOCAL INSTANCE FiniteSetsExt

CONSTANTS
  Suffix,         \* the name of the directory's top entry
  Names,          \* the names below it that the clients use
  Rdns,           \* the RDNs that they use
  Initially,      \* the names of the entries at the start
  Changes,        \* modification lists
  NoTxn,          \* no transaction at the server
  MaxCalls,       \* bound: calls of the program
  Light,          \* bound: the operations of which it calls more than one
  MaxOthers       \* bound: changes by the other client

ASSUME ConstantsAssumption ==
  /\ Suffix # <<>> /\ NoTxn # <<>> /\ Initially \subseteq Names /\ MaxCalls \in Nat /\ MaxOthers \in Nat
  /\ \A d \in Names \cup {Suffix} : d \in Seq({d[i] : i \in DOMAIN d})

VARIABLES
  tree,           \* the server's entries: the attribute values of each name
  pending,        \* the updates queued in the session's transaction, or NoTxn
  link,           \* the connection: "up", "lost", or "gone" when _l is deleted
  ctl,            \* who has the transaction's control as ServerControls, see SetOption
  block,          \* the with-block of transaction(): "none", "open", or "plain" without set_controls
  call,           \* the operation that is between two requests
  answer,         \* how the last call ended
  calls, others,  \* the bounds' counters
  promised,       \* history: the updates that the block has seen succeed in the transaction
  stray,          \* history: an update meant for the transaction was made outside it
  undisturbed     \* history: nothing but the call has happened to tree and session

server == <<tree, pending>>
client == <<link, ctl>>
bounds == <<calls, others>>
record == <<promised, stray>>
vars == <<server, client, block, call, answer, bounds, record, undisturbed>>

(***************************************************************************)
(* The server.  It knows an entry by the attributes and values of its      *)
(* name, whatever their order and spelling.                                *)
(***************************************************************************)
Pairs(rdn) == {<<rdn[i][1].w, rdn[i][2].w>> : i \in DOMAIN rdn}
Key(d) == [i \in DOMAIN d |-> Pairs(d[i])]
Top == Key(Suffix)
Up(k) == Tail(k)
Under(k, j) == Len(k) >= Len(j) /\ SubSeq(k, Len(k) - Len(j) + 1, Len(k)) = j
Children(k, t) == {j \in DOMAIN t : Len(j) = Len(k) + 1 /\ Under(j, k)}

Request(kind, k) == [kind |-> kind, key |-> k, new |-> k, drop |-> FALSE, ml |-> <<>>]
Renaming(k, new, drop) == [Request("rename", k) EXCEPT !.new = new, !.drop = drop]
Modifying(k, ml) == [Request("modify", k) EXCEPT !.ml = ml]
Comparing(k, pair) == [Request("compare", k) EXCEPT !.new = <<{pair}>>]
Reads == {"search", "compare", "refresh"}

Values(change) == {<<change.attr, change.vals[i].w>> : i \in DOMAIN change.vals}
OfAttr(attrs, a) == {p \in attrs : p[1] = a}

\* One change of a modification list; {} if it cannot be made.
Changed(attrs, change) ==
  CASE change.mod = "add" ->
         IF attrs \cap Values(change) # {} THEN {} ELSE attrs \cup Values(change)
    [] change.mod = "replace" -> (attrs \ OfAttr(attrs, change.attr)) \cup Values(change)
    [] change.mod = "delete" /\ change.vals # <<>> ->
         IF Values(change) \subseteq attrs THEN attrs \ Values(change) ELSE {}
    [] OTHER -> IF OfAttr(attrs, change.attr) # {} THEN attrs \ OfAttr(attrs, change.attr) ELSE {}

AfterChanges(attrs, ml) ==
  FoldLeft(LAMBDA a, c : IF a = {} THEN {} ELSE Changed(a, c), attrs, ml)

\* The result code of a request that the server processes now.
ResultOfAdd(q, t) ==
  IF q.key \in DOMAIN t THEN "alreadyExists"
  ELSE IF Up(q.key) \in DOMAIN t THEN "ok" ELSE "noSuchObject"

ResultOfModify(q, t) ==
  LET attrs == AfterChanges(t[q.key], q.ml)
  IN IF attrs = {} THEN "constraintViolation"
     ELSE IF q.key[1] \subseteq attrs THEN "ok" ELSE "notAllowedOnRDN"

ResultOfRename(q, t) ==
  IF q.new = q.key THEN "ok"
  ELSE IF q.new \in DOMAIN t THEN "alreadyExists"
  ELSE IF Up(q.new) \notin DOMAIN t THEN "noSuchObject"
  ELSE IF Under(q.new, q.key) THEN "unwillingToPerform" ELSE "ok"

Result(q, t) ==
  IF q.kind = "add" THEN ResultOfAdd(q, t)
  ELSE IF q.key \notin DOMAIN t THEN "noSuchObject"
  ELSE CASE q.kind = "delete" -> IF Children(q.key, t) = {} THEN "ok" ELSE "notAllowedOnNonleaf"
         [] q.kind = "modify" -> ResultOfModify(q, t)
         [] q.kind = "rename" -> ResultOfRename(q, t)
         [] q.kind = "compare" -> IF q.new[1] \subseteq t[q.key] THEN "true" ELSE "false"
         [] OTHER -> "ok"

\* The names and the attributes after a rename, which takes the entries below along.
Renamed(q, t) ==
  LET moved(k) == SubSeq(k, 1, Len(k) - Len(q.key)) \o q.new
      original(k) == IF Under(k, q.new) THEN SubSeq(k, 1, Len(k) - Len(q.new)) \o q.key ELSE k
      names == {IF Under(k, q.key) THEN moved(k) ELSE k : k \in DOMAIN t}
      kept == IF q.drop THEN t[q.key] \ q.key[1] ELSE t[q.key]
  IN [k \in names |-> IF k = q.new THEN kept \cup q.new[1] ELSE t[original(k)]]

Effect(q, t) ==
  IF Result(q, t) # "ok" THEN t
  ELSE CASE q.kind = "add" ->
              [k \in DOMAIN t \cup {q.key} |-> IF k = q.key THEN q.key[1] ELSE t[k]]
         [] q.kind = "delete" -> [k \in DOMAIN t \ {q.key} |-> t[k]]
         [] q.kind = "modify" -> [t EXCEPT ![q.key] = AfterChanges(@, q.ml)]
         [] q.kind = "rename" -> Renamed(q, t)
         [] OTHER -> t

\* A transaction's updates are made together, or not at all.
Made(t, queue) == FoldLeft(LAMBDA s, q : Effect(q, s), t, queue)
AllOk(t, queue) ==
  \A n \in DOMAIN queue : Result(queue[n], Made(t, SubSeq(queue, 1, n - 1))) = "ok"

(***************************************************************************)
(* A request: _execute, and what becomes of it.                            *)
(***************************************************************************)
\* How a request fails without a result code of the server that says so.
Failures == {"refused", "timeout", "serverDown", "failed"}

\* The option ServerControls is set in three places: the handle, which the next request asks
\* (now); Connection._options (own); and python-ldap's own list (py).  The two lists are for the
\* handles to come, and hold the value before a handle that is not there raises.

\* Mutant: Connection._options has what a handle has accepted.
SetOptionAccepted(handle, c, value) ==
  [now |-> IF handle = "gone" THEN c.now ELSE value,
   own |-> IF handle = "gone" THEN c.own ELSE value, py |-> value]

SetOption(handle, c, value) ==
  [now |-> IF handle = "gone" THEN c.now ELSE value, own |-> value, py |-> value]

\* A new handle: python-ldap sets what is in its list, then _restore_options() what is in its own,
\* which python-ldap takes for another call.
RestoreOptions(c) == SetOption("up", SetOption("up", c, c.py), c.own)

\* With the transaction's control on a new handle python-ldap's bind is refused, and it deletes
\* the handle.
Unusable(c) == link # "up" /\ c.py

\* The controls once the request has a handle, a new one if the connection was lost.
Reached(c) == IF link = "lost" /\ ~Unusable(c) THEN RestoreOptions(c) ELSE c

\* The request has `result`, and makes t and queue of tree and pending.
Exchange(c, result, t, queue, res) ==
  IF link = "gone" \/ Unusable(c)
  THEN res = "failed" /\ link' = "gone" /\ pending' = NoTxn /\ UNCHANGED tree
  ELSE \/ /\ res = result
          /\ link' = "up" /\ tree' = t /\ pending' = queue
       \/ /\ res = "refused"
          /\ link' = "up" /\ tree' = tree /\ pending' = pending
       \/ /\ res = "timeout" /\ link' = "up"
          /\ (tree' = tree /\ pending' = pending) \/ (tree' = t /\ pending' = queue)
       \/ /\ res = "serverDown"
          /\ link' = "lost" /\ tree' \in {tree, t} /\ pending' = NoTxn

\* Controls of a request: none, so that libldap takes those of the connection; some of its own,
\* in place of those; or the control of the transaction.
Via == {"default", "own", "txn"}
Inside(via) == via = "txn" \/ (via = "default" /\ Reached(ctl).now)

Answered(q, via) ==
  CASE ~Inside(via) -> Result(q, tree)
    [] Inside(via) /\ q.kind \in Reads -> "unavailableCriticalExtension"
    [] Inside(via) /\ q.kind \notin Reads /\ pending = NoTxn -> "txnInvalid"
    [] OTHER -> "ok"

Outcomes(q, via) == Failures \cup {Answered(q, via)}

Ask(q, via, res) ==
  LET queued == Inside(via) /\ Answered(q, via) = "ok"
  IN /\ Exchange(ctl, Answered(q, via), IF Inside(via) THEN tree ELSE Effect(q, tree),
                 IF queued THEN Append(pending, q) ELSE pending, res)
     /\ ctl' = Reached(ctl)
     /\ promised' = IF queued /\ res = "ok" THEN promised \cup {q} ELSE promised
     /\ stray' = (stray \/ (block = "open" /\ via = "default" /\ tree' # tree))

(***************************************************************************)
(* Operations of one request.                                              *)
(***************************************************************************)
Idle == [op |-> "idle"]
NoAnswer == [op |-> "none", res |-> "ok", dn |-> NoDn]
Begins(op) ==
  /\ call = Idle /\ calls < MaxCalls /\ (calls > 0 => op \in Light)
  /\ calls' = IF op \in Light THEN calls + 1 ELSE MaxCalls
  /\ undisturbed' = TRUE
Proceeds(c) == call' = c /\ answer' = NoAnswer
Ends(op, res, d) ==
  /\ call' = Idle
  /\ answer' = [op |-> op, res |-> IF res \in Failures THEN "failed" ELSE res,
                dn |-> IF res = "ok" THEN d ELSE NoDn]
Ended(op, res) == Ends(op, res, NoDn)

\* An operation of one request.
Single(op, q, via, d) ==
  /\ Begins(op)
  /\ \E res \in Outcomes(q, via) : Ask(q, via, res) /\ Ends(op, res, d)
  /\ UNCHANGED <<block, others>>

Add(d, via) == Single("add", Request("add", Key(d)), via, d)
Delete(d, via) == Single("delete", Request("delete", Key(d)), via, d)
Compare(d, ava) ==
  Single("compare", Comparing(Key(d), <<ava[1].w, ava[2].w>>), "default", d)

\* extended(), which raises a ProtocolError if the answer is not of the kind it expects.
Extended(op, q, d) ==
  /\ Begins(op)
  /\ \E res \in Outcomes(q, "default") :
       /\ Ask(q, "default", res)
       /\ Ends(op, res, d) \/ (res = "ok" /\ Ended(op, "protocolError"))
  /\ UNCHANGED <<block, others>>

RefreshTtl(d) == Extended("refreshTtl", Request("refresh", Key(d)), d)

\* An exception before anything is sent.
Raises(op, res) ==
  /\ Begins(op) /\ Ended(op, res)
  /\ UNCHANGED <<server, client, block, others, record>>

\* Mutant: the result carries the name that the caller gave.
RenameKeepsDn(op, d, new, drop, via) ==
  CASE new = InvalidDN -> Raises(op, "invalidDN")
    [] new # InvalidDN /\ Parent(new) = NoDn -> Raises(op, "invalidSyntax")
    [] OTHER -> Single(op, Renaming(Key(d), Key(new), drop), via, d)

\* rename(): the new parent of a name of one component is sent as 'None'.
Rename(op, d, new, drop, via) ==
  CASE new = InvalidDN -> Raises(op, "invalidDN")
    [] new # InvalidDN /\ Parent(new) = NoDn -> Raises(op, "invalidSyntax")
    [] OTHER -> Single(op, Renaming(Key(d), Key(new), drop), via, new)

Move(d, to, via) == Rename("move", d, Plus(<<d[1]>>, to), TRUE, via)
Modrdn(d, rdn, drop, via) == Rename("modrdn", d, Plus(<<rdn>>, Parent(d)), drop, via)

(***************************************************************************)
(* modify_ml(): the entry is renamed first if the list changes its name.   *)
(***************************************************************************)
\* Mutant: changes that delete values count, too.
NamingCareless(ml, attr) == {j \in DOMAIN ml : ml[j].attr = attr /\ ml[j].vals # <<>>}

\* The changes that set the naming attribute; the last one wins, with its first value.
Naming(ml, attr) ==
  {j \in DOMAIN ml : ml[j].attr = attr /\ ml[j].vals # <<>> /\ ml[j].mod # "delete"}

\* A naming attribute that occurs twice has one value in dn_vals, the last one.
NewRdn(rdn, ml) ==
  [i \in DOMAIN rdn |->
     LET sets == Naming(ml, rdn[i][1].w)
         same == {j \in DOMAIN rdn : rdn[j][1].w = rdn[i][1].w}
     IN <<rdn[i][1], IF sets = {} THEN rdn[Max(same)][2] ELSE ml[Max(sets)].vals[1]>>]

\* Mutant: the name is left to the server.
ChangedDnUnchanged(d, ml) == d

ComputeChangedDn(d, ml) ==
  IF Same(<<d[1]>>, <<NewRdn(d[1], ml)>>) THEN d ELSE Plus(<<NewRdn(d[1], ml)>>, Parent(d))

Modify(d, ml, via) ==
  LET new == ComputeChangedDn(d, ml)
  IN IF Same(d, new) THEN Single("modify", Modifying(Key(d), ml), via, d)
     ELSE /\ Begins("modify")
          /\ LET q == Renaming(Key(d), Key(new), TRUE)
             IN \E res \in Outcomes(q, "default") :
               /\ Ask(q, "default", res)
               /\ IF res = "ok"
                  THEN Proceeds([op |-> "modify", dn |-> new, ml |-> ml, via |-> via])
                  ELSE Ended("modify", res)
          /\ UNCHANGED <<block, others>>

ModifyRenamed ==
  /\ call.op = "modify"
  /\ LET q == Modifying(Key(call.dn), call.ml)
     IN \E res \in Outcomes(q, call.via) : Ask(q, call.via, res) /\ Ends("modify", res, call.dn)
  /\ UNCHANGED <<block, bounds, undisturbed>>

(***************************************************************************)
(* delete_recursive(): a stack of calls, each at its first delete, at the  *)
(* search for children, or at a loop over those that the search has found. *)
(***************************************************************************)
Frame(k, via) == [key |-> k, via |-> via, at |-> "try", todo |-> {}]
TopFrame == call.stack[1]
Goes(stack) == Proceeds([call EXCEPT !.stack = stack])
Returns == IF Len(call.stack) = 1 THEN Ended("recursive", "ok") ELSE Goes(Tail(call.stack))

DeleteRecursive(d, via) ==
  /\ Begins("recursive")
  /\ Proceeds([op |-> "recursive", key |-> Key(d), existed |-> Key(d) \in DOMAIN tree,
               stack |-> <<Frame(Key(d), via)>>])
  /\ UNCHANGED <<server, client, block, others, record>>

\* The first delete, and the last one.
RecursiveDelete ==
  /\ call.op = "recursive"
  /\ TopFrame.at = "try" \/ (TopFrame.at = "loop" /\ TopFrame.todo = {})
  /\ LET q == Request("delete", TopFrame.key) IN \E res \in Outcomes(q, TopFrame.via) :
       /\ Ask(q, TopFrame.via, res)
       /\ CASE res = "ok" -> Returns
            [] res = "notAllowedOnNonleaf" /\ TopFrame.at = "try" ->
                 Goes([call.stack EXCEPT ![1].at = "list"])
            [] OTHER -> Ended("recursive", res)
  /\ UNCHANGED <<block, bounds, undisturbed>>

\* Mutant: the search for children looks in the whole tree.
FoundAnywhere(k) == DOMAIN tree \ {k, Top}

Found(k) == Children(k, tree)

RecursiveSearch ==
  /\ call.op = "recursive" /\ TopFrame.at = "list"
  /\ LET q == Request("search", TopFrame.key) IN \E res \in Outcomes(q, "default") :
       /\ Ask(q, "default", res)
       /\ IF res = "ok"
          THEN Goes([call.stack EXCEPT ![1].at = "loop", ![1].todo = Found(TopFrame.key)])
          ELSE Ended("recursive", res)
  /\ UNCHANGED <<block, bounds, undisturbed>>

\* Mutant: children are deleted by delete().
RecursiveFlat ==
  /\ call.op = "recursive" /\ TopFrame.at = "loop"
  /\ \E k \in TopFrame.todo :
       Goes(<<[Frame(k, "default") EXCEPT !.at = "loop"]>> \o [call.stack EXCEPT ![1].todo = @ \ {k}])
  /\ UNCHANGED <<server, client, block, bounds, record, undisturbed>>

RecursiveDescend ==
  /\ call.op = "recursive" /\ TopFrame.at = "loop"
  /\ \E k \in TopFrame.todo :
       Goes(<<Frame(k, "default")>> \o [call.stack EXCEPT ![1].todo = @ \ {k}])
  /\ UNCHANGED <<server, client, block, bounds, record, undisturbed>>

(***************************************************************************)
(* compare_dn(): the components of dn, from the last one, with the entries *)
(* on the way down to entry.                                               *)
(***************************************************************************)
CompareDn(entry, d) ==
  /\ Begins("compareDn")
  /\ Proceeds([op |-> "compareDn", entry |-> entry, dn |-> d, i |-> 1, j |-> 1,
               existed |-> Key(entry) \in DOMAIN tree])
  /\ UNCHANGED <<server, client, block, others, record>>

\* Mutant: dn.rdns[i].
ComponentFromFront(d, i) == d[i]

\* dn.rdns[-i - 1]
Component(d, i) == d[Len(d) + 1 - i]

\* Mutant: the loop over the AVAs ends one too late.
ComparedPast(equal) ==
  IF ~equal THEN Ended("compareDn", "false")
  ELSE Proceeds(IF call.j <= Len(Component(call.dn, call.i)) THEN [call EXCEPT !.j = @ + 1]
                ELSE [call EXCEPT !.i = @ + 1, !.j = 1])

Compared(equal) ==
  IF ~equal THEN Ended("compareDn", "false")
  ELSE Proceeds(IF call.j < Len(Component(call.dn, call.i)) THEN [call EXCEPT !.j = @ + 1]
                ELSE [call EXCEPT !.i = @ + 1, !.j = 1])

CompareComponent ==
  /\ call.op = "compareDn" /\ call.i <= Len(call.entry) /\ call.i <= Len(call.dn)
  /\ LET ava == Component(call.dn, call.i)[call.j]
         parent == Walk(call.entry, <<>>)[call.i]
         q == Comparing(Key(parent), <<ava[1].w, ava[2].w>>)
     IN \E res \in Outcomes(q, "default") :
          /\ Ask(q, "default", res)
          /\ CASE res \in {"true", "false"} -> Compared(res = "true")
               [] res = "noSuchObject" /\ ava[1] = Attribute(Ending(call.entry, 1)) -> Compared(TRUE)
               [] OTHER -> Ended("compareDn", res)
  /\ UNCHANGED <<block, bounds, undisturbed>>

CompareDnEnds ==
  /\ call.op = "compareDn"
  /\ \/ call.i > Len(call.entry) /\ Ended("compareDn", "true")
     \/ call.i <= Len(call.entry) /\ call.i > Len(call.dn) /\ Ended("compareDn", "indexError")
  /\ UNCHANGED <<server, client, block, bounds, record, undisturbed>>

(***************************************************************************)
(* transaction().  Its extended operations are not part of it.             *)
(***************************************************************************)
Begin(set) ==
  /\ block = "none" /\ call = Idle /\ calls < MaxCalls
  /\ \E res \in Failures \cup {"ok", "busy"} :
       /\ IF pending = NoTxn THEN Exchange(ctl, "ok", tree, <<>>, res)
          ELSE Exchange(ctl, "busy", tree, pending, res)
       /\ Ended("begin", res)
       /\ IF res = "ok"
          THEN /\ block' = IF set THEN "open" ELSE "plain"
               /\ ctl' = IF set THEN SetOption(link', Reached(ctl), TRUE) ELSE Reached(ctl)
               /\ promised' = {} /\ stray' = FALSE
          ELSE ctl' = Reached(ctl) /\ UNCHANGED <<block, record>>
  /\ UNCHANGED <<bounds, undisturbed>>

\* set_option(ServerControls, []) comes first; if there is no handle it raises, and nothing is sent.
ResetControls == SetOption(link, ctl, FALSE)

LeavesBlock ==
  /\ block # "none" /\ call = Idle
  /\ block' = "none" /\ ctl' = Reached(ResetControls)
  /\ UNCHANGED <<call, bounds, record, undisturbed>>

\* The with-statement ends, with or without an exception.
Leaves(without, res) ==
  answer' = [op |-> IF without THEN "left" ELSE "raised", res |-> res, dn |-> NoDn]

\* The block raises.
Abort ==
  /\ LeavesBlock
  /\ \E res \in Failures \cup {"ok", "txnInvalid"} :
       /\ Exchange(ResetControls, IF pending = NoTxn THEN "txnInvalid" ELSE "ok", tree, NoTxn, res)
       /\ Leaves(FALSE, res)

\* What commit may be answered with.
CommitResults ==
  CASE pending = NoTxn -> {"txnInvalid"}
    [] pending # NoTxn /\ AllOk(tree, pending) -> {"ok", "operationsError"}
    [] OTHER -> {"constraintViolation", "operationsError"}

\* Mutant: except errors.LdapError.
SwallowsAll(res) == res \in {"operationsError", "txnInvalid", "constraintViolation"}

\* The exception that is logged, and no more.
Swallowed(res) == res = "operationsError"

\* The block ends without an exception.
Commit ==
  /\ LeavesBlock
  /\ \E result \in CommitResults : \E res \in Failures \cup {result} :
       /\ Exchange(ResetControls, result,
                   IF result = "ok" THEN Made(tree, pending) ELSE tree, NoTxn, res)
       /\ Leaves(res = "ok" \/ Swallowed(res), res)

(***************************************************************************)
(* The rest of the world.                                                  *)
(***************************************************************************)
Other(q) ==
  /\ others < MaxOthers /\ others' = others + 1
  /\ Result(q, tree) = "ok" /\ tree' = Effect(q, tree)
  /\ undisturbed' = FALSE
  /\ UNCHANGED <<pending, client, block, call, answer, calls, record>>

ConnectionLost ==
  /\ others < MaxOthers /\ others' = others + 1
  /\ link = "up" /\ link' = "lost" /\ pending' = NoTxn
  /\ undisturbed' = FALSE
  /\ UNCHANGED <<tree, ctl, block, call, answer, calls, record>>

Reconnect ==
  /\ call = Idle /\ link # "up"
  /\ IF Unusable(ctl) THEN link' = "gone" /\ UNCHANGED ctl
     ELSE link' = "up" /\ ctl' = RestoreOptions(ctl)
  /\ pending' = NoTxn
  /\ UNCHANGED <<tree, block, call, answer, bounds, record, undisturbed>>

Spelled(d) == [d EXCEPT ![1] = [i \in DOMAIN d[1] |-> <<Caps(d[1][i][1]), Caps(d[1][i][2])>>]]
Given == Names \cup {Spelled(d) : d \in Names}

Init ==
  /\ tree = [k \in {Top} \cup {Key(d) : d \in Initially} |-> k[1]]
  /\ pending = NoTxn /\ link = "up" /\ block = "none"
  /\ ctl = [now |-> FALSE, own |-> FALSE, py |-> FALSE]
  /\ call = Idle /\ answer = NoAnswer
  /\ calls = 0 /\ others = 0 /\ promised = {} /\ stray = FALSE /\ undisturbed = TRUE

Starts(via) ==
  \/ \E d \in Names : Add(d, via) \/ Delete(d, via)
  \/ \E d \in Names \cup {Suffix} : DeleteRecursive(d, via)
  \/ \E d \in Given, ml \in Changes : Modify(d, ml, via)
  \/ \E d \in Names, new \in Names, drop \in BOOLEAN : Rename("rename", d, new, drop, via)
  \/ \E d \in Names, to \in Names \cup {Suffix, <<>>} : Move(d, to, via)
  \/ \E d \in Names \cup {Ending(Suffix, 1)}, rdn \in Rdns, drop \in BOOLEAN :
       Modrdn(d, rdn, drop, via)

Continues ==
  \/ ModifyRenamed
  \/ RecursiveDelete \/ RecursiveSearch \/ RecursiveDescend
  \/ CompareComponent \/ CompareDnEnds

Environment ==
  \/ \E d \in Names : Other(Request("add", Key(d))) \/ Other(Request("delete", Key(d)))
  \/ ConnectionLost

Next ==
  \/ \E via \in Via : /\ via = "own" => block = "open"
                      /\ via = "txn" => block = "plain"
                      /\ Starts(via)
  \/ \E entry \in Names, d \in Given \cup {Suffix} : CompareDn(entry, d)
  \/ (\E d \in Names, rdn \in Rdns : Compare(d, rdn[1])) \/ \E d \in Given : RefreshTtl(d)
  \/ (\E set \in BOOLEAN : Begin(set)) \/ Abort \/ Commit
  \/ Continues \/ Environment \/ Reconnect

Spec == Init /\ [][Next]_vars
-----------------------------------------------------------------------------
(***************************************************************************)
(* Properties.                                                             *)
(***************************************************************************)
\* The step ends a call of op.
Finishes(op) ==
  answer'.op = op /\ call' = Idle /\ (call # Idle \/ calls' # calls)

\* The entry's ancestor that lies i levels deep, if it exists, has what dn says there.
Holds(i) ==
  LET k == Key(Ending(call.entry, i))
  IN k \in DOMAIN tree => i <= Len(call.dn) /\ Pairs(Component(call.dn, i)) \subseteq tree[k]

\* Types; every entry has its parent and the values that its name says.
TypeOK ==
  /\ \A k \in DOMAIN tree \ {Top} : Up(k) \in DOMAIN tree /\ k[1] \subseteq tree[k]
  /\ link \in {"up", "lost", "gone"} /\ block \in {"none", "open", "plain"}
  /\ ctl \in [now : BOOLEAN, own : BOOLEAN, py : BOOLEAN] /\ stray \in BOOLEAN
  /\ link # "up" => pending = NoTxn
  /\ call.op = "compareDn" /\ call.i <= Len(call.dn) =>
       call.i \in 1 .. Len(call.entry) + 1 /\ call.j \in DOMAIN Component(call.dn, call.i)
  /\ calls \in 0 .. MaxCalls /\ others \in 0 .. MaxOthers /\ undisturbed \in BOOLEAN

\* The spelling of the values in a name is of no importance.
AnySpelling(d) == \A i \in DOMAIN d : \A p \in Pairs(d[i]) : p[1] \in CaseInsensitive

\* For names of entries: those that DN takes for equal are one entry's (291-333), and endswith(),
\* startswith(), get_parent() and walk() agree with where the server keeps the entries (200-259).
\* attributes and values are those of the entry's name, and rdn is all of it only if it is one AVA
\* (93-165).
NamesAgree ==
  calls = 0 =>
  \A d, e \in {n \in Given \cup {Suffix} : Key(n) \in DOMAIN tree} :
    /\ Same(d, e) => Key(d) = Key(e)
    /\ EndsWith(d, e) => Under(Key(d), Key(e))
    /\ Under(Key(d), Key(e)) /\ AnySpelling(e) => EndsWith(d, e)
    /\ AnySpelling(d) /\ AnySpelling(e) =>
         Cardinality(Unique({d, e})) = Cardinality({Key(d), Key(e)})
    /\ {<<Attributes(d)[i].w, ValuesOf(d)[i].w>> : i \in DOMAIN ValuesOf(d)} = Key(d)[1]
    /\ Key(Compose(<<<<<<Rdn(d)>>>>, From(d, 1)>>)) = Key(d) <=> Len(MultiRdn(d)) = 1
    /\ EndsWith(d, <<>>) /\ StartsWith(d, <<>>) /\ StartsWith(Compose(<<<<d[1]>>, e>>), <<d[1]>>)
    /\ GetParent(d, e) # NoDn => Under(Key(GetParent(d, e)), Key(e))
    /\ EndsWith(d, e) =>
         LET walked == Walk(d, e)
         IN /\ \A i \in DOMAIN walked : Key(walked[i]) \in DOMAIN tree
            /\ Same(walked[1], e) /\ walked[Len(walked)] = d
            /\ \A i \in 2 .. Len(walked) : Parent(walked[i]) = walked[i - 1]

\* The name in the result of add, rename, move, modrdn, refresh_ttl and of a modify that has to
\* rename the entry first (719-767, 800-835, 945-950) is that of an entry which then exists.
ResultNamesEntry ==
  [][\A op \in {"add", "modify", "rename", "move", "modrdn", "refreshTtl"} :
       Finishes(op) /\ answer'.res = "ok" /\ block = "none" => Key(answer'.dn) \in DOMAIN tree']_vars

\* A modification list that sets the naming attribute never breaks the name, because the entry
\* is renamed first (764-798), also if another client comes in between.
NamingKept ==
  [][Finishes("modify") => answer'.res # "notAllowedOnRDN"]_vars

\* delete_recursive() (843-850) removes nothing outside the subtree.
DeleteConfined ==
  [][call # Idle /\ call.op = "recursive" /\ others' = others =>
       \A k \in DOMAIN tree \ DOMAIN tree' : Under(k, call.key)]_vars

\* delete_recursive() of an entry with nobody else at work succeeds, however deep its subtree,
\* unless one of its requests fails.
DeleteComplete ==
  [][Finishes("recursive") /\ undisturbed /\ call.existed /\ block = "none" =>
       answer'.res \in {"failed", "ok"}]_vars

\* What compare_dn() (873-888) says holds, unless something else has happened: "equal" if all the
\* entries on the way to entry have the attribute values in the components of dn.
ComparedTruly ==
  [][Finishes("compareDn") /\ undisturbed /\ call.existed /\ block = "none" =>
       /\ answer'.res = "true" => \A i \in 1 .. Len(call.entry) : Holds(i)
       /\ answer'.res = "false" => \E i \in 1 .. Len(call.entry) : ~Holds(i)
       /\ Same(call.entry, call.dn) => answer'.res \in {"failed", "true"}]_vars

\* compare_dn() says of an entry and a name that they are equal only if the name is the entry's.
EqualMeansSameName ==
  [][Finishes("compareDn") /\ undisturbed /\ answer'.res = "true" =>
       Key(call.entry) = Key(call.dn)]_vars

\* A transaction() block (925-943), also one whose connection was lost and replaced meanwhile:
\* no update of it was made at once instead of in the transaction, unless the program gave it
\* controls of its own or did without set_controls.  If it ends without an exception, then the
\* server had all its updates in one transaction until then, and has made them, but for an
\* OperationsError.
TransactionWhole ==
  [][block # "none" /\ block' = "none" =>
       /\ ~stray
       /\ answer'.op = "left" =>
            /\ pending # NoTxn /\ promised \subseteq {pending[n] : n \in DOMAIN pending}
            /\ answer'.res # "operationsError" => tree' = Made(tree, pending)]_vars

\* A transaction() block that has seen updates succeed and ends without an exception is committed.
CommittedWhenLeft ==
  [][block # "none" /\ block' = "none" /\ answer'.op = "left" /\ promised # {} =>
       tree' = Made(tree, pending)]_vars

\* No operation after a block carries the control of its transaction (935, 939), on whatever
\* handle: neither the one there is, nor one for which the options are set again by python-ldap
\* or by _restore_options (185-187, 413-415).
NoStaleControl ==
  block = "none" => ~ctl.own /\ ~ctl.py /\ (link # "gone" => ~ctl.now)
=============================================================================
