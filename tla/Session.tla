------------------------------ MODULE Session ------------------------------
(***************************************************************************)
(* The life cycle of a freeiam.ldap Connection, and what it does to keep   *)
(* the identity, the options and the protection of a session when the      *)
(* server drops the connection: connect, disconnect, reconnect, start_tls, *)
(* bind, unbind, whoami, set_option, pickling, and _retry around them.     *)
(*                                                                         *)
(* Connection, the ReconnectLDAPObject of python-ldap that it drives and   *)
(* the synchronous twin that closes iterations remember a session each in  *)
(* its own way.  The program calls one operation at a time, as LDAP asks   *)
(* of one that binds.                                                      *)
(***************************************************************************)
EXTENDS Naturals

CONSTANTS
  Users,          \* the identities with credentials
  Anon,           \* the anonymous identity
  NoOne,          \* no recorded credentials
  Values,         \* values of an option
  Default,        \* the value that a new handle has
  Unset,          \* no recorded value
  MaxAttempts     \* max_connection_attempts

ASSUME ConstantsAssumption ==
  /\ Anon \notin Users /\ NoOne \notin Users
  /\ Default \notin Values /\ Unset \notin Values \cup {Default}
  /\ MaxAttempts \in Nat \ {0}

VARIABLES
  conn,        \* whether self._conn is not None
  ld,          \* the libldap handle and its session at the server
  py,          \* what the ReconnectLDAPObject remembers
  auth,        \* _last_auth_state
  opt,         \* what replaying _options sets
  tls,         \* _start_tls
  call,        \* the operation that sleeps in _retry
  accepted,    \* the users whose credentials the server accepts
  reachable,   \* whether the server accepts connections
  who,         \* history: the identities the program has to reckon with
  wanted,      \* history: the value set since connect()
  secured      \* history: start_tls(), or connect() with TLS, has ended normally

memory == <<auth, opt, tls>>
env == <<accepted, reachable>>
history == <<who, wanted, secured>>
vars == <<conn, ld, py, memory, call, env, history>>

Anybody == Users \cup {Anon}

(***************************************************************************)
(* python-ldap.  A handle is "fresh" until its first request opens a       *)
(* socket, "lost" when the peer is away, "gone" when `_l` is deleted.      *)
(***************************************************************************)
Fresh == [st |-> "fresh", user |-> Anon, tls |-> FALSE, opt |-> Default]
Gone == [Fresh EXCEPT !.st = "gone"]
NewPy == [bind |-> NoOne, tls |-> FALSE, opt |-> Default]

Opens(l) == l.st = "up" \/ (l.st = "fresh" /\ reachable)
UserOf(credentials) == IF credentials = NoOne THEN Anon ELSE credentials

\* ReconnectLDAPObject.reconnect(): options, TLS and the last synchronous bind, an anonymous one
\* if there was none.
PyReconnects == reachable /\ py.bind \in accepted \cup {NoOne}
PyReconnected == [st |-> "up", user |-> UserOf(py.bind), tls |-> py.tls, opt |-> py.opt]

\* The synchronous methods of python-ldap reconnect by themselves when the handle is of no use.
PyHandle ==
  CASE Opens(ld) -> [ld EXCEPT !.st = "up"]
    [] ~Opens(ld) /\ PyReconnects -> PyReconnected
    [] OTHER -> Gone

\* Whom the program has to reckon with then: python-ldap knows the synchronous binds only.
PyReckoned == IF Opens(ld) \/ ~PyReconnects \/ py.bind = auth THEN who ELSE Anybody

(***************************************************************************)
(* Connection.reconnect(): the new handle, python-ldap's memory and the    *)
(* exception, if any.                                                      *)
(***************************************************************************)
Replayed(value) == IF opt = Unset THEN value ELSE opt
LeavesOption == [py EXCEPT !.opt = Replayed(@)]
NewHandle == [PyReconnected EXCEPT !.opt = Replayed(@)]

\* Mutant: _restore_auth_state is missing.
ReconnectedAnonymous ==
  IF PyReconnects THEN [ld |-> NewHandle, py |-> LeavesOption, exc |-> "none"]
  ELSE [ld |-> Gone, py |-> py, exc |-> IF reachable THEN "invalid" ELSE "down"]

Reconnected ==
  CASE ~PyReconnects ->
         [ld |-> Gone, py |-> py, exc |-> IF reachable THEN "invalid" ELSE "down"]
    [] PyReconnects /\ auth = NoOne ->
         [ld |-> NewHandle, py |-> LeavesOption, exc |-> "none"]
    [] PyReconnects /\ auth \in accepted ->
         [ld |-> [NewHandle EXCEPT !.user = auth],
          py |-> [LeavesOption EXCEPT !.bind = auth], exc |-> "none"]
    [] OTHER ->
         [ld |-> [NewHandle EXCEPT !.user = Anon], py |-> LeavesOption, exc |-> "invalid"]

\* Without recorded credentials the session is that of python-ldap's last bind.
ReconnectReckoned ==
  CASE auth = NoOne /\ py.bind # NoOne -> Anybody
    [] auth # NoOne /\ Reconnected.exc = "invalid" -> who \cup {Anon}
    [] OTHER -> who

(***************************************************************************)
(* Operations in _retry: a bind, and the others, which leave the session   *)
(* as it is.  The server answers "ok" or "invalid"; "failed" leaves open   *)
(* what has become of the request.                                         *)
(***************************************************************************)
Idle == [op |-> "idle", user |-> NoOne, left |-> 0]
Use == [op |-> "use", user |-> NoOne, left |-> MaxAttempts]
BindAs(u) == [op |-> "bind", user |-> u, left |-> MaxAttempts]

Reckoned(c, res, known) ==
  CASE c.op = "bind" /\ res = "ok" -> {c.user}
    [] c.op = "bind" /\ res = "invalid" -> {Anon}
    [] c.op = "bind" /\ res = "failed" -> known \cup {c.user, Anon}
    [] OTHER -> known

Ends(c, res, known) == call' = Idle /\ who' = Reckoned(c, res, known)

\* The server executes the request on handle l; the caller may have given up waiting.
Executed(c, l, known) ==
  LET bound == IF c.user \in accepted THEN c.user ELSE Anon
      answer == IF c.op = "bind" /\ bound = Anon THEN "invalid" ELSE "ok"
  IN /\ Opens(l)
     /\ ld' = [l EXCEPT !.st = "up", !.user = IF c.op = "bind" THEN bound ELSE @]
     /\ \E res \in {answer, "failed"} : Ends(c, res, known)

\* Mutant: `while attempts >= 0`.
LastAttemptLate(c) == c.left = 0

LastAttempt(c) == c.left = 1

\* ServerDown: sleep, or give up.
Down(c, known) ==
  IF LastAttempt(c) THEN Ends(c, "failed", known)
  ELSE call' = [c EXCEPT !.left = @ - 1] /\ who' = known

\* func(...) in _retry.  A connection may break at any time; a request that it swallows is not
\* repeated, and a deleted handle is an AttributeError.
Attempt(c, l, known) ==
  \/ Executed(c, l, known)
  \/ /\ l.st # "gone"
     /\ ld' = IF l.st = "fresh" THEN l ELSE [l EXCEPT !.st = "lost"]
     /\ Down(c, known) \/ Ends(c, "failed", known)
  \/ l.st = "gone" /\ ld' = l /\ Ends(c, "failed", known)

\* An operation is called; bind records the credentials first.
Call(c) ==
  /\ conn /\ call = Idle
  /\ auth' = IF c.op = "bind" THEN c.user ELSE auth
  /\ Attempt(c, ld, who)
  /\ UNCHANGED <<conn, py, opt, tls, env, wanted, secured>>

\* _retry wakes up and reconnects.
Retry ==
  /\ call # Idle
  /\ py' = Reconnected.py
  /\ CASE Reconnected.exc = "none" -> Attempt(call, Reconnected.ld, ReconnectReckoned)
       [] Reconnected.exc = "down" -> ld' = Gone /\ Down(call, ReconnectReckoned)
       [] OTHER -> ld' = Reconnected.ld /\ Ends(call, "invalid", ReconnectReckoned)
  /\ UNCHANGED <<conn, memory, env, wanted, secured>>

(***************************************************************************)
(* The calls that take one step.                                           *)
(***************************************************************************)
Reconnect ==
  /\ conn /\ call = Idle
  /\ ld' = Reconnected.ld /\ py' = Reconnected.py
  /\ who' = ReconnectReckoned
  /\ UNCHANGED <<conn, memory, call, env, wanted, secured>>

Unbind ==
  /\ call = Idle
  /\ auth' = NoOne /\ ld' = Gone /\ who' = {Anon}
  /\ UNCHANGED <<conn, py, opt, tls, call, env, wanted, secured>>

\* whoami, or the cancel that the twin sends when an iteration is closed.
Whoami ==
  /\ conn /\ call = Idle
  /\ ld' = PyHandle /\ who' = PyReckoned
  /\ UNCHANGED <<conn, py, memory, call, env, wanted, secured>>

\* Recorded also without a connection, when it raises.
SetOption(v) ==
  /\ call = Idle
  /\ opt' = v
  /\ IF conn
     THEN /\ py' = [py EXCEPT !.opt = v] /\ wanted' = v
          /\ ld' = IF ld.st = "gone" THEN ld ELSE [ld EXCEPT !.opt = v]
     ELSE UNCHANGED <<ld, py, wanted>>
  /\ UNCHANGED <<conn, auth, tls, call, env, who, secured>>

\* start_tls_s on handle l: TLS is on, or the server refuses, or the connection breaks.
Handshake(l, p) ==
  \/ /\ l.st = "up" /\ ~l.tls
     /\ ld' = [l EXCEPT !.tls = TRUE] /\ py' = [p EXCEPT !.tls = TRUE] /\ secured' = TRUE
  \/ /\ ld' \in {l, Gone} \/ (l.st = "up" /\ ld' = [l EXCEPT !.st = "lost"])
     /\ py' = p /\ secured' = (secured /\ p.tls)

StartTLS ==
  /\ conn /\ call = Idle
  /\ tls' = TRUE
  /\ Handshake(PyHandle, py) /\ who' = PyReckoned
  /\ UNCHANGED <<conn, auth, opt, call, env, wanted>>

\* self.connected: there is a socket.
Connected == conn /\ ld.st \in {"up", "lost"}

\* Mutant: start_tls is left to the program.
OpenedInClear == ld' = Fresh /\ py' = NewPy /\ secured' = tls

\* The new handle of connect(), which start_tls uses at once.
Opened ==
  IF ~tls THEN ld' = Fresh /\ py' = NewPy /\ secured' = FALSE
  ELSE Handshake(IF reachable THEN [Fresh EXCEPT !.st = "up"] ELSE Gone, NewPy)

\* Credentials that are recorded from before are not used until the next reconnect().
Connect ==
  /\ ~Connected /\ call = Idle
  /\ conn' = TRUE
  /\ Opened
  /\ who' = {Anon, UserOf(auth)} /\ wanted' = Unset
  /\ UNCHANGED <<memory, call, env>>

Disconnect ==
  /\ call = Idle
  /\ conn' = FALSE /\ ld' = Gone /\ who' = {Anon} /\ wanted' = Unset
  /\ UNCHANGED <<py, memory, call, env, secured>>

\* Mutant: __setstate__ without _restore_options.
UnpickledPlain ==
  [st |-> IF tls \/ auth # NoOne THEN "up" ELSE "fresh",
   user |-> UserOf(auth), tls |-> tls, opt |-> Default]

\* The handle of a copy: TLS, options and credentials are restored, in this order.
Unpickled ==
  [st |-> IF tls \/ auth # NoOne THEN "up" ELSE "fresh",
   user |-> UserOf(auth), tls |-> tls, opt |-> Replayed(Default)]

\* The program goes on with a copy made by pickle.  Loading raises, and there is none, if TLS or
\* the bind fails, or if there are credentials to restore and no connection.
Pickle ==
  /\ call = Idle
  /\ IF Connected
     THEN /\ Unpickled.st = "up" => reachable
          /\ auth \in accepted \cup {NoOne}
          /\ ld' = Unpickled /\ secured' = tls
          /\ py' = [bind |-> auth, tls |-> tls, opt |-> Replayed(Default)]
          /\ UNCHANGED <<conn, who, wanted>>
     ELSE /\ auth = NoOne
          /\ conn' = FALSE /\ ld' = Gone /\ who' = {Anon} /\ wanted' = Unset
          /\ UNCHANGED <<py, secured>>
  /\ UNCHANGED <<memory, call, env>>

(***************************************************************************)
(* The server.                                                             *)
(***************************************************************************)
ConnectionLost ==
  /\ ld.st = "up" /\ ld' = [ld EXCEPT !.st = "lost"]
  /\ reachable' \in BOOLEAN
  /\ UNCHANGED <<conn, py, memory, call, accepted, history>>

ServerReturns ==
  /\ ~reachable /\ reachable' = TRUE
  /\ UNCHANGED <<conn, ld, py, memory, call, accepted, history>>

\* A password expires; sessions that exist go on.
Revoked(u) ==
  /\ u \in accepted /\ accepted' = accepted \ {u}
  /\ UNCHANGED <<conn, ld, py, memory, call, reachable, history>>

Init ==
  /\ conn = FALSE /\ ld = Gone /\ py = NewPy
  /\ auth = NoOne /\ opt = Unset /\ tls \in BOOLEAN
  /\ call = Idle
  /\ accepted = Users /\ reachable = TRUE
  /\ who = {Anon} /\ wanted = Unset /\ secured = FALSE

Next ==
  \/ Call(Use) \/ (\E u \in Users : Call(BindAs(u))) \/ Retry
  \/ Connect \/ Disconnect \/ Reconnect \/ Unbind
  \/ Whoami \/ (\E v \in Values : SetOption(v)) \/ StartTLS \/ Pickle
  \/ ConnectionLost \/ ServerReturns \/ (\E u \in Users : Revoked(u))

Spec == Init /\ [][Next]_vars

-----------------------------------------------------------------------------
(***************************************************************************)
(* Properties.                                                             *)
(***************************************************************************)
Settings == Values \cup {Default}

\* Types; in particular an operation that sleeps in _retry (1034-1051) has an attempt left.
TypeOK ==
  /\ conn \in BOOLEAN /\ tls \in BOOLEAN /\ reachable \in BOOLEAN /\ secured \in BOOLEAN
  /\ ld \in [st : {"fresh", "up", "lost", "gone"}, user : Anybody, tls : BOOLEAN, opt : Settings]
  /\ py \in [bind : Users \cup {NoOne}, tls : BOOLEAN, opt : Settings]
  /\ auth \in Users \cup {NoOne}
  /\ opt \in Values \cup {Unset} /\ wanted \in Values \cup {Unset}
  /\ call = Idle \/ call \in [op : {"use", "bind"}, user : Users \cup {NoOne}, left : 1 .. MaxAttempts]
  /\ accepted \subseteq Users /\ who \subseteq Anybody

\* The server never takes the program for an identity that it cannot account for: after a bind
\* the session is the bound user's, also when _retry, reconnect or pickling has replaced it
\* (413-420, 971-984, 1041), and if it is anonymous instead, an exception has said so.
IdentityKept == ld.st = "up" => ld.user \in who

\* Options set on a connection are in force on every handle that takes its place (413-415).
OptionsKept == ld.st = "up" /\ wanted # Unset => ld.opt = wanted

\* A connection whose start_tls(), or connect() with TLS, has succeeded never goes on in clear
\* text, whatever replaces its handle (329-330, 341-346, 971-984).
Protected == ld.st = "up" /\ secured => ld.tls

\* After unbind() (422-435), and until credentials are given again, the session is nobody's.
UnboundIsNobody == ld.st = "up" /\ auth = NoOne => ld.user = Anon
=============================================================================
