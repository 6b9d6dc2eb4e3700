--------------------------- MODULE Session_proofs ---------------------------
(***************************************************************************)
(* Proofs about Session: what a connection records is in force again after *)
(* everything that replaces its handle.                                    *)
(***************************************************************************)
EXTENDS Session, TLAPS

\* The sleeping operation belongs to a connection; a bind has recorded its credentials.
GoodCall ==
  /\ call # Idle => conn
  /\ call.op = "bind" => auth = call.user /\ auth # NoOne

\* The identities a session may have now, and those that recorded credentials may give it later:
\* while python-ldap's own memory of a bind is refused, none can come about.
Accounted ==
  /\ ld.st \in {"fresh", "up"} => ld.user \in who
  /\ auth = NoOne => Anon \in who
  /\ conn /\ call.op # "bind" /\ auth \in accepted =>
       auth \in who \/ (ld.st = "gone" /\ py.bind \notin accepted \cup {NoOne})

\* The option that was set is what both layers will set again.
OptionRecorded ==
  wanted # Unset => conn /\ opt = wanted /\ py.opt = wanted /\ (ld.st # "gone" => ld.opt = wanted)

\* python-ldap knows that the session is protected.
TLSRecorded ==
  secured => py.tls /\ (ld.st # "gone" => ld.tls)

Inv == TypeOK /\ GoodCall /\ Accounted /\ OptionRecorded /\ TLSRecorded

HandleType == [st : {"fresh", "up", "lost", "gone"}, user : Anybody, tls : BOOLEAN, opt : Settings]
PyType == [bind : Users \cup {NoOne}, tls : BOOLEAN, opt : Settings]
CallType == [op : {"use", "bind"}, user : Users \cup {NoOne}, left : 1 .. MaxAttempts]

(***************************************************************************)
(* The handles that take the place of the one in use.                      *)
(***************************************************************************)
LEMMA PyReconnectedGood ==
  ASSUME Inv, PyReconnects
  PROVE  /\ PyReconnected \in HandleType
         /\ PyReconnected.st = "up" /\ PyReconnected.user = UserOf(py.bind)
         /\ PyReconnected.tls = py.tls /\ PyReconnected.opt = py.opt
  BY DEF Inv, TypeOK, HandleType, PyReconnected, UserOf, Anybody

\* The handle that python-ldap has after a call is known to the one who uses it.
LEMMA PyHandleGood ==
  ASSUME Inv, conn, call = Idle
  PROVE  /\ PyHandle \in HandleType
         /\ PyReckoned \subseteq Anybody
         /\ PyHandle.st \in {"fresh", "up"} => PyHandle.user \in PyReckoned
         /\ auth = NoOne => Anon \in PyReckoned
         /\ auth \in accepted =>
              \/ auth \in PyReckoned
              \/ PyHandle.st = "gone" /\ py.bind \notin accepted \cup {NoOne}
         /\ wanted # Unset /\ PyHandle.st # "gone" => PyHandle.opt = wanted
         /\ secured /\ PyHandle.st # "gone" => PyHandle.tls
<1>1. CASE Opens(ld)
  BY <1>1 DEF Inv, TypeOK, Accounted, OptionRecorded, TLSRecorded, PyHandle, PyReckoned, Opens, HandleType, Idle
<1>2. CASE ~Opens(ld) /\ PyReconnects
  BY <1>2, PyReconnectedGood, ConstantsAssumption
     DEF Inv, TypeOK, Accounted, OptionRecorded, TLSRecorded, PyHandle, PyReckoned, PyReconnects, UserOf, Anybody, Idle
<1>3. CASE ~Opens(ld) /\ ~PyReconnects
  BY <1>3 DEF Inv, TypeOK, Accounted, OptionRecorded, TLSRecorded, PyHandle, PyReckoned, PyReconnects, Gone, Fresh, HandleType, Anybody, Settings, Idle
<1> QED
  BY <1>1, <1>2, <1>3

\* reconnect() gives a session that the program can account for, with the option and TLS.
LEMMA ReconnectedGood ==
  ASSUME Inv, conn
  PROVE  /\ Reconnected.ld \in HandleType /\ Reconnected.ld.st \in {"up", "gone"}
         /\ Reconnected.py \in PyType
         /\ Reconnected.exc = "none" => Reconnected.ld.st = "up"
         /\ ReconnectReckoned \subseteq Anybody
         /\ call.op # "bind" /\ Reconnected.ld.st = "up" => Reconnected.ld.user \in ReconnectReckoned
         /\ Reconnected.exc # "none" => Reconnected.ld.st = "gone" \/ Reconnected.ld.user = Anon
         /\ auth = NoOne => Anon \in ReconnectReckoned
         /\ call.op # "bind" /\ auth \in accepted =>
              \/ auth \in ReconnectReckoned
              \/ Reconnected.ld.st = "gone" /\ Reconnected.py.bind \notin accepted \cup {NoOne}
         /\ auth \in accepted /\ Reconnected.exc = "invalid" =>
              Reconnected.ld.st = "gone" /\ Reconnected.py.bind \notin accepted \cup {NoOne}
         /\ wanted # Unset =>
              Reconnected.py.opt = wanted /\ (Reconnected.ld.st = "up" => Reconnected.ld.opt = wanted)
         /\ secured => Reconnected.py.tls /\ (Reconnected.ld.st = "up" => Reconnected.ld.tls)
<1> DEFINE l == NewHandle
           p == LeavesOption
<1>1. /\ p \in PyType /\ p.bind = py.bind /\ p.tls = py.tls
      /\ p.opt = Replayed(py.opt) /\ Replayed(py.opt) \in Settings
      /\ wanted # Unset => Replayed(py.opt) = wanted
  BY DEF Inv, TypeOK, OptionRecorded, LeavesOption, Replayed, PyType, Settings
<1>2. ASSUME PyReconnects
      PROVE  /\ l \in HandleType /\ l.st = "up" /\ l.user = UserOf(py.bind)
             /\ l.tls = py.tls /\ l.opt = Replayed(py.opt)
  BY <1>1, <1>2, PyReconnectedGood DEF NewHandle, HandleType
<1> HIDE DEF l, p
<1>3. CASE ~PyReconnects
  <2>1. /\ Reconnected.ld = Gone /\ Reconnected.py = py
        /\ Reconnected.exc = IF reachable THEN "invalid" ELSE "down"
    BY <1>3 DEF Reconnected
  <2>2. Gone \in HandleType /\ Gone.st = "gone"
    BY DEF Gone, Fresh, HandleType, Anybody, Settings
  <2>3. ReconnectReckoned \subseteq Anybody /\ (who \subseteq ReconnectReckoned)
    BY DEF ReconnectReckoned, Inv, TypeOK, Anybody
  <2> QED
    BY <1>3, <2>1, <2>2, <2>3
       DEF Inv, TypeOK, Accounted, OptionRecorded, TLSRecorded, PyReconnects, PyType
<1>4. CASE PyReconnects /\ auth = NoOne
  BY <1>1, <1>2, <1>4, ConstantsAssumption DEF Inv, TypeOK, GoodCall, Accounted, OptionRecorded, TLSRecorded, Reconnected,
     ReconnectReckoned, PyReconnects, UserOf, Anybody, HandleType, PyType, Gone, Fresh, Settings, l, p
<1>5. CASE PyReconnects /\ auth # NoOne /\ auth \in accepted
  BY <1>1, <1>2, <1>5, ConstantsAssumption DEF Inv, TypeOK, GoodCall, Accounted, OptionRecorded, TLSRecorded, Reconnected,
     ReconnectReckoned, PyReconnects, UserOf, Anybody, HandleType, PyType, Gone, Fresh, Settings, l, p
<1>6. CASE PyReconnects /\ auth # NoOne /\ auth \notin accepted
  BY <1>1, <1>2, <1>6, ConstantsAssumption DEF Inv, TypeOK, GoodCall, Accounted, OptionRecorded, TLSRecorded, Reconnected,
     ReconnectReckoned, PyReconnects, UserOf, Anybody, HandleType, PyType, Gone, Fresh, Settings, l, p
<1> QED
  BY <1>3, <1>4, <1>5, <1>6

(***************************************************************************)
(* One attempt of _retry, on the handle in use or on a new one.            *)
(***************************************************************************)
LEMMA DownGood ==
  ASSUME NEW c \in CallType, c.op = "bind" => c.user \in Users, NEW known \in SUBSET Anybody, Down(c, known)
  PROVE  /\ call' \in CallType \cup {Idle} /\ who' \subseteq Anybody /\ known \subseteq who'
         /\ call' # Idle => call'.op = c.op /\ call'.user = c.user
         /\ call' # Idle \/ c.op # "bind" => who' = known
         /\ call' = Idle /\ c.op = "bind" => c.user \in who'
<1>1. Idle \notin CallType
  BY DEF Idle, CallType
<1>2. CASE Ends(c, "failed", known)
  BY <1>1, <1>2 DEF Ends, Reckoned, CallType, Anybody
<1>3. CASE ~LastAttempt(c)
  <2>1. call' = [c EXCEPT !.left = @ - 1] /\ who' = known
    BY <1>3 DEF Down
  <2>2. call' \in CallType /\ call'.op = c.op /\ call'.user = c.user
    BY <1>3, <2>1, ConstantsAssumption DEF CallType, LastAttempt
  <2> QED
    BY <1>1, <2>1, <2>2
<1> QED
  BY <1>2, <1>3 DEF Down

\* An attempt leaves the handle's user among those that are reckoned with.
LEMMA AttemptGood ==
  ASSUME NEW c \in CallType, c.op = "bind" => c.user \in Users,
         NEW l \in HandleType, NEW known \in SUBSET Anybody,
         l.st = "fresh" \/ (l.st = "up" /\ c.op # "bind") => l.user \in known,
         accepted \subseteq Users, Attempt(c, l, known)
  PROVE  /\ ld' \in HandleType /\ ld'.tls = l.tls /\ ld'.opt = l.opt
         /\ ld'.st = "gone" <=> l.st = "gone"
         /\ ld'.st \in {"fresh", "up"} => ld'.user \in who'
         /\ call' \in CallType \cup {Idle} /\ who' \subseteq Anybody
         /\ call' # Idle => call'.op = c.op /\ call'.user = c.user
         /\ call' # Idle \/ c.op # "bind" => who' = known
         /\ call' = Idle /\ c.op = "bind" /\ c.user \in accepted => c.user \in who'
<1>1. Idle \notin CallType /\ Idle.op = "idle"
  BY DEF Idle, CallType
<1>2. CASE Executed(c, l, known)
  <2> DEFINE bound == IF c.user \in accepted THEN c.user ELSE Anon
             answer == IF c.op = "bind" /\ bound = Anon THEN "invalid" ELSE "ok"
  <2>1. /\ Opens(l) /\ l.st \in {"fresh", "up"} /\ call' = Idle
        /\ ld' = [l EXCEPT !.st = "up", !.user = IF c.op = "bind" THEN bound ELSE @]
    BY <1>2 DEF Executed, Ends, Opens
  <2>2. PICK res \in {answer, "failed"} : who' = Reckoned(c, res, known)
    BY <1>2 DEF Executed, Ends
  <2>3. CASE c.op = "bind"
    BY <2>1, <2>2, <2>3, ConstantsAssumption DEF Reckoned, HandleType, Anybody
  <2>4. CASE c.op # "bind"
    BY <2>1, <2>2, <2>4, ConstantsAssumption DEF Reckoned, HandleType, Anybody
  <2> QED
    BY <2>3, <2>4
<1>3. CASE /\ l.st # "gone"
           /\ ld' = IF l.st = "fresh" THEN l ELSE [l EXCEPT !.st = "lost"]
           /\ Down(c, known) \/ Ends(c, "failed", known)
  <2>1. /\ ld' \in HandleType /\ ld'.tls = l.tls /\ ld'.opt = l.opt /\ ld'.st # "gone"
        /\ ld'.st \in {"fresh", "up"} => ld'.user \in known
    BY <1>3 DEF HandleType
  <2>2. CASE Ends(c, "failed", known)
    BY <1>1, <1>3, <2>1, <2>2 DEF Ends, Reckoned, CallType, Anybody
  <2>3. CASE Down(c, known)
    BY <1>3, <2>1, <2>3, DownGood
  <2> QED
    BY <1>3, <2>2, <2>3
<1>4. CASE l.st = "gone" /\ ld' = l /\ Ends(c, "failed", known)
  BY <1>1, <1>4 DEF Ends, Reckoned, CallType, HandleType, Anybody
<1> QED
  BY <1>2, <1>3, <1>4 DEF Attempt

(***************************************************************************)
(* The invariant is inductive: one step per action.                        *)
(***************************************************************************)
LEMMA InitInv == Init => Inv
<1> SUFFICES ASSUME Init
             PROVE  Inv
  OBVIOUS
<1>1. TypeOK
  BY DEF Init, TypeOK, Gone, Fresh, NewPy, Anybody, Settings
<1>2. GoodCall /\ Accounted
  BY ConstantsAssumption DEF Init, GoodCall, Accounted, Idle, Gone, Fresh
<1>3. OptionRecorded /\ TLSRecorded
  BY DEF Init, OptionRecorded, TLSRecorded
<1> QED
  BY <1>1, <1>2, <1>3 DEF Inv

\* The first attempt of a call.
LEMMA CallInv ==
  ASSUME Inv, NEW c \in {Use} \cup {BindAs(u) : u \in Users}, Call(c)
  PROVE  Inv'
<1>1. c \in CallType /\ (c.op = "bind" => c.user \in Users)
  BY ConstantsAssumption DEF CallType, Use, BindAs
<1>2. /\ conn /\ call = Idle /\ Attempt(c, ld, who)
      /\ auth' = IF c.op = "bind" THEN c.user ELSE auth
      /\ UNCHANGED <<conn, py, opt, tls, accepted, reachable, wanted, secured>>
  BY DEF Call, env
<1>3. ld \in HandleType /\ who \in SUBSET Anybody /\ accepted \subseteq Users
  BY DEF Inv, TypeOK, HandleType
<1>4. ld.st = "fresh" \/ (ld.st = "up" /\ c.op # "bind") => ld.user \in who
  BY DEF Inv, Accounted
<1> HIDE DEF Inv
<1>5. /\ ld' \in HandleType /\ ld'.tls = ld.tls /\ ld'.opt = ld.opt
      /\ ld'.st = "gone" <=> ld.st = "gone"
      /\ ld'.st \in {"fresh", "up"} => ld'.user \in who'
      /\ call' \in CallType \cup {Idle} /\ who' \subseteq Anybody
      /\ call' # Idle => call'.op = c.op /\ call'.user = c.user
      /\ call' # Idle \/ c.op # "bind" => who' = who
      /\ call' = Idle /\ c.op = "bind" /\ c.user \in accepted => c.user \in who'
  BY <1>1, <1>2, <1>3, <1>4, AttemptGood
<1>6. call.op = "idle" /\ (call' = Idle => call'.op = "idle")
  BY <1>2 DEF Idle
<1>7. TypeOK'
  BY <1>1, <1>2, <1>5 DEF Inv, TypeOK, HandleType, CallType
<1>8. GoodCall'
  BY <1>1, <1>2, <1>5, <1>6, ConstantsAssumption DEF GoodCall
<1>9. Accounted'
  BY <1>1, <1>2, <1>5, <1>6, ConstantsAssumption DEF Inv, Accounted
<1>10. OptionRecorded' /\ TLSRecorded'
  BY <1>2, <1>5 DEF Inv, OptionRecorded, TLSRecorded
<1> QED
  BY <1>7, <1>8, <1>9, <1>10 DEF Inv

\* The attempts after it, each on a handle that reconnect() made.
LEMMA RetryInv ==
  ASSUME Inv, Retry
  PROVE  Inv'
<1> DEFINE r == Reconnected
           known == ReconnectReckoned
<1>1. /\ call # Idle /\ call \in CallType /\ conn
      /\ call.op = "bind" => auth = call.user /\ auth \in Users
      /\ accepted \subseteq Users
  BY DEF Retry, Inv, TypeOK, GoodCall, CallType
<1>2. /\ py' = r.py
      /\ UNCHANGED <<conn, auth, opt, tls, accepted, reachable, wanted, secured>>
  BY DEF Retry, memory, env
<1>3. r.ld \in HandleType /\ r.ld.st \in {"up", "gone"} /\ known \in SUBSET Anybody
  BY <1>1, ReconnectedGood
<1>4. (r.exc = "none" /\ Attempt(call, r.ld, known))
      \/ (r.exc = "down" /\ ld' = Gone /\ Down(call, known))
      \/ (r.exc = "invalid" /\ ld' = r.ld /\ Ends(call, "invalid", known))
  BY DEF Retry, Reconnected
<1>5. /\ ld' \in HandleType
      /\ ld'.st = "gone" \/ (ld'.tls = r.ld.tls /\ ld'.opt = r.ld.opt)
      /\ ld'.st # "gone" => r.ld.st = "up"
      /\ ld'.st \in {"fresh", "up"} => ld'.user \in who'
      /\ call' \in CallType \cup {Idle} /\ who' \subseteq Anybody
      /\ call' # Idle => call'.op = call.op /\ call'.user = call.user
      /\ call.op # "bind" => who' = known
      /\ call.op # "bind" /\ r.ld.st = "gone" => ld'.st = "gone"
      /\ call' = Idle /\ call.op = "bind" /\ auth \in accepted =>
           auth \in who' \/ (ld'.st = "gone" /\ py'.bind \notin accepted \cup {NoOne})
  <2>1. CASE r.exc = "none" /\ Attempt(call, r.ld, known)
    BY <1>1, <1>2, <1>3, <2>1, AttemptGood, ReconnectedGood
  <2>2. CASE r.exc = "down" /\ ld' = Gone /\ Down(call, known)
    BY <1>1, <1>2, <1>3, <2>2, DownGood DEF Gone, Fresh, HandleType, Anybody, Settings
  <2>3. CASE r.exc = "invalid" /\ ld' = r.ld /\ Ends(call, "invalid", known)
    BY <1>1, <1>2, <1>3, <2>3, ReconnectedGood DEF Ends, Reckoned, Anybody
  <2> QED
    BY <1>4, <2>1, <2>2, <2>3
<1>6. call' = Idle => call'.op = "idle"
  BY DEF Idle
<1>7. TypeOK'
  BY <1>1, <1>2, <1>5, ReconnectedGood DEF Inv, TypeOK, HandleType, CallType, PyType
<1>8. GoodCall'
  BY <1>1, <1>2, <1>5, <1>6, ConstantsAssumption DEF GoodCall
<1>9. Accounted'
  BY <1>1, <1>2, <1>5, <1>6, ReconnectedGood, ConstantsAssumption DEF Accounted
<1>10. OptionRecorded' /\ TLSRecorded'
  BY <1>1, <1>2, <1>5, ReconnectedGood DEF Inv, OptionRecorded, TLSRecorded
<1> QED
  BY <1>7, <1>8, <1>9, <1>10 DEF Inv

\* StartTLS leaves the session, and encrypts or breaks it.
LEMMA HandshakeGood ==
  ASSUME NEW l \in HandleType, NEW p \in PyType, secured \in BOOLEAN, Handshake(l, p)
  PROVE  /\ ld' \in HandleType /\ py' \in PyType /\ secured' \in BOOLEAN
         /\ ld'.st = "gone" \/ (ld'.user = l.user /\ ld'.opt = l.opt)
         /\ py'.bind = p.bind /\ py'.opt = p.opt
         /\ ld'.st \in {l.st, "lost", "gone"} /\ (l.st = "gone" => ld'.st = "gone")
         /\ secured' => py'.tls
         /\ secured' => ld'.st = "gone" \/ ld'.tls \/ (secured /\ p.tls /\ ld'.tls = l.tls)
<1>1. CASE /\ l.st = "up" /\ ~l.tls
           /\ ld' = [l EXCEPT !.tls = TRUE] /\ py' = [p EXCEPT !.tls = TRUE] /\ secured' = TRUE
  BY <1>1 DEF HandleType, PyType
<1>2. CASE ld' = Gone /\ py' = p /\ secured' = (secured /\ p.tls)
  BY <1>2 DEF Gone, Fresh, HandleType, PyType, Anybody, Settings
<1>3. CASE ld' = l /\ py' = p /\ secured' = (secured /\ p.tls)
  BY <1>3 DEF PyType
<1>4. CASE l.st = "up" /\ ld' = [l EXCEPT !.st = "lost"] /\ py' = p /\ secured' = (secured /\ p.tls)
  BY <1>4 DEF HandleType, PyType
<1> QED
  BY <1>1, <1>2, <1>3, <1>4 DEF Handshake

\* start_tls().
LEMMA StartTLSInv ==
  ASSUME Inv, StartTLS
  PROVE  Inv'
<1>1. /\ conn /\ call = Idle /\ call.op = "idle"
      /\ Handshake(PyHandle, py) /\ who' = PyReckoned /\ tls' = TRUE
      /\ UNCHANGED <<conn, auth, opt, call, accepted, reachable, wanted>>
  BY DEF StartTLS, env, Idle
<1>2. py \in PyType /\ PyHandle \in HandleType /\ secured \in BOOLEAN
  BY <1>1, PyHandleGood DEF Inv, TypeOK, PyType
<1>3. /\ ld' \in HandleType /\ py' \in PyType /\ secured' \in BOOLEAN
      /\ ld'.st = "gone" \/ (ld'.user = PyHandle.user /\ ld'.opt = PyHandle.opt)
      /\ py'.bind = py.bind /\ py'.opt = py.opt
      /\ ld'.st \in {PyHandle.st, "lost", "gone"} /\ (PyHandle.st = "gone" => ld'.st = "gone")
      /\ secured' => py'.tls
      /\ secured' => ld'.st = "gone" \/ ld'.tls \/ (secured /\ py.tls /\ ld'.tls = PyHandle.tls)
  BY <1>1, <1>2, HandshakeGood
<1> QED
  BY <1>1, <1>3, PyHandleGood
     DEF Inv, TypeOK, GoodCall, Accounted, OptionRecorded, TLSRecorded, HandleType, PyType

\* connect(), which opens a handle and sets its options.
LEMMA ConnectInv ==
  ASSUME Inv, Connect
  PROVE  Inv'
<1> DEFINE l == IF reachable THEN [Fresh EXCEPT !.st = "up"] ELSE Gone
<1>1. /\ call = Idle /\ call.op = "idle" /\ conn' = TRUE
      /\ who' = {Anon, UserOf(auth)} /\ wanted' = Unset
      /\ UNCHANGED <<auth, opt, tls, call, accepted, reachable>>
  BY DEF Connect, memory, env, Idle
<1>2. /\ NewPy \in PyType /\ NewPy.bind = NoOne /\ NewPy.tls = FALSE
      /\ Fresh \in HandleType /\ Fresh.user = Anon /\ l \in HandleType /\ l.user = Anon
  BY DEF NewPy, PyType, Fresh, Gone, HandleType, Anybody, Settings
<1>3. /\ ld' \in HandleType /\ py' \in PyType /\ secured' \in BOOLEAN
      /\ ld'.st = "gone" \/ ld'.user = Anon
      /\ secured' => py'.tls /\ (ld'.st = "gone" \/ ld'.tls)
  <2>1. CASE tls
    <3>1. Handshake(l, NewPy)
      BY <2>1 DEF Connect, Opened
    <3> QED
      BY <1>2, <3>1, HandshakeGood DEF Inv, TypeOK
  <2>2. CASE ~tls
    BY <1>2, <2>2 DEF Connect, Opened
  <2> QED
    BY <2>1, <2>2
<1>4. who' \subseteq Anybody /\ Anon \in who' /\ (auth \in accepted => auth \in who')
  BY <1>1, ConstantsAssumption DEF Inv, TypeOK, UserOf, Anybody
<1> QED
  BY <1>1, <1>3, <1>4
     DEF Inv, TypeOK, GoodCall, Accounted, OptionRecorded, TLSRecorded, HandleType, PyType

\* reconnect() by the program.
LEMMA ReconnectInv ==
  ASSUME Inv, Reconnect
  PROVE  Inv'
<1>1. /\ conn /\ call = Idle /\ call.op = "idle"
      /\ ld' = Reconnected.ld /\ py' = Reconnected.py /\ who' = ReconnectReckoned
      /\ UNCHANGED <<conn, auth, opt, tls, call, accepted, reachable, wanted, secured>>
  BY DEF Reconnect, memory, env, Idle
<1> QED
  BY <1>1, ReconnectedGood
     DEF Inv, TypeOK, GoodCall, Accounted, OptionRecorded, TLSRecorded, HandleType, PyType

\* unbind(), which forgets the handle.
LEMMA UnbindInv ==
  ASSUME Inv, Unbind
  PROVE  Inv'
<1>1. /\ call = Idle /\ call.op = "idle" /\ auth' = NoOne /\ ld' = Gone /\ who' = {Anon}
      /\ UNCHANGED <<conn, py, opt, tls, call, accepted, reachable, wanted, secured>>
  BY DEF Unbind, env, Idle
<1>2. Gone \in HandleType /\ Gone.st = "gone" /\ Anon \in Anybody /\ NoOne \notin Users
  BY ConstantsAssumption DEF Gone, Fresh, HandleType, Anybody, Settings
<1> QED
  BY <1>1, <1>2 DEF Inv, TypeOK, GoodCall, Accounted, OptionRecorded, TLSRecorded, HandleType

\* whoami().
LEMMA WhoamiInv ==
  ASSUME Inv, Whoami
  PROVE  Inv'
<1>1. /\ conn /\ call = Idle /\ call.op = "idle" /\ ld' = PyHandle /\ who' = PyReckoned
      /\ UNCHANGED <<conn, py, auth, opt, tls, call, accepted, reachable, wanted, secured>>
  BY DEF Whoami, memory, env, Idle
<1> QED
  BY <1>1, PyHandleGood
     DEF Inv, TypeOK, GoodCall, Accounted, OptionRecorded, TLSRecorded, HandleType

\* set_option(), which records the option first.
LEMMA SetOptionInv ==
  ASSUME Inv, NEW v \in Values, SetOption(v)
  PROVE  Inv'
<1>1. /\ call = Idle /\ call.op = "idle" /\ v # Unset /\ v \in Settings
      /\ opt' = v /\ UNCHANGED <<conn, auth, tls, call, accepted, reachable, who, secured>>
  BY ConstantsAssumption DEF SetOption, env, Idle, Settings
<1>2. CASE conn
  <2>1. /\ py' = [py EXCEPT !.opt = v] /\ wanted' = v
        /\ ld' = IF ld.st = "gone" THEN ld ELSE [ld EXCEPT !.opt = v]
    BY <1>2 DEF SetOption
  <2>2. ld \in HandleType /\ py \in PyType
    BY DEF Inv, TypeOK, HandleType, PyType
  <2>3. /\ ld' \in HandleType /\ ld'.st = ld.st /\ ld'.user = ld.user /\ ld'.tls = ld.tls
        /\ ld'.st # "gone" => ld'.opt = v
        /\ py' \in PyType /\ py'.opt = v /\ py'.bind = py.bind /\ py'.tls = py.tls
    BY <1>1, <2>1, <2>2 DEF HandleType, PyType
  <2> QED
    BY <1>1, <1>2, <2>1, <2>3
       DEF Inv, TypeOK, GoodCall, Accounted, OptionRecorded, TLSRecorded, HandleType, PyType
<1>3. CASE ~conn
  <2>1. UNCHANGED <<ld, py, wanted>>
    BY <1>3 DEF SetOption
  <2> QED
    BY <1>1, <1>3, <2>1 DEF Inv, TypeOK, GoodCall, Accounted, OptionRecorded, TLSRecorded
<1> QED
  BY <1>2, <1>3

\* disconnect(), by the context manager or the program.
LEMMA DisconnectInv ==
  ASSUME Inv, Disconnect
  PROVE  Inv'
<1>1. /\ call = Idle /\ call.op = "idle"
      /\ conn' = FALSE /\ ld' = Gone /\ who' = {Anon} /\ wanted' = Unset
      /\ UNCHANGED <<py, auth, opt, tls, call, accepted, reachable, secured>>
  BY DEF Disconnect, memory, env, Idle
<1>2. Gone \in HandleType /\ Gone.st = "gone" /\ Anon \in Anybody
  BY DEF Gone, Fresh, HandleType, Anybody, Settings
<1> QED
  BY <1>1, <1>2 DEF Inv, TypeOK, GoodCall, Accounted, OptionRecorded, TLSRecorded, HandleType

\* The connection is pickled and comes back as a new object.
LEMMA PickleInv ==
  ASSUME Inv, Pickle
  PROVE  Inv'
<1>1. /\ call = Idle /\ call.op = "idle"
      /\ UNCHANGED <<auth, opt, tls, call, accepted, reachable>>
  BY DEF Pickle, memory, env, Idle
<1>2. CASE Connected
  <2>1. /\ conn /\ ld.st # "gone" /\ auth \in accepted \cup {NoOne}
        /\ ld' = Unpickled /\ secured' = tls /\ UNCHANGED <<conn, who, wanted>>
        /\ py' = [bind |-> auth, tls |-> tls, opt |-> Replayed(Default)]
    BY <1>2 DEF Pickle, Connected
  <2>2. Replayed(Default) \in Settings /\ (wanted # Unset => Replayed(Default) = wanted)
    BY DEF Inv, TypeOK, OptionRecorded, Replayed, Settings
  <2>3. /\ ld' \in HandleType /\ ld'.user = UserOf(auth) /\ ld'.tls = tls /\ ld'.opt = Replayed(Default)
        /\ ld'.st \in {"fresh", "up"}
        /\ py' \in PyType /\ py'.tls = tls /\ py'.opt = Replayed(Default)
    BY <2>1, <2>2 DEF Unpickled, UserOf, Inv, TypeOK, HandleType, PyType, Anybody
  <2>4. UserOf(auth) \in who
    BY <1>1, <2>1 DEF Inv, Accounted, UserOf
  <2> QED
    BY <1>1, <2>1, <2>2, <2>3, <2>4
       DEF Inv, TypeOK, GoodCall, Accounted, OptionRecorded, TLSRecorded, HandleType, PyType
<1>3. CASE ~Connected
  <2>1. auth = NoOne /\ conn' = FALSE /\ ld' = Gone /\ who' = {Anon} /\ wanted' = Unset /\ UNCHANGED <<py, secured>>
    BY <1>3 DEF Pickle
  <2> QED
    BY <1>1, <2>1
       DEF Inv, TypeOK, GoodCall, Accounted, OptionRecorded, TLSRecorded, Gone, Fresh, Anybody, Settings
<1> QED
  BY <1>2, <1>3

\* The server and the net do nothing to what the connection has recorded.
LEMMA ServerInv ==
  ASSUME Inv, ConnectionLost \/ ServerReturns \/ (\E u \in Users : Revoked(u))
  PROVE  Inv'
<1>1. CASE ConnectionLost
  BY <1>1
     DEF ConnectionLost, memory, history, Inv, TypeOK, GoodCall, Accounted, OptionRecorded, TLSRecorded
<1>2. CASE ServerReturns
  BY <1>2
     DEF ServerReturns, memory, history, Inv, TypeOK, GoodCall, Accounted, OptionRecorded, TLSRecorded
<1>3. CASE \E u \in Users : Revoked(u)
  BY <1>3
     DEF Revoked, memory, history, Inv, TypeOK, GoodCall, Accounted, OptionRecorded, TLSRecorded
<1> QED
  BY <1>1, <1>2, <1>3

\* Every step of a session keeps the invariant; the schema cache, whose steps these are, cites it.
LEMMA NextInv ==
  ASSUME Inv, [Next]_vars
  PROVE  Inv'
<1>1. CASE UNCHANGED vars
  BY <1>1
     DEF vars, memory, env, history, Inv, TypeOK, GoodCall, Accounted, OptionRecorded, TLSRecorded
<1>2. CASE Call(Use) \/ \E u \in Users : Call(BindAs(u))
  BY <1>2, CallInv
<1>3. CASE Retry
  BY <1>3, RetryInv
<1>4. CASE Connect \/ Disconnect \/ Reconnect \/ Unbind
  BY <1>4, ConnectInv, DisconnectInv, ReconnectInv, UnbindInv
<1>5. CASE Whoami \/ (\E v \in Values : SetOption(v)) \/ StartTLS \/ Pickle
  BY <1>5, WhoamiInv, SetOptionInv, StartTLSInv, PickleInv
<1>6. CASE ConnectionLost \/ ServerReturns \/ (\E u \in Users : Revoked(u))
  BY <1>6, ServerInv
<1> QED
  BY <1>1, <1>2, <1>3, <1>4, <1>5, <1>6 DEF Next

\* The invariant holds in every state of a session, whatever the number of users, of values and
\* of attempts.
THEOREM Invariance == Spec => []Inv
  BY InitInv, NextInv, PTL DEF Spec

(***************************************************************************)
(* What follows for the program.                                           *)
(***************************************************************************)

\* Every variable keeps its type; an operation that sleeps in _retry has an attempt left (1034-1051).
THEOREM TypeIsCorrect == Spec => []TypeOK
<1>1. Inv => TypeOK
  BY DEF Inv
<1> QED
  BY <1>1, Invariance, PTL

\* The server never takes the program for an identity that it cannot account for (413-420).
THEOREM IdentityIsKept == Spec => []IdentityKept
<1>1. Inv => IdentityKept
  BY DEF Inv, Accounted, IdentityKept
<1> QED
  BY <1>1, Invariance, PTL

\* An option that was set holds on every later handle of the connection (183-188, 413-415).
THEOREM OptionsAreKept == Spec => []OptionsKept
<1>1. Inv => OptionsKept
  BY DEF Inv, OptionRecorded, OptionsKept
<1> QED
  BY <1>1, Invariance, PTL

\* A protected connection never goes on in clear text (329-330, 341-352).
THEOREM StaysProtected == Spec => []Protected
<1>1. Inv => Protected
  BY DEF Inv, TLSRecorded, Protected
<1> QED
  BY <1>1, Invariance, PTL
=============================================================================
