---------------------------- MODULE SchemaCache -----------------------------
(***************************************************************************)
(* The schemas that a Connection keeps, on top of its Session: get_schema  *)
(* reads the schema of a subject with two searches and keeps it until      *)
(* python-ldap has counted a reconnect that the Connection has not seen.   *)
(* Every step is a step of Session, or leaves the session as it is.        *)
(***************************************************************************)
EXTENDS Session

CONSTANTS
  Subjects,   \* the values of subschema_dn
  Root        \* None among them: the schema that the root DSE names

ASSUME RootAssumption == Root \in Subjects

VARIABLES
  schemas,    \* __schema: "none", or what was read, on this handle or an earlier one: "stale"
  kept,       \* whether there is an attribute __schema at all
  aliases,    \* Attributes.ALIASES knows the alias that get_attr is called with
  ahead,      \* conn._reconnects_done > __reconnects_counter
  fetch,      \* the get_schema that is searching: for `of`, when the program asked for `asked`
  getting,    \* the get_attr that runs
  missed      \* history: subjects whose schema outlived a reconnect that the
              \* counter has forgotten

cache == <<schemas, kept, aliases, ahead, fetch, getting, missed>>

NoFetch == [of |-> NoOne, asked |-> NoOne, left |-> 0, sent |-> FALSE]
Outdated == [s \in Subjects |-> IF schemas[s] = "none" THEN "none" ELSE "stale"]
Old(s) == {k \in Subjects : s[k] = "stale"}

SchemaInit ==
  /\ Init
  /\ schemas = [s \in Subjects |-> "none"] /\ kept = TRUE /\ aliases = FALSE
  /\ ahead = FALSE /\ fetch = NoFetch /\ getting = "no" /\ missed = {}

(***************************************************************************)
(* get_schema.                                                             *)
(***************************************************************************)

\* Mutant: the counter catches up, the schema stays.
NotDropped(s) == schemas

\* What is kept when get_schema(s) has looked at the counter.
Dropped(s) == IF ahead THEN [schemas EXCEPT ![s] = "none"] ELSE schemas

\* `del self.__schema[subschema_dn]` raises a KeyError, and the counter stays behind, when
\* this subject has not been read before.
Forgotten(s) == ahead /\ schemas[s] = "none"

\* get_schema(s) up to its first search, called for get_schema(asked) or as that; a copy made by
\* pickle has no __schema, an AttributeError.
Looked(s, asked) ==
  /\ kept /\ ~Forgotten(s)
  /\ schemas' = Dropped(s) /\ ahead' = FALSE
  /\ missed' = IF ahead THEN missed \cup (Old(schemas) \ {s}) ELSE missed
  /\ fetch' = IF Dropped(s)[s] = "none" THEN [of |-> s, asked |-> asked, left |-> 2, sent |-> FALSE]
              ELSE NoFetch
  /\ UNCHANGED <<vars, kept, aliases>>

\* No call of the program is under way.
Program == call = Idle /\ fetch = NoFetch /\ getting = "no"

GetSchema(s) ==
  /\ conn /\ Program
  /\ Looked(s, s) /\ UNCHANGED getting

\* A search for subschemaSubentry, then one for the schema.
Fetch ==
  /\ fetch # NoFetch /\ ~fetch.sent
  /\ Call(Use)
  /\ fetch' = [fetch EXCEPT !.sent = TRUE]
  /\ UNCHANGED <<schemas, kept, aliases, ahead, getting, missed>>

\* attributes[attr] once more, after get_schema: a KeyError if the alias is still unknown.
LookedAgain(known) == getting' = IF getting # "no" /\ ~known THEN "missing" ELSE "no"

\* Mutant: set_schema is not called.
LearntNothing(read) == aliases

\* Attributes.set_schema, for every object of the process.
Learnt(read) == aliases \/ read = "current"

Answered == fetch.sent /\ call = Idle /\ ld.st # "gone"

Stored(s, read) ==
  /\ schemas' = [schemas EXCEPT ![s] = read]
  /\ aliases' = Learnt(read) /\ LookedAgain(aliases')
  /\ missed' = missed \ {s}
  /\ fetch' = NoFetch

\* The schema is kept, also an empty one: one that the user may not read, or that does not exist.
\* An entry without a schema that is asked for another's catches what that one does not.
Fetched ==
  /\ Answered
  /\ \/ /\ fetch.left = 2 /\ fetch' = [fetch EXCEPT !.left = 1, !.sent = FALSE]
        /\ UNCHANGED <<schemas, aliases, getting, missed>>
     \/ \E read \in {"current", "empty"} :
          (fetch.left = 1 \/ read = "empty") /\ Stored(fetch.of, read)
     \/ fetch.left = 1 /\ fetch.asked # fetch.of /\ Stored(fetch.asked, "empty")
  /\ UNCHANGED <<vars, kept, ahead>>

\* The entry has no subschemaSubentry, a KeyError: get_schema() is asked for, and returned without
\* being kept for the entry, or raises its own KeyError.
Unnamed ==
  /\ Answered /\ fetch.left = 2 /\ fetch.of # Root
  /\ \/ Looked(Root, fetch.asked)
     \/ /\ kept /\ Forgotten(Root) /\ fetch' = NoFetch
        /\ UNCHANGED <<vars, schemas, kept, aliases, ahead, missed>>
  /\ UNCHANGED getting

\* Any other exception of the search ends get_schema, and so does a root DSE without
\* subschemaSubentry: subschemasubentry_dn has no value then, an UnboundLocalError.
FetchFails ==
  /\ fetch.sent /\ call = Idle
  /\ fetch' = NoFetch /\ getting' = "no"
  /\ UNCHANGED <<vars, schemas, kept, aliases, ahead, missed>>

(***************************************************************************)
(* get_attr, with an alias of an attribute that the entry has.             *)
(***************************************************************************)
GetAttr ==
  /\ Program /\ Call(Use)
  /\ getting' = "reading"
  /\ UNCHANGED <<schemas, kept, aliases, ahead, fetch, missed>>

\* The answer has the attribute under its first name: a KeyError leads to get_schema().
AttrRead ==
  /\ getting = "reading" /\ call = Idle /\ ~aliases
  /\ \/ Looked(Root, Root) /\ IF fetch' = NoFetch THEN LookedAgain(FALSE) ELSE getting' = "schema"
     \/ /\ kept /\ Forgotten(Root) /\ getting' = "missing"
        /\ UNCHANGED <<vars, schemas, kept, aliases, ahead, fetch, missed>>

\* It returns the values, or raises something that is no KeyError.
AttrEnds ==
  /\ getting = "reading" /\ call = Idle
  /\ getting' = "no"
  /\ UNCHANGED <<vars, schemas, kept, aliases, ahead, fetch, missed>>

\* The program takes the KeyError for an attribute that the entry does not have.
AttrMissing ==
  /\ getting = "missing"
  /\ getting' = "no"
  /\ UNCHANGED <<vars, schemas, kept, aliases, ahead, fetch, missed>>

(***************************************************************************)
(* The session's steps, and what becomes of the cache.                     *)
(***************************************************************************)

\* python-ldap counts a reconnect.
Counts(reconnected) ==
  /\ ahead' = (ahead \/ reconnected)
  /\ schemas' = IF reconnected THEN Outdated ELSE schemas
  /\ UNCHANGED <<kept, aliases, fetch, getting, missed>>

CountedStep ==
  \/ Retry /\ Counts(PyReconnects)
  \/ Program /\ Reconnect /\ Counts(PyReconnects)
  \/ Program /\ (Whoami \/ StartTLS) /\ Counts(~Opens(ld) /\ PyReconnects)

\* connect() makes a new python-ldap object and sets the counter to 0, and keeps the schemas.
ConnectCached ==
  /\ Program /\ Connect
  /\ ahead' = FALSE /\ schemas' = Outdated
  /\ missed' = missed \cup Old(schemas')
  /\ UNCHANGED <<kept, aliases, fetch, getting>>

\* __getstate__ leaves out what begins with "__", and __setstate__ does not make it again.  The
\* copy is loaded by the same process, or by one that knows no aliases.
PickleCached ==
  /\ Program /\ Pickle
  /\ schemas' = [s \in Subjects |-> "none"] /\ kept' = FALSE
  /\ ahead' = FALSE /\ missed' = {} /\ aliases' \in {aliases, FALSE}
  /\ UNCHANGED <<fetch, getting>>

OtherStep ==
  /\ \/ ConnectionLost \/ ServerReturns \/ \E u \in Users : Revoked(u)
     \/ /\ Program
        /\ \/ Call(Use) \/ (\E u \in Users : Call(BindAs(u)))
           \/ Disconnect \/ Unbind \/ \E v \in Values : SetOption(v)
  /\ UNCHANGED cache

SchemaNext ==
  \/ (\E s \in Subjects : GetSchema(s)) \/ Fetch \/ Fetched \/ Unnamed \/ FetchFails
  \/ GetAttr \/ AttrRead \/ AttrEnds \/ AttrMissing
  \/ CountedStep \/ ConnectCached \/ PickleCached \/ OtherStep

SchemaSpec == SchemaInit /\ [][SchemaNext]_<<vars, cache>>

-----------------------------------------------------------------------------
(***************************************************************************)
(* Properties.                                                             *)
(***************************************************************************)

\* A schema that was read before the connection was replaced is not returned any more: the
\* next get_schema for it (354-382) drops it.  Excepted are the subjects that get_schema was
\* not asked for first after the reconnect, and what connect() (304-330) leaves in the cache:
\* for these the one counter has already caught up.
SchemaCurrent == \A s \in Subjects : schemas[s] = "stale" => ahead \/ s \in missed

\* get_attr (480-490) has a KeyError for an alias of an attribute that the entry has only if
\* the schema was empty when it was read, in this session or one that the counter forgot, or
\* if get_schema() itself raised the KeyError: not because an earlier get_schema had the
\* schema in the cache and so did not teach the aliases again.
AliasFound ==
  getting = "missing" => schemas[Root] = "empty" \/ Root \in missed \/ Forgotten(Root)
=============================================================================
