-------------------------- MODULE SchemaCache_proofs ---------------------------
(***************************************************************************)
(* Proofs about SchemaCache: with the cache on top of it a session is      *)
(* still a session, so that what Session_proofs shows holds here too; and  *)
(* what the cache returns is current.                                      *)
(***************************************************************************)
EXTENDS SchemaCache, Session_proofs

(***************************************************************************)
(* SchemaCache implements Session.                                         *)
(***************************************************************************)

\* A step of the cache is one of the session's operations, or leaves the session alone.
LEMMA StepOfSession == [SchemaNext]_<<vars, cache>> => [Next]_vars
<1> SUFFICES ASSUME [SchemaNext]_<<vars, cache>>
             PROVE  Next \/ UNCHANGED vars
  OBVIOUS
<1>1. CASE UNCHANGED <<vars, cache>>
  BY <1>1
<1>2. CASE (\E s \in Subjects : GetSchema(s)) \/ Fetched \/ Unnamed \/ FetchFails \/ AttrRead
          \/ AttrEnds \/ AttrMissing
  BY <1>2 DEF GetSchema, Looked, Fetched, Unnamed, FetchFails, AttrRead, AttrEnds, AttrMissing
<1>3. CASE Fetch \/ GetAttr
  BY <1>3 DEF Fetch, GetAttr, Next
<1>4. CASE CountedStep \/ ConnectCached \/ PickleCached
  BY <1>4 DEF CountedStep, ConnectCached, PickleCached, Next
<1>5. CASE OtherStep
  BY <1>5 DEF OtherStep, Next
<1> QED
  BY <1>1, <1>2, <1>3, <1>4, <1>5 DEF SchemaNext

\* A Connection whose schemas are looked at is a Connection: get_schema and get_attr (354-382,
\* 480-490) do with the session only what the operations of Session do.
THEOREM ImplementsSession == SchemaSpec => Spec
<1>1. SchemaInit => Init
  BY DEF SchemaInit
<1> QED
  BY <1>1, StepOfSession, PTL DEF SchemaSpec, Spec

(***************************************************************************)
(* The inductive invariant of the cache.                                   *)
(***************************************************************************)
Fetches == [of : Subjects, asked : Subjects, left : {1, 2}, sent : BOOLEAN]

CacheType ==
  /\ schemas \in [Subjects -> {"none", "current", "stale", "empty"}]
  /\ kept \in BOOLEAN /\ aliases \in BOOLEAN /\ ahead \in BOOLEAN
  /\ fetch = NoFetch \/ fetch \in Fetches
  /\ getting \in {"no", "reading", "schema", "missing"}
  /\ missed \subseteq Subjects

\* Whoever has the schema of this session has taught its aliases to the process.
Taught == \A s \in Subjects : schemas[s] = "current" => aliases

\* get_attr searches for the entry, then for the schema of the root DSE, then looks again.
Turns ==
  /\ getting \in {"reading", "missing"} => fetch = NoFetch
  /\ getting = "schema" => fetch # NoFetch /\ fetch.of = Root /\ fetch.asked = Root
  /\ getting = "missing" => call = Idle

CacheInv == CacheType /\ Taught /\ Turns /\ SchemaCurrent /\ AliasFound

\* Nothing is cached at first.
LEMMA InitCache == SchemaInit => CacheInv
  BY RootAssumption
     DEF SchemaInit, Init, CacheInv, CacheType, Taught, Turns, SchemaCurrent, AliasFound, NoFetch

\* get_schema up to its first search, asked for by the program or by get_attr.
LEMMA LookedCache ==
  ASSUME CacheInv, NEW s \in Subjects, NEW asked \in Subjects, Looked(s, asked)
  PROVE  /\ schemas' \in [Subjects -> {"none", "current", "stale", "empty"}] /\ missed' \subseteq Subjects
         /\ ahead' = FALSE /\ aliases' = aliases /\ kept' = kept /\ call' = call
         /\ Taught' /\ SchemaCurrent'
         /\ \/ fetch' = NoFetch /\ ~ahead /\ schemas' = schemas /\ missed' = missed /\ schemas[s] # "none"
            \/ fetch' # NoFetch /\ fetch'.of = s /\ fetch'.asked = asked /\ fetch' \in Fetches
<1>1. /\ schemas \in [Subjects -> {"none", "current", "stale", "empty"}] /\ missed \subseteq Subjects
      /\ ahead \in BOOLEAN /\ aliases \in BOOLEAN
  BY DEF CacheInv, CacheType
<1>2. /\ schemas' = Dropped(s) /\ ahead' = FALSE /\ aliases' = aliases /\ kept' = kept /\ call' = call
      /\ missed' = IF ahead THEN missed \cup (Old(schemas) \ {s}) ELSE missed
      /\ fetch' = IF Dropped(s)[s] = "none" THEN [of |-> s, asked |-> asked, left |-> 2, sent |-> FALSE]
                  ELSE NoFetch
  BY DEF Looked, vars
<1> DEFINE f == [of |-> s, asked |-> asked, left |-> 2, sent |-> FALSE]
<1>3. f # NoFetch /\ f.of = s /\ f.asked = asked /\ f \in Fetches
  BY DEF NoFetch, Fetches
<1> HIDE DEF f
<1>4. CASE ahead
  <2>1. /\ schemas' = [schemas EXCEPT ![s] = "none"] /\ missed' = missed \cup (Old(schemas) \ {s})
        /\ fetch' = f
    BY <1>1, <1>2, <1>4 DEF Dropped, f
  <2>2. \A t \in Subjects : schemas'[t] = IF t = s THEN "none" ELSE schemas[t]
    BY <1>1, <2>1
  <2>3. schemas' \in [Subjects -> {"none", "current", "stale", "empty"}] /\ missed' \subseteq Subjects
    BY <1>1, <2>1 DEF Old
  <2>4. Taught'
    BY <1>2, <2>2 DEF CacheInv, Taught
  <2>5. SchemaCurrent'
    BY <2>1, <2>2 DEF SchemaCurrent, Old
  <2> QED
    BY <1>2, <1>3, <2>1, <2>3, <2>4, <2>5 DEF f
<1>5. CASE ~ahead
  <2>1. schemas' = schemas /\ missed' = missed
    BY <1>2, <1>5 DEF Dropped
  <2>2. Taught' /\ SchemaCurrent'
    BY <1>2, <1>5, <2>1 DEF CacheInv, Taught, SchemaCurrent
  <2> QED
    BY <1>1, <1>2, <1>3, <1>5, <2>1, <2>2 DEF f
<1> QED
  BY <1>1, <1>4, <1>5

\* get_schema and get_attr: what they look up in the cache, and what they put into it.
LEMMA GetSchemaCache ==
  ASSUME CacheInv, NEW s \in Subjects, GetSchema(s)
  PROVE  CacheInv'
  BY LookedCache DEF GetSchema, Program, CacheInv, CacheType, Turns, AliasFound

\* The requests for a schema leave the cache alone.
LEMMA FetchCache ==
  ASSUME CacheInv, Fetch \/ GetAttr \/ FetchFails \/ AttrEnds \/ AttrMissing
  PROVE  CacheInv'
<1>1. CASE Fetch
  BY <1>1 DEF Fetch, CacheInv, CacheType, Fetches, Taught, Turns, SchemaCurrent, AliasFound, NoFetch
<1>2. CASE GetAttr
  BY <1>2 DEF GetAttr, Program, CacheInv, CacheType, Taught, Turns, SchemaCurrent, AliasFound
<1>3. CASE FetchFails \/ AttrEnds \/ AttrMissing
  BY <1>3 DEF FetchFails, AttrEnds, AttrMissing, CacheInv, CacheType, Taught, Turns, SchemaCurrent, AliasFound
<1> QED
  BY <1>1, <1>2, <1>3

\* Its answer is what the cache holds from then on.
LEMMA FetchedCache ==
  ASSUME CacheInv, Fetched
  PROVE  CacheInv'
<1>1. /\ fetch # NoFetch /\ fetch \in Fetches /\ fetch.of \in Subjects /\ fetch.asked \in Subjects
      /\ getting \in {"no", "schema"}
      /\ getting = "schema" => fetch.of = Root /\ fetch.asked = Root
      /\ call' = Idle /\ kept' = kept /\ ahead' = ahead
  BY DEF Fetched, Answered, CacheInv, CacheType, Fetches, Turns, NoFetch, vars
<1>2. CASE /\ fetch.left = 2 /\ fetch' = [fetch EXCEPT !.left = 1, !.sent = FALSE]
           /\ UNCHANGED <<schemas, aliases, getting, missed>>
  <2>1. fetch' \in Fetches /\ fetch'.of = fetch.of /\ fetch'.asked = fetch.asked
    BY <1>1, <1>2 DEF Fetches
  <2>2. fetch'.left \in {1, 2} /\ NoFetch.left = 0
    BY <2>1 DEF NoFetch, Fetches
  <2>3. fetch' # NoFetch
    BY <2>2
  <2> QED
    BY <1>1, <1>2, <2>1, <2>3 DEF CacheInv, CacheType, Taught, Turns, SchemaCurrent, AliasFound
<1>3. ASSUME NEW read \in {"current", "empty"}, NEW s \in {fetch.of, fetch.asked}, Stored(s, read)
      PROVE  CacheInv'
  <2>1. \A t \in Subjects : schemas'[t] = IF t = s THEN read ELSE schemas[t]
    BY <1>1, <1>3 DEF CacheInv, CacheType, Stored
  <2>2. aliases' = (aliases \/ read = "current")
    BY <1>3 DEF Learnt, Stored
  <2>3. CacheType' /\ Turns'
    BY <1>1, <1>3, <2>2 DEF CacheInv, CacheType, Turns, LookedAgain, Stored
  <2>4. Taught' /\ SchemaCurrent'
    BY <1>1, <1>3, <2>1, <2>2 DEF CacheInv, Taught, SchemaCurrent, Stored
  <2>5. AliasFound'
    BY <1>1, <1>3, <2>1, <2>2, RootAssumption DEF AliasFound, LookedAgain, Stored
  <2> QED
    BY <2>3, <2>4, <2>5 DEF CacheInv
<1> QED
  BY <1>2, <1>3 DEF Fetched

\* Of an entry without a schema get_schema looks for another, which the cache may hold.
LEMMA UnnamedCache ==
  ASSUME CacheInv, Unnamed
  PROVE  CacheInv'
<1>1. /\ fetch \in Fetches /\ fetch.asked \in Subjects /\ Root \in Subjects
      /\ getting = "no" /\ getting' = "no"
  BY RootAssumption DEF Unnamed, Answered, CacheInv, CacheType, Fetches, Turns, NoFetch
<1>2. CASE Looked(Root, fetch.asked)
  BY <1>1, <1>2, LookedCache DEF CacheInv, CacheType, Turns, AliasFound
<1>3. CASE fetch' = NoFetch /\ UNCHANGED <<vars, schemas, kept, aliases, ahead, missed>>
  BY <1>1, <1>3 DEF CacheInv, CacheType, Taught, Turns, SchemaCurrent, AliasFound
<1> QED
  BY <1>2, <1>3 DEF Unnamed

\* An alias that is unknown after get_schema() without a search: the schema in the cache was empty,
\* or it is one that the counter has forgotten.
LEMMA AttrReadCache ==
  ASSUME CacheInv, AttrRead
  PROVE  CacheInv'
<1>1. getting = "reading" /\ call = Idle /\ aliases = FALSE /\ fetch = NoFetch /\ Root \in Subjects
  BY RootAssumption DEF AttrRead, CacheInv, CacheType, Turns
<1>2. CASE Looked(Root, Root) /\ fetch' = NoFetch /\ LookedAgain(FALSE)
  <2>1. /\ ~ahead /\ schemas' = schemas /\ missed' = missed /\ schemas[Root] # "none"
        /\ getting' = "missing" /\ call' = Idle /\ aliases' = aliases /\ kept' = kept /\ ahead' = FALSE
        /\ Taught' /\ SchemaCurrent'
    BY <1>1, <1>2, LookedCache DEF LookedAgain
  <2>2. schemas[Root] \in {"stale", "empty"} /\ (schemas[Root] = "stale" => Root \in missed)
    BY <1>1, <2>1 DEF CacheInv, CacheType, Taught, SchemaCurrent
  <2> QED
    BY <1>1, <1>2, <2>1, <2>2 DEF CacheInv, CacheType, Turns, AliasFound
<1>3. CASE Looked(Root, Root) /\ fetch' # NoFetch /\ getting' = "schema"
  BY <1>1, <1>3, LookedCache DEF CacheInv, CacheType, Turns, AliasFound
<1>4. CASE /\ kept /\ Forgotten(Root) /\ getting' = "missing"
           /\ UNCHANGED <<vars, schemas, kept, aliases, ahead, fetch, missed>>
  BY <1>1, <1>4 DEF CacheInv, CacheType, Taught, Turns, SchemaCurrent, AliasFound, Forgotten, vars
<1> QED
  BY <1>2, <1>3, <1>4 DEF AttrRead

\* The steps of the session: a reconnect that python-ldap counts, connect(), a copy, the others.
LEMMA SessionCache ==
  ASSUME CacheInv, CountedStep \/ ConnectCached \/ PickleCached \/ OtherStep
  PROVE  CacheInv'
<1>1. ASSUME NEW reconnected \in BOOLEAN, Counts(reconnected), getting # "missing"
      PROVE  CacheInv'
  BY <1>1 DEF Counts, Outdated, CacheInv, CacheType, Taught, Turns, SchemaCurrent, AliasFound
<1>2. CASE CountedStep
  BY <1>1, <1>2 DEF CountedStep, Program, Retry, CacheInv, Turns, PyReconnects, Opens
<1>3. CASE ConnectCached \/ PickleCached
  BY <1>3 DEF ConnectCached, PickleCached, Program, Outdated, Old, CacheInv, CacheType, Taught, Turns,
              SchemaCurrent, AliasFound
<1>4. CASE OtherStep
  BY <1>4 DEF OtherStep, Program, ConnectionLost, ServerReturns, Revoked, cache, memory, history,
              CacheInv, CacheType, Taught, Turns, SchemaCurrent, AliasFound, Forgotten
<1> QED
  BY <1>2, <1>3, <1>4

\* The cache keeps its invariant, whatever the subjects and whatever the session does.
THEOREM CacheInvariance == SchemaSpec => []CacheInv
<1>1. ASSUME CacheInv, [SchemaNext]_<<vars, cache>>
      PROVE  CacheInv'
  <2>1. CASE UNCHANGED <<vars, cache>>
    BY <1>1, <2>1
       DEF vars, cache, CacheInv, CacheType, Taught, Turns, SchemaCurrent, AliasFound, Forgotten
  <2>2. CASE SchemaNext
    BY <1>1, <2>2, GetSchemaCache, FetchCache, FetchedCache, UnnamedCache,
        AttrReadCache, SessionCache DEF SchemaNext
  <2> QED
    BY <1>1, <2>1, <2>2
<1> QED
  BY <1>1, InitCache, PTL DEF SchemaSpec

(***************************************************************************)
(* What follows for the program.                                           *)
(***************************************************************************)

\* get_schema does not return a schema from before a reconnect, but for those that its one counter
\* has forgotten (354-382).
THEOREM SchemaIsCurrent == SchemaSpec => []SchemaCurrent
<1>1. CacheInv => SchemaCurrent
  BY DEF CacheInv
<1> QED
  BY <1>1, CacheInvariance, PTL

\* get_attr finds an attribute by its alias unless the schema itself is at fault (480-490).
THEOREM AliasIsFound == SchemaSpec => []AliasFound
<1>1. CacheInv => AliasFound
  BY DEF CacheInv
<1> QED
  BY <1>1, CacheInvariance, PTL

\* Identity, options and protection are kept also on behalf of get_schema and get_attr, whose
\* searches are retried like any other (354-382, 480-490, 1034-1051).
THEOREM SessionIsKept == SchemaSpec => [](TypeOK /\ IdentityKept /\ OptionsKept /\ Protected)
  BY ImplementsSession, TypeIsCorrect, IdentityIsKept, OptionsAreKept, StaysProtected, PTL
=============================================================================
