------------------------- MODULE MCAsyncConnection -------------------------
(***************************************************************************)
(* Instances of AsyncConnection: a search_iter s, an operation e that is   *)
(* answered as a whole, and an unbind u, of which each run takes some.     *)
(***************************************************************************)
EXTENDS AsyncConnection

CONSTANTS s, e, u

MCKind == [t \in Ops |-> CASE t = s -> "iterate" [] t = e -> "execute" [] t = u -> "unbind"]

\* A search and a modification, say.
SearchAndResult ==
  [t \in Ops |-> CASE t = s -> <<"entry", "entry", "result">> [] t = e -> <<"result">> [] t = u -> <<>>]

\* All operations but the unbind have the same answer.
ReplyOf(search) == [t \in Ops |-> IF t = u THEN <<>> ELSE search]

ShortReply == ReplyOf(<<"entry", "result">>)
TwoEntries == ReplyOf(<<"entry", "entry", "result">>)
=============================================================================
