---------------------------- MODULE MCDirectory -----------------------------
(***************************************************************************)
(* A directory with a tree of up to two levels under its suffix.           *)
(***************************************************************************)
EXTENDS Directory

Ignored == {"cn", "dc"}
SuffixDn == <<<<Ava("dc", "i")>>, <<Ava("dc", "org")>>>>
One == <<Ava("cn", "a")>>
Both == <<Ava("cn", "b"), Ava("sn", "a")>>
RdnsTwo == {One, Both}
NamesUsed == {<<One>> \o SuffixDn, <<Both>> \o SuffixDn, <<Both, One>> \o SuffixDn}
TreeTwo == {<<One>> \o SuffixDn, <<Both, One>> \o SuffixDn}
Replace == [mod |-> "replace", attr |-> "cn", vals |-> <<Word("c")>>]
AddValue == [mod |-> "add", attr |-> "cn", vals |-> <<Word("c")>>]
DeleteAll == [mod |-> "delete", attr |-> "cn", vals |-> <<>>]
AddOld == [mod |-> "add", attr |-> "cn", vals |-> <<Word("a")>>]
Lists == {<<Replace>>, <<AddValue>>, <<DeleteAll, AddOld>>}
=============================================================================
