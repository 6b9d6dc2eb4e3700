-------------------------------- MODULE Dn ----------------------------------
(***************************************************************************)
(* Distinguished names as freeiam.ldap.dn.DN computes with them.           *)
(*                                                                         *)
(* A word is an attribute name or a value with its spelling, a letter case *)
(* that LDAP ignores: [w |-> what it says, caps |-> how it is spelled].    *)
(* An AVA is a pair of words, an RDN a sequence of AVAs and a DN a         *)
(* sequence of RDNs, the entry's own first.                                *)
(***************************************************************************)
EXTENDS Naturals, Sequences, FiniteSets

LOCAL INSTANCE SequencesExt

CONSTANTS
  CaseInsensitive,    \* _CASE_INSENSITIVE_ATTRIBUTES
  NoDn,               \* None
  InvalidDN           \* the exception of that name

Word(text) == [w |-> text, caps |-> FALSE]
Caps(word) == [word EXCEPT !.caps = TRUE]
Lower(word) == [word EXCEPT !.caps = FALSE]
Ava(attr, value) == <<Word(attr), Word(value)>>

\* An AVA as __hash__ sees it.
Folded(ava) ==
  <<Lower(ava[1]), IF ava[1].w \in CaseInsensitive THEN Lower(ava[2]) ELSE ava[2]>>

\* The sorted AVAs of an RDN, as the number of times that each occurs.
RdnHash(rdn) ==
  LET folded == {Folded(rdn[i]) : i \in DOMAIN rdn}
  IN [ava \in folded |-> Cardinality({i \in DOMAIN rdn : Folded(rdn[i]) = ava})]

\* Mutant: the values of all attributes are compared as they are spelled.
HashSpelled(d) ==
  [i \in DOMAIN d |-> {<<Lower(d[i][j][1]), d[i][j][2]>> : j \in DOMAIN d[i]}]

\* __hash__, and == which compares hashes.
Hash(d) == [i \in DOMAIN d |-> RdnHash(d[i])]
Same(d, e) == Hash(d) = Hash(e)

\* d[i:], counted from 0.
From(d, i) == SubSeq(d, i + 1, Len(d))

\* multi_rdn, attributes and values: the first component, in whole, and rdn: its first AVA.
MultiRdn(d) == IF d = <<>> THEN <<>> ELSE d[1]
Attributes(d) == [i \in DOMAIN MultiRdn(d) |-> MultiRdn(d)[i][1]]
ValuesOf(d) == [i \in DOMAIN MultiRdn(d) |-> MultiRdn(d)[i][2]]
Rdn(d) == IF d = <<>> THEN <<>> ELSE MultiRdn(d)[1]
Attribute(d) == Rdn(d)[1]

Parent(d) == IF Len(d) > 1 THEN From(d, 1) ELSE NoDn

\* f'{self},{other}': an empty side, or None, leaves a comma with nothing beside it.
Plus(d, e) == IF d = <<>> \/ e \in {<<>>, NoDn, InvalidDN} THEN InvalidDN ELSE d \o e

\* compose(): the components of names, one after the other; a tuple is a name of one AVA.
Compose(parts) == FlattenSeq(parts)

\* self[-len(other) or len(self):] == other
Ending(d, n) == IF n > Len(d) THEN d ELSE From(d, Len(d) - n)

EndsWith(d, e) == Same(Ending(d, Len(e)), e)

StartsWith(d, e) == Same(SubSeq(d, 1, IF Len(e) < Len(d) THEN Len(e) ELSE Len(d)), e)

GetParent(d, end) == IF ~EndsWith(d, end) \/ Same(d, end) THEN NoDn ELSE Parent(d)

\* walk(): from the base, or the last component, down to the name itself.
Walk(d, base) ==
  LET least == IF base = <<>> THEN 1 ELSE Len(base)
  IN [k \in 1 .. (Len(d) + 1 - least) |-> Ending(d, least + k - 1)]

\* get_unique(): one of each set of equal names.
Unique(names) == {Hash(d) : d \in names}
=============================================================================
