------------------------------ MODULE JsonDocs ------------------------------
(***************************************************************************)
(* The serde_json values the contexts, the patches and the user metadata   *)
(* are made of.  A document is a function from the paths of its leaves     *)
(* (sequences of keys) to scalars: {"a": {"b": 1}} is <<"a", "b">> :> 1    *)
(* and the scalar 1 is << >> :> 1.  No path of a document is a prefix of   *)
(* another.  An object with no keys is not told apart from no object;      *)
(* arrays are scalars.                                                     *)
(***************************************************************************)
EXTENDS Integers, SequencesExt

CONSTANT Null     \* the JSON null, and the value of an absent scalar

Empty == << >>

Leaf(v) == [p \in {<< >>} |-> v]

\* The object with the fields of record r.
Object(r) == [p \in {<<k>> : k \in DOMAIN r} |-> r[p[1]]]

\* The object whose only field is k, holding j.
Field(k, j) == [p \in {<<k>> \o q : q \in DOMAIN j} |-> j[Tail(p)]]

Paths(j) == DOMAIN j

\* Two leaves of one document are never on one path.
IsDocument(j) ==
  \A p \in Paths(j) : \A n \in 0 .. Len(p) - 1 : SubSeq(p, 1, n) \notin Paths(j)

\* Value::pointer: what is at p, Empty when there is nothing.
At(j, p) ==
  [r \in {SubSeq(q, Len(p) + 1, Len(q)) : q \in {q \in Paths(j) : IsPrefix(p, q)}}
     |-> j[p \o r]]

Has(j, p) == \E q \in Paths(j) : IsPrefix(p, q)

Scalar(j, p) == IF p \in Paths(j) THEN j[p] ELSE Null

IsObject(j, p) ==
  \/ p = << >> /\ << >> \notin Paths(j)
  \/ \E q \in Paths(j) : IsStrictPrefix(p, q)

OnOnePath(p, q) == IsPrefix(p, q) \/ IsPrefix(q, p)

\* j with v put at p, whatever was on the way.
Overwrite(j, p, v) ==
  [q \in {q \in Paths(j) : ~OnOnePath(p, q)} \cup {p \o r : r \in Paths(v)} |->
     IF IsPrefix(p, q) THEN v[SubSeq(q, Len(p) + 1, Len(q))] ELSE j[q]]

\* apply_json_pointer_patch: scalars on the way become objects, but the last
\* key is put only into an object.
Put(j, p, v) ==
  IF p # << >> /\ Front(p) \in Paths(j) THEN j ELSE Overwrite(j, p, v)

\* merge_json_value: objects are merged key by key, anything else replaces
\* what was there, and a null removes it.  A null is kept only inside an object
\* that is inserted whole.
Merge(base, patch) ==
  LET kept == {q \in Paths(base) :
                 \A p \in Paths(patch) : ~OnOnePath(p, q)}
      set  == {p \in Paths(patch) :
                 patch[p] = Null /\ p # << >> => ~IsObject(base, Front(p))}
  IN  [q \in kept \cup set |-> IF q \in set THEN patch[q] ELSE base[q]]
=============================================================================
