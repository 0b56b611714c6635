------------------------------ MODULE UserStore ------------------------------
(***************************************************************************)
(* The user repository as the flow steps use it: the row of app_user and   *)
(* the metadata rows of app_user_data, one per top-level key, each with    *)
(* its eager_fetch flag.  The metadata of a user is kept as one document   *)
(* whose top-level keys are the rows.                                      *)
(***************************************************************************)
EXTENDS JsonDocs

Keys(j) == {p[1] : p \in Paths(j)}

\* The rows of keys ks, as a SELECT returns them.
Rows(meta, ks) == [p \in {p \in Paths(meta) : p[1] \in ks} |-> meta[p]]

\* What update_metadata writes for one key: the patch merged into the row it
\* read, or into {}; a null deletes the row.
NewRow(read, patch, k) ==
  IF At(patch, <<k>>) = Leaf(Null) THEN Empty
  ELSE Field(k, Merge(At(read, <<k>>), At(patch, <<k>>)))

\* update_metadata, whose reads returned the rows in read; the other rows of
\* meta are as they are now.
UpdateMetadata(meta, read, patch) ==
  LET fresh(k) == NewRow(read, patch, k)
      paths == {p \in Paths(meta) : p[1] \notin Keys(patch)}
                 \cup UNION {Paths(fresh(k)) : k \in Keys(patch)}
  IN  [p \in paths |-> IF p[1] \in Keys(patch) THEN fresh(p[1])[p] ELSE meta[p]]

\* eager_fetch of the rows: the patch decides, else what it was, else false.
UpdateEager(eager, patch, flags) ==
  [k \in (DOMAIN eager \cup Keys(patch))
           \ {k \in Keys(patch) : At(patch, <<k>>) = Leaf(Null)} |->
     CASE k \in Keys(patch) /\ Has(flags, <<k>>) -> Scalar(flags, <<k>>)
       [] ~(k \in Keys(patch) /\ Has(flags, <<k>>)) /\ k \in DOMAIN eager -> eager[k]
       [] OTHER -> "false"]

\* The columns of app_user the steps read.
NoRow == [user_id |-> Null, full_name |-> Null, phone_number |-> Null]

\* create_user takes the number from the phone_number attribute ...
NewUser(id, first_name, attribute) ==
  [user_id |-> id, full_name |-> first_name, phone_number |-> attribute]

\* Faulty variant: the attribute replaces the number.
ReplaceUserAndNumber(user, first_name, attribute) ==
  [user EXCEPT !.full_name = first_name, !.phone_number = attribute]

\* ... update_user replaces the attributes and leaves the number.
ReplaceUser(user, first_name, attribute) ==
  [user EXCEPT !.full_name = first_name]

\* update_phone_number and update_full_name, when the step called them.
UpdateContact(user, phone, full_name) ==
  [user EXCEPT !.phone_number = IF phone = Null THEN @ ELSE phone,
               !.full_name = IF full_name = Null THEN @ ELSE full_name]

\* RepoUserLookup::get_user
LookUp(user, meta) ==
  [user_id |-> user.user_id, full_name |-> user.full_name,
   phone_number |-> user.phone_number, metadata |-> meta]
=============================================================================
