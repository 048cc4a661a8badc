---------------------------- MODULE MCAccessList ----------------------------
(***************************************************************************)
(* AccessList in two processes.  ann and bob are managers with passwords of *)
(* their own, cat is not a user yet.  Each run chooses the requests made.   *)
(***************************************************************************)
EXTENDS AccessList, TLC

CONSTANTS ann, bob, cat, r1, r2, i1, i2

Manager == [role |-> "manager", own |-> TRUE]

MCInitialList == ann :> Manager @@ bob :> Manager @@ cat :> NoUser

MCHome == r1 :> i1 @@ r2 :> i2

AddCat == [op |-> "add", by |-> ann, users |-> {cat}, role |-> "reader", old |-> FALSE]
Demote(by, users) == [op |-> "edit", by |-> by, users |-> users, role |-> "reader", old |-> FALSE]
Delete(by, u) == [op |-> "delete", by |-> by, users |-> {u}, role |-> "none", old |-> FALSE]
Change(u, old) == [op |-> "change", by |-> u, users |-> {u}, role |-> "none", old |-> old]
Reset(by, u) == [op |-> "reset", by |-> by, users |-> {u}, role |-> "none", old |-> FALSE]
Register(u) == [op |-> "register", by |-> u, users |-> {u}, role |-> "none", old |-> FALSE]

\* Two managers demote one another, or one of them adds a user while the other
\* demotes them both.
Edits == {Demote(ann, {bob}), AddCat, Demote(bob, {ann}), Demote(bob, {ann, bob})}

EditsBy == r1 :> {Demote(ann, {bob}), AddCat} @@ r2 :> {Demote(bob, {ann}), Demote(bob, {ann, bob})}

\* A demotion, and requests that take users out of the list, or their roles, or
\* set passwords.
Removals == {Demote(ann, {bob}), Delete(bob, ann), Delete(bob, bob), Register(cat),
             Change(bob, TRUE), Reset(ann, bob)}

RemovalsBy == [r \in Requests |-> Removals]

=============================================================================
