----------------------------- MODULE OwnedThing -----------------------------
(***************************************************************************)
(* What group sharing promises, without rows, ledgers, flags or requests:  *)
(* users hold roles over a thing.  Its creator is its first owner, one     *)
(* role changes at a time, and the last owner keeps ownership for as long  *)
(* as the thing exists.                                                    *)
(***************************************************************************)
EXTENDS Integers

CONSTANT User

VARIABLE role       \* role[u]: 1 owns, 2 changes, 3 views, 4 holds nothing

Exists == \E u \in User : role[u] # 4

Init == role = [u \in User |-> 4]

(* The thing appears with its creator as its owner. *)
Create(u) ==
    /\ ~Exists
    /\ role' = [role EXCEPT ![u] = 1]

(* A role is given, changed or taken away; not that of a last owner. *)
Assign(u, r) ==
    /\ Exists
    /\ \E o \in User : role[o] = 1 /\ (o = u => r = 1)
    /\ role' = [role EXCEPT ![u] = r]

(* The thing disappears, and every role over it with it. *)
Destroy ==
    /\ Exists
    /\ role' = [u \in User |-> 4]

Next ==
    \/ \E u \in User : Create(u)
    \/ \E u \in User, r \in 1..4 : Assign(u, r)
    \/ Destroy

Spec == Init /\ [][Next]_role
=============================================================================
