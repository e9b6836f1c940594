------------------------------- MODULE MCLabs -------------------------------
(* What clients ask to be saved, for checking Labs: a new lab, with no owner  *)
(* or with an empty name for one; an editor's change that adds a document;    *)
(* and an owner's edit that drops the category and all editors, and leaves an *)
(* empty name for the owners and so makes its creator, another user, one.     *)
EXTENDS Labs, TLC

CONSTANTS u1, u2, d1, r1, r2

Lab(owners, editors, doc, rbac, categorised) ==
    [owners |-> Listed(owners), editors |-> Listed(editors), updatedBy |-> NoUser,
     doc |-> doc, rbac |-> rbac, categorised |-> categorised]

Save(user, new, creator, lab) ==
    [user |-> user, new |-> new, creator |-> creator, ver |-> lab]

Create == Save(u1, TRUE, NoUser, Lab({}, {u2}, NoDoc, FALSE, TRUE))
CreateBlank == Save(u1, TRUE, NoUser, Lab({NoUser}, {u2}, NoDoc, FALSE, TRUE))
Edit == Save(u2, FALSE, u1, Lab({u1}, {u2}, d1, TRUE, TRUE))
Disown == Save(u1, FALSE, u2, Lab({NoUser}, {}, d1, FALSE, FALSE))

AllSaves == {Create, CreateBlank, Edit, Disown}

Symmetric == Permutations({r1, r2})

\* An empty name among the owners is looked into where owners decide, with
\* requests that come one at a time while a lab has it, or has had it, and two
\* different pairs of lists at the most.
Bounds ==
    \A l \in Labs : \A v \in past[l] \cup ({blob[l], copies[l]} \ {Absent}) :
        Contains(v.owners, NoUser) =>
            /\ type = "owned"
            /\ Cardinality(past[l]) <= 2
            /\ pc[r1] = "idle" \/ pc[r2] = "idle"
=============================================================================
