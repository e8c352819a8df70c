--------------------------- MODULE MCIamService ---------------------------
(***************************************************************************)
(* IamService for TLC: two organizations; an administrator of the first    *)
(* and a developer of the second with a session each, a session of the     *)
(* developer's that has no organization, a key of the second organization  *)
(* and room for one more, an address nobody has yet.  Only the first       *)
(* organization has a complete security policy.                            *)
(***************************************************************************)
EXTENDS IamService, TLC

MCToken ==
  [s1 |-> [user |-> "ann", org |-> "o1", role |-> "administrator"],
   s2 |-> [user |-> "bob", org |-> "o2", role |-> "developer"],
   s3 |-> [user |-> "bob", org |-> None, role |-> "developer"]]

MCRows0 ==
  (User("ann") :> "active") @@ (User("bob") :> "active")
    @@ (Member("o1", "ann") :> "administrator") @@ (Member("o2", "bob") :> "developer")
    @@ (Session("s1") :> "active") @@ (Session("s2") :> "active")
    @@ (Session("s3") :> "active")
    @@ (Policy("o1") :> "complete")
    @@ (Key("k1") :> [org |-> "o2", status |-> "active", by |-> "bob",
                      permissions |-> {"manage_users"}])

Alike == Permutations(Requests)
=============================================================================
