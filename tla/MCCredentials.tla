---------------------------- MODULE MCCredentials ----------------------------
(***************************************************************************)
(* Instances of Credentials: two users, an address of each.  The second    *)
(* address takes Google and app-password logins of either user.            *)
(***************************************************************************)
EXTENDS Credentials

CONSTANTS ana, ben, a1, a2

HomeOf == ana :> a1 @@ ben :> a2
ImapKeys == {"yahoo"}
Logins == a1 :> {"google", "yahoo"} @@ a2 :> {"google"}
OneEach == ana :> 1 @@ ben :> 1
Interchangeable == Permutations(Task)
AllOps == Operation
=============================================================================
