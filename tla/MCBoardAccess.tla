--------------------------- MODULE MCBoardAccess ----------------------------
(***************************************************************************)
(* Two users and a guest have a session each, or one user has two.         *)
(***************************************************************************)
EXTENDS BoardAccess, TLC

CONSTANTS s1, s2, s3, u1, u2, g

MCParties == {s1 :> u1 @@ s2 :> u2 @@ s3 :> g, s1 :> u1 @@ s2 :> u1 @@ s3 :> u2}

\* To close the board, to protect it, to let guests in, to forget the password;
\* and two that contradict themselves or what the board is.
MCChanges ==
    {[access_mode |-> "private_board", guest_policy |-> Nothing,
      change_password |-> FALSE, password |-> Nothing],
     [access_mode |-> "password_protected", guest_policy |-> "guest_edit_allowed",
      change_password |-> TRUE, password |-> "p"],
     [access_mode |-> Nothing, guest_policy |-> "guest_view_only",
      change_password |-> FALSE, password |-> Nothing],
     [access_mode |-> Nothing, guest_policy |-> Nothing,
      change_password |-> TRUE, password |-> Nothing],
     [access_mode |-> Nothing, guest_policy |-> Nothing,
      change_password |-> FALSE, password |-> "p"],
     [access_mode |-> Nothing, guest_policy |-> Nothing,
      change_password |-> TRUE, password |-> "p"]}

=============================================================================
