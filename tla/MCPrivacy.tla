----------------------------- MODULE MCPrivacy -----------------------------
(* The smallest instance of PrivacyDeletion with a connected account. *)
EXTENDS PrivacyDeletion

CONSTANT o1

MCOwnerOf == [a \in Accounts |-> o1]
=============================================================================
