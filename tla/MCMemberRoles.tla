--------------------------- MODULE MCMemberRoles ---------------------------
(***************************************************************************)
(* The instance of MemberRoles for TLC.                                    *)
(***************************************************************************)
EXTENDS MemberRoles
=============================================================================
