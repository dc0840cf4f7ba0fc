-------------------------- MODULE MCSipProvisioning --------------------------
(***************************************************************************)
(* SipProvisioning with two tenants and two processes of the script.       *)
(***************************************************************************)
EXTENDS SipProvisioning, TLC

CONSTANTS Hdfc, Swiggy

MCTenants == <<Hdfc, Swiggy>>

\* The processes run the same script.
MCSymmetry == Permutations(Provisioners)
=============================================================================
