--------------------------- MODULE MCPortalSession ---------------------------
(* PortalSession for TLC: every impersonation is for one tenant. *)
EXTENDS PortalSession

CONSTANT ImpersonatedTenant

MCImpTenant == [i \in Impersonations |-> ImpersonatedTenant]
=============================================================================
