-------------------------- MODULE MCPortalSessions --------------------------
(* TLC instances of PortalSessions.                                        *)
EXTENDS PortalSessions, TLC

Interchangeable == Permutations(Deliveries) \cup Permutations(Sids)
=============================================================================
