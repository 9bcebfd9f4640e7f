-------------------------------- MODULE MCSites --------------------------------
(* Constants for the runs of SiteLifecycle.                                *)
EXTENDS SiteLifecycle, TLC

CONSTANTS d1, d2, d3, n1, n2

\* Two domains whose names buildSiteName keeps apart.
DistinctNames == d1 :> n1 @@ d2 :> n2

\* d1 and d3 differ in a hyphen, which buildSiteName drops.
CollidingNames == d1 :> n1 @@ d2 :> n2 @@ d3 :> n1

=============================================================================
