-------------------------- MODULE MCVirtualService --------------------------
(***************************************************************************)
(* Two overlapping controllers, and documents that differ in the order of  *)
(* the routes, in a third route, in a second http entry, or lack something.*)
(***************************************************************************)
EXTENDS VirtualService

CONSTANTS stable, canary, mirror

To(host, weight) == [host |-> host, weight |-> weight]

\* As the manifests deploy it; in another order, with an unrelated route that
\* has a weight and an http entry that is not the first.
Plain == <<<<To(stable, 100), To(canary, 0)>>>>

Mirrored ==
  <<<<To(canary, 30), To(mirror, 5), To(stable, 70)>>,
    <<To(stable, 60), To(canary, 40)>>>>

MCDocs == {Plain, Mirrored, <<NoRoute>>, <<>>, Absent}
=============================================================================
