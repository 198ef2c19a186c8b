-------------------------- MODULE MCRollingHorizon --------------------------
(* Three drivers and three loads between three places, over two epochs of    *)
(* the rolling runner and three of the stepping one.                         *)
EXTENDS RollingHorizon, TLC

CONSTANTS d1, d2, d3, x, y, z, a, b, c

MCDrivers == {d1, d2, d3}
MCLoads == {x, y, z}
MCPlaces == {a, b, c}
\* x and y go from a to c by way of a hub at b; z comes back from b, which is
\* near c, to a: three loads can make a chain.
MCOrigin == x :> a @@ y :> a @@ z :> b
MCDestination == x :> c @@ y :> c @@ z :> a
MCTransit == x :> 3 @@ y :> 2 @@ z :> 1
MCNear == {<<p, p>> : p \in MCPlaces} \cup {<<b, c>>, <<c, b>>}
MCHubReach == {b, c}
MCLongHaul == {x, y}

At(p, l) == [at |-> p, free |-> 1, assigned |-> l]
\* One driver may be under way to a load when the run starts.
MCInitialFleets ==
  {[drivers |-> d1 :> At(a, NoLoad) @@ d2 :> At(b, NoLoad) @@ d3 :> At(b, l),
    loads |-> L] : l \in {NoLoad, x}, L \in SUBSET MCLoads}
MCStreams == [MCLoads -> {0, 1, 3}]
=============================================================================
