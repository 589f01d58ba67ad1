----------------------------- MODULE MCPlaceJob -----------------------------
(* A cluster of three nodes in a slim and a fat partition that share one,   *)
(* for TLC; memory in quarters of a GB, and time in steps.                  *)
EXTENDS PlaceJob, TLC

CONSTANTS n1, n2, n3, slim, fat, r1, r2

Shape(c, m) == [cpus |-> c, mem |-> m]
Batch(c, m, limit, opts) == [cpus |-> c, mem |-> m, limit |-> limit, opts |-> opts]
On(n, c, m) == [o \in Nodes |-> IF o = n THEN Shape(c, m) ELSE Shape(0, 0)]
Spread(on) == [o \in Nodes |-> IF o \in DOMAIN on THEN on[o] ELSE Shape(0, 0)]
Other(at, limit) == [at |-> at, limit |-> limit]
InResv(r, at, limit) == [resv |-> r, at |-> at, limit |-> limit]

MCTotal == n1 :> Shape(4, 8) @@ n2 :> Shape(4, 8) @@ n3 :> Shape(4, 32)
MCPartsOf == n1 :> {slim} @@ n2 :> {slim, fat} @@ n3 :> {fat}
MCTier == slim :> 2 @@ fat :> 1
MCNodeOrder == n1 :> 1 @@ n2 :> 2 @@ n3 :> 3
MCPartOrder == slim :> 2 @@ fat :> 1
MCDemand == {[q |-> 4, w |-> 1], [q |-> 16, w |-> 1]}
MCMpcEdges == <<2, 4>>
MCCpuEdges == <<2>>
MCRatioGain == <<11, 10>>

(* Half of n1 late in the run; half of n2 and all of n3 in the middle of it. *)
MCReservations ==
    {[name |-> r1, nodes |-> n1 :> 1, start |-> 2, end |-> 4],
     [name |-> r2, nodes |-> n2 :> 1 @@ n3 :> Whole, start |-> 1, end |-> 2]}

(* Shapes in every bucket, one that is larger than its bucket's shape, one  *)
(* that no node can hold, one below MemFloor, one without a limit, and jobs *)
(* with options.                                                            *)
MCJobTypes == {Batch(1, 2, 1, {}), Batch(1, 8, 1, {}), Batch(2, 4, 2, {"onenode"}),
               Batch(1, 12, 1, {}), Batch(3, 3, NoLimit, {}), Batch(1, 40, 1, {}),
               Batch(2, 16, 2, {"tasks"}), Batch(1, 1, 1, {}),
               Batch(1, 6, 1, {"held"}), Batch(1, 6, 1, {"nomem"}),
               Batch(1, 12, 1, {"reservation"}), Batch(2, 8, 1, {"defaultqos"})}
(* The last one leaves the whole cluster little to lose.                    *)
MCOtherTypes == {Other(On(n, 1, 5), 1) : n \in Nodes}
                \cup {Other(Spread(n1 :> Shape(1, 4) @@ n2 :> Shape(3, 2)), 2),
                      Other(Spread(n1 :> Shape(1, 4) @@ n2 :> Shape(4, 2) @@ n3 :> Shape(1, 29)), 1)}

(* In r2: on one of its nodes, even over both, and uneven.                  *)
MCReservedTypes ==
    {InResv(r2, On(n3, 2, 4), 1), InResv(r2, Spread(n2 :> Shape(1, 2) @@ n3 :> Shape(1, 2)), 1),
     InResv(r2, Spread(n2 :> Shape(2, 2) @@ n3 :> Shape(1, 4)), 1)}

(* A slim partition of two unlike nodes, one of more CPUs and one of more   *)
(* memory, and a fat one that holds whatever either holds.                  *)
MixedTotal == n1 :> Shape(4, 10) @@ n2 :> Shape(2, 16) @@ n3 :> Shape(4, 64)
MixedPartsOf == n1 :> {slim} @@ n2 :> {slim} @@ n3 :> {fat}
MixedJobTypes == {Batch(4, 12, 1, {}), Batch(1, 2, 1, {})}
=============================================================================
