---------------------------- MODULE MCDecisions ----------------------------
(* A run of the carrier's and one of a scenario. One leg between two       *)
(* locations; a plan moves boxes of both types on it, or moves one and     *)
(* leases, or does nothing. The second move asks for more than the seeded  *)
(* port has.                                                               *)
EXTENDS Decisions, TLC

CONSTANTS r1, r2, leg, shanghai, rotterdam, CNSHA, NLRTM, dry20, dry40

Move(t, q) == [kind |-> "REPOSITIONING_DISPATCHED", place |-> leg,
               type |-> t, quantity |-> q]
Hire(t, q) == [kind |-> "LEASE_ORDERED", place |-> rotterdam,
               type |-> t, quantity |-> q]

MCFrom == leg :> shanghai
MCResults == {{}, {Move(dry20, 1), Move(dry40, 2)},
              {Move(dry20, 2), Hire(dry20, 1)}}
MCPortOf == (shanghai :> CNSHA) @@ (rotterdam :> NLRTM)
MCEquipmentOf == (dry20 :> "20DC") @@ (dry40 :> "40DC")
MCStock == [k \in {CNSHA, NLRTM} \X {"20DC", "40DC"} |-> 1]
=============================================================================
