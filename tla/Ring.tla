-------------------------------- MODULE Ring --------------------------------
(***************************************************************************)
(* The assignment ring of internal/domain/rm/ring.go: capacity-aware       *)
(* round-robin over the active Relationship Managers.  A ring is a         *)
(* sequence of slots in created_at order, a slot being                     *)
(* [rm |-> id, max |-> MaxPortfolios, clients |-> ClientCount].            *)
(* Positions are 1-based here and 0-based in the code.                     *)
(***************************************************************************)
EXTENDS Integers, Sequences

(* Slip: an RM at the limit still counts as having room.                   *)
HasCapacityAtLimit(slot) == slot.clients <= slot.max

HasCapacity(slot) == slot.clients < slot.max

(* No RM of the desk has room: PickNextRM reports overflow.                *)
DeskFull(ring) == \A i \in DOMAIN ring : ~ HasCapacity(ring[i])

Least(S) == CHOOSE i \in S : \A j \in S : i <= j

(* Positions of the RM assigned last; empty when it has left the ring.     *)
PositionsOf(ring, after) == {i \in DOMAIN ring : ring[i].rm = after}

(* Slip: the lap starts at the RM assigned last, not after it.             *)
StartOfSame(ring, after) ==
    LET at == PositionsOf(ring, after) IN IF at = {} THEN 1 ELSE Least(at)

(* Where the lap starts: just after `after`, or at the head.               *)
StartOf(ring, after) ==
    LET at == PositionsOf(ring, after) IN
    IF at = {} \/ Least(at) = Len(ring) THEN 1 ELSE Least(at) + 1

(* The position `off` places after `start`, around the ring.               *)
Around(ring, start, off) ==
    IF start + off > Len(ring) THEN start + off - Len(ring) ELSE start + off

(* Offsets of one full lap at which there is an RM with room.              *)
RoomyOffsets(ring, after) ==
    {off \in 0 .. Len(ring) - 1 :
        HasCapacity(ring[Around(ring, StartOf(ring, after), off)])}

(* The globally least loaded slots, for a desk that is full.               *)
LeastLoaded(ring) ==
    {i \in DOMAIN ring :
        \A j \in DOMAIN ring : ring[i].clients <= ring[j].clients}

PickedPosition(ring, after) ==
    LET roomy == RoomyOffsets(ring, after) IN
    IF roomy # {}
    THEN Around(ring, StartOf(ring, after), Least(roomy))
    ELSE Least(LeastLoaded(ring))

(* The RM the next client goes to; only asked of a ring that is not empty. *)
PickNextRM(ring, after) == ring[PickedPosition(ring, after)].rm
=============================================================================
