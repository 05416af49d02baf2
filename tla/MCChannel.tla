------------------------------ MODULE MCChannel ------------------------------
(***************************************************************************)
(* Two senders and two receivers on the smallest ring that wraps: two      *)
(* slots, three items, so that the ring fills up and a slot is reused.     *)
(***************************************************************************)
EXTENDS Channel, TLC

CONSTANTS s1, s2, r1, r2

MCCap == RoundUp(2)
MCOneSlot == RoundUp(1)
MCItemsPer == s1 :> 2 @@ s2 :> 1
MCCalls == s1 :> {"block"} @@ s2 :> {"try"} @@ r1 :> {"block", "eof"} @@ r2 :> {"try", "eof"}
==============================================================================
