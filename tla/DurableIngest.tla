---------------------------- MODULE DurableIngest ----------------------------
(***************************************************************************)
(* What the ingestion spine promises about one source, whoever drives it:  *)
(* captured rows arrive, each is settled by durable state (stored, denied  *)
(* or empty), and the confirmed position covers settled rows only.         *)
(* Delivery is at least once: a confirmed position may move back.          *)
(***************************************************************************)
EXTENDS Naturals

VARIABLES
    arrived,    \* rows the source has
    settled,    \* rows whose fate is durable
    confirmed   \* the position from which ingestion resumes

vars == <<arrived, settled, confirmed>>

Init ==
    /\ arrived = 0
    /\ settled = {}
    /\ confirmed = 0

(* A row arrives; one without text is settled as it arrives.                 *)
Arrive ==
    /\ arrived' = arrived + 1
    /\ settled' \in {settled, settled \cup {arrived + 1}}
    /\ UNCHANGED confirmed

(* One durable write settles rows: the item it is for, and any earlier row   *)
(* of the same content that a crash left with a receipt only.                *)
Settle ==
    /\ settled' \in SUBSET (1..arrived)
    /\ settled \subseteq settled'
    /\ UNCHANGED <<arrived, confirmed>>

(* The position moves forward over settled rows.                             *)
Confirm ==
    /\ confirmed' \in confirmed..arrived
    /\ 1..confirmed' \subseteq settled
    /\ UNCHANGED <<arrived, settled>>

(* A failed read of the position is taken for "never consumed".              *)
Rewind ==
    /\ confirmed' \in 0..confirmed
    /\ UNCHANGED <<arrived, settled>>

Next == Arrive \/ Settle \/ Confirm \/ Rewind

Spec == Init /\ [][Next]_vars
=============================================================================
