---------------------------- MODULE ReviewedWrite ----------------------------
(***************************************************************************)
(* What delivery promises about every reviewed target, with no worker, no  *)
(* lock, no crash and no record in sight: an approved edit is put in place *)
(* once, then acknowledged; or it is dropped and is not in place.  The     *)
(* only excuse for anything else is that the operator changed the content  *)
(* by hand.  Edits that share a file or a branch go through one at a time. *)
(***************************************************************************)
CONSTANTS Rows, Place, Lane   \* a row's destination, and its file or branch

VARIABLES
    phase,   \* of each row: none, approved, live, acknowledged or dropped
    hand     \* places changed by hand since the last write there

-----------------------------------------------------------------------------
Init ==
    /\ phase = [r \in Rows |-> "none"]
    /\ hand = {}

ApproveRows(new) ==
    /\ \A r \in new : phase[r] = "none"
    /\ phase' = [r \in Rows |-> IF r \in new THEN "approved" ELSE phase[r]]
    /\ UNCHANGED hand

\* A second write needs a hand change in between.
Write(r) ==
    /\ phase[r] = "approved" \/ (phase[r] = "live" /\ Place[r] \in hand)
    /\ \A q \in Rows \ {r} : Lane[q] = Lane[r] => phase[q] # "live"
    /\ phase' = [phase EXCEPT ![r] = "live"]
    /\ hand' = hand \ {Place[r]}

AcknowledgeRow(r) ==
    /\ phase[r] = "live" \/ (phase[r] = "approved" /\ Place[r] \in hand)
    /\ phase' = [phase EXCEPT ![r] = "acknowledged"]
    /\ UNCHANGED hand

Drop(r) ==
    /\ phase[r] = "approved" \/ (phase[r] = "live" /\ Place[r] \in hand)
    /\ phase' = [phase EXCEPT ![r] = "dropped"]
    /\ UNCHANGED hand

HandChange ==
    /\ \E places \in SUBSET {Place[r] : r \in Rows} : hand' = hand \cup places
    /\ UNCHANGED phase

Next ==
    \/ \E new \in SUBSET Rows : ApproveRows(new)
    \/ \E r \in Rows : Write(r) \/ AcknowledgeRow(r) \/ Drop(r)
    \/ HandChange

Spec == Init /\ [][Next]_<<phase, hand>>
=============================================================================
