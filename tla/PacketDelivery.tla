--------------------------- MODULE PacketDelivery ---------------------------
(***************************************************************************)
(* What the container promises to the decoders: the packets the converters *)
(* made are handed over one by one, in order and with every byte as it     *)
(* was, up to the first one whose bytes in the file were damaged.          *)
(***************************************************************************)
EXTENDS Naturals, Sequences

VARIABLES
    packets,    \* the packets written
    intact,     \* how many of them, from the first, are as they were written
    delivered   \* those handed over

deliveryVars == <<packets, intact, delivered>>

Init ==
    /\ intact \in 0 .. Len(packets)
    /\ delivered = <<>>

Faithful(seq) ==
    \A i \in DOMAIN seq : i <= intact => seq[i] = packets[i]

Deliver ==
    /\ Len(delivered') = Len(delivered) + 1
    /\ SubSeq(delivered', 1, Len(delivered)) = delivered
    /\ Faithful(delivered')
    /\ UNCHANGED <<packets, intact>>

AllDelivered == Len(delivered) >= intact

Spec == Init /\ [][Deliver]_deliveryVars /\ <>AllDelivered
=============================================================================
