----------------------------- MODULE MCCapPulse -----------------------------
(* Small instances of CapPulse for TLC: a QOS with caps of 1 CPU per user    *)
(* and 2 per account.                                                        *)
EXTENDS CapPulse

MCInitialCaps == <<1, 2>>

(* Caps an admin sets: higher, lower for one of the two, and none per user.  *)
MCAdminCaps == {<<3, 5>>, <<1, 1>>, <<0, 2>>}
NoAdminCaps == {}
=============================================================================
