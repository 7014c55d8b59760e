------------------------------ MODULE MCSplash ------------------------------
(* Two boot labels, one more than a ring of one slot holds.                  *)
EXTENDS Splash

BootLabels == <<"speaker", "radar">>
=============================================================================
