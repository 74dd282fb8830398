----------------------------- MODULE MCSensors -----------------------------
EXTENDS Sensors

MCEvents == {0, 1} \X {"UC", "UNC", "LC", "LNC"}
(* Two sensors in different units, with no lower non-critical threshold. *)
MCDefaults ==
  [s \in {0, 1} |-> [uc |-> 4, unc |-> 2, lc |-> 1, lnc |-> 9]]
MCScale == [s \in {0, 1} |-> IF s = 0 THEN 3 ELSE 2]
(* What the web page may send. *)
MCProfiles == {[uc |-> 5, unc |-> 2, lc |-> 1, lnc |-> 1]}
=============================================================================
