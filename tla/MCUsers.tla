------------------------------ MODULE MCUsers ------------------------------
(* A table of four users, with web threads beside the IPMI commands and at *)
(* most MaxRequests requests.  The program stops at most MaxStops times,   *)
(* not counting restarts after the last request has come.                  *)
EXTENDS Users, TLC

CONSTANTS MaxRequests, MaxStops

VARIABLES
  requests,  \* requests so far
  stops      \* times the program stopped so far

MCInit == Init /\ requests = 0 /\ stops = 0

MCRequest ==
  /\ ~broken /\ requests < MaxRequests
  /\ Request
  /\ requests' = requests + 1

(* A step that takes the program down is one of the stops, and so is a     *)
(* restart of a program that is up.                                        *)
MCNext ==
  \/ /\ MCRequest \/ (~broken /\ GoOn /\ UNCHANGED requests)
     /\ stops' = IF broken' THEN stops + 1 ELSE stops
     /\ stops' <= MaxStops
  \/ /\ Restart /\ UNCHANGED requests
     /\ stops' = (IF broken THEN stops ELSE stops + 1) + (IF broken' THEN 1 ELSE 0)
     /\ stops' <= MaxStops
  \/ /\ requests = MaxRequests /\ ~broken
     /\ Restart /\ ~broken' /\ UNCHANGED <<requests, stops>>

MCSpec == MCInit /\ [][MCNext]_<<vars, requests, stops>>

(* The web threads are alike. *)
MCSymmetry == Permutations(Threads)
=============================================================================
