---------------------------- MODULE MCSelFaults ----------------------------
(* A small log whose stores may fail and whose controller may restart.     *)
(* "part" says what a behaviour is about: whole handlers and what they owe *)
(* their callers, or one writer statement by statement; this one adds the  *)
(* same event every time, which "part" then is.                            *)
EXTENDS SelDurable, SelSteps, TLC

CONSTANTS
  MaxHandled,  \* Bound: so many handlers besides restarts
  MaxCalls     \* Bound: so many calls of the writer

VARIABLES part, spent

MCInit == DurInit /\ StepsInit /\ part \in {"handlers"} \cup Events /\ spent = 0

MCNext ==
  /\ UNCHANGED part
  /\ \/ /\ part = "handlers" /\ DurNext /\ UNCHANGED th
        /\ spent' = IF RebootOwing THEN spent ELSE spent + 1
        /\ spent' <= MaxHandled
     \/ /\ part # "handlers" /\ StepsNext /\ UNCHANGED <<owed, kept, synced>>
        /\ \A t \in Threads : th'[t].msg \in {part, FullMark, ClearMark, Blank}
        /\ spent' = IF \E t \in Threads : At(t, "idle") /\ th'[t].pc # "idle"
                    THEN spent + 1 ELSE spent
        /\ spent' <= MaxCalls

MCSpec == MCInit /\ [][MCNext]_<<vars, owed, kept, synced, th, part, spent>>

Interchangeable == Permutations(Events)
=============================================================================
