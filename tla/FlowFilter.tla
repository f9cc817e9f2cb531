----------------------------- MODULE FlowFilter -----------------------------
(***************************************************************************)
(* What the engine promises about a capture, whatever its threads do: for  *)
(* each flow, packets are judged in capture order and exactly once, being  *)
(* dropped or put on their way to the output file; the file receives them  *)
(* in that order; the run ends only when nothing is on its way.  It does   *)
(* not promise that every packet is judged before the end (main.cpp stops  *)
(* the threads after a fixed delay).                                       *)
(***************************************************************************)
EXTENDS Naturals, Sequences

CONSTANTS Tuples, Capture

VARIABLES read,       \* packets taken from the capture so far
          waiting,    \* waiting[t]: packets of flow t not judged yet
          leaving,    \* packets forwarded and not yet in the file
          written,    \* the file
          discarded,  \* the packets dropped
          finished    \* the run is over

vars == <<read, waiting, leaving, written, discarded, finished>>

Init ==
    /\ read = 0
    /\ waiting = [t \in Tuples |-> {}]
    /\ leaving = <<>> /\ written = <<>> /\ discarded = {}
    /\ finished = FALSE

Read ==
    /\ ~finished /\ read < Len(Capture)
    /\ read' = read + 1
    /\ waiting' = IF Capture[read'] \in Tuples
                  THEN [waiting EXCEPT ![Capture[read']] = @ \cup {read'}]
                  ELSE waiting
    /\ UNCHANGED <<leaving, written, discarded, finished>>

\* The packet of flow t whose turn it is.
Oldest(t) == {job \in waiting[t] : \A other \in waiting[t] : job <= other}

Drop(t) ==
    /\ ~finished
    /\ \E job \in Oldest(t) :
         /\ discarded' = discarded \cup {job}
         /\ waiting' = [waiting EXCEPT ![t] = @ \ {job}]
    /\ UNCHANGED <<read, leaving, written, finished>>

Forward(t) ==
    /\ ~finished
    /\ \E job \in Oldest(t) :
         /\ leaving' = Append(leaving, job)
         /\ waiting' = [waiting EXCEPT ![t] = @ \ {job}]
    /\ UNCHANGED <<read, written, discarded, finished>>

Write ==
    /\ ~finished /\ leaving # <<>>
    /\ written' = Append(written, Head(leaving))
    /\ leaving' = Tail(leaving)
    /\ UNCHANGED <<read, waiting, discarded, finished>>

Finish ==
    /\ ~finished /\ read = Len(Capture) /\ leaving = <<>>
    /\ finished' = TRUE
    /\ UNCHANGED <<read, waiting, leaving, written, discarded>>

Next == Read \/ Write \/ Finish \/ \E t \in Tuples : Drop(t) \/ Forward(t)

Spec == Init /\ [][Next]_vars

=============================================================================
