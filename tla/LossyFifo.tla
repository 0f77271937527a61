----------------------------- MODULE LossyFifo -----------------------------
(* What AudioInterface promises the two threads that share its ring: a bounded
   first-in first-out queue of whole frames that rejects the newest frame,
   and only that one, when the producer finds it full, and that hands the
   consumer a run of its oldest frames at a time.                            *)
EXTENDS Integers, Sequences

CONSTANTS Frames, Capacity

VARIABLES
    queue,   \* the frames published and not yet handed over
    lost,    \* how many frames were rejected
    played   \* the frames handed over, in order

vars == <<queue, lost, played>>

Init == queue = << >> /\ lost = 0 /\ played = << >>

Accept ==
    /\ Len(queue) < Capacity
    /\ \E frame \in Frames : queue' = Append(queue, frame)
    /\ UNCHANGED <<lost, played>>

Reject ==
    /\ Len(queue) = Capacity
    /\ lost' = lost + 1
    /\ UNCHANGED <<queue, played>>

Play ==
    \E k \in 1 .. Len(queue) :
        /\ played' = played \o SubSeq(queue, 1, k)
        /\ queue' = SubSeq(queue, k + 1, Len(queue))
        /\ UNCHANGED lost

Next == Accept \/ Reject \/ Play

Spec == Init /\ [][Next]_vars

\* A frame that was accepted does not wait for ever.
FairSpec == Spec /\ WF_vars(Play)

=============================================================================
