----------------------------- MODULE AudioRing -----------------------------
(* The stereo-frame ring between the emulator thread and SDL's audio thread:
   AudioInterface::push_frame (the producer, called while an AI DMA plays)
   and AudioInterface::pull_frames (the consumer, called by
   AudioOutput::audio_callback).  The two threads share ring_, ring_r_ and
   ring_w_ and hold no lock, so every access to shared memory is a step of its
   own, the left and the right sample of a frame included.  A load of a
   thread's own cursor is merged with the step that follows it: nobody else
   stores to it.  The stores to the cursors release and the opposite loads
   acquire, which is what lets the steps interleave as if memory were
   sequentially consistent.

   AudioInterface::reset is the initial state: the application resets the
   machine only while no audio device is open.                               *)
EXTENDS Integers, Sequences

CONSTANTS
    RingFrames,   \* kRingFrames, the capacity in stereo frames
    PullSizes,    \* the max_frames a callback may ask for
    MaxPushes     \* bound of the model: calls of push_frame

ASSUME RingFramesAssumption == RingFrames \in Nat \ {0}
ASSUME PullSizesAssumption  == PullSizes \subseteq Nat
ASSUME MaxPushesAssumption  == MaxPushes \in Nat

VARIABLES
    ring,           \* slot -> the left and the right sample it holds
    ring_r, ring_w, \* the free-running cursors
    producer,       \* where push_frame stands
    samples_pushed, frames_dropped,
    consumer,       \* where pull_frames stands
    n,              \* pull_frames: the frames this call will take
    f,              \* pull_frames: the frames copied so far
    out,            \* pull_frames: what it has put in the caller's buffer
    accepted,       \* history: the frames published, in order
    delivered       \* history: the frames handed to SDL, in order

producerVars == <<producer, samples_pushed, frames_dropped, accepted>>
consumerVars == <<consumer, n, f, out, delivered>>
vars == <<ring, ring_r, ring_w, producerVars, consumerVars>>

\* The k-th call of push_frame carries samples k, so a sample tells which call
\* wrote it; 0 is the silence reset() fills the ring with.
Sample == 0 .. MaxPushes
Stereo == [left : Sample, right : Sample]
Frame(k) == [left |-> k, right |-> k]

SlotByMask(k) == k % (RingFrames - 1)   \* mutant of Slot: the mask as modulus
Slot(k) == k % RingFrames

Init ==
    /\ ring = [s \in 0 .. RingFrames - 1 |-> Frame(0)]
    /\ ring_r = 0 /\ ring_w = 0
    /\ producer = "idle" /\ samples_pushed = 0 /\ frames_dropped = 0
    /\ consumer = "idle" /\ n = 0 /\ f = 0 /\ out = << >>
    /\ accepted = << >> /\ delivered = << >>

-----------------------------------------------------------------------------
(* The producer.                                                             *)

FullTooLate  == ring_w - ring_r > RingFrames       \* mutants of Full
FullTooEarly == ring_w - ring_r >= RingFrames - 1

\* The producer's view of a full ring, once it has loaded ring_r_.
Full == ring_w - ring_r >= RingFrames

\* push_frame up to its decision: the call is counted and a full ring rejects
\* the newest frame.
PushReject ==
    /\ producer = "idle" /\ samples_pushed < MaxPushes
    /\ Full
    /\ samples_pushed' = samples_pushed + 1
    /\ frames_dropped' = frames_dropped + 1
    /\ UNCHANGED <<ring, ring_r, ring_w, producer, accepted, consumerVars>>

PushBegin ==
    /\ producer = "idle" /\ samples_pushed < MaxPushes
    /\ ~Full
    /\ samples_pushed' = samples_pushed + 1
    /\ producer' = "left"
    /\ UNCHANGED <<ring, ring_r, ring_w, frames_dropped, accepted, consumerVars>>

PushLeft ==
    /\ producer = "left"
    /\ ring' = [ring EXCEPT ![Slot(ring_w)].left = samples_pushed]
    /\ producer' = "right"
    /\ UNCHANGED <<ring_r, ring_w, samples_pushed, frames_dropped, accepted,
                   consumerVars>>

PushRight ==
    /\ producer = "right"
    /\ ring' = [ring EXCEPT ![Slot(ring_w)].right = samples_pushed]
    /\ producer' = "publish"
    /\ UNCHANGED <<ring_r, ring_w, samples_pushed, frames_dropped, accepted,
                   consumerVars>>

\* The release store that makes the frame visible.
PushPublish ==
    /\ producer = "publish"
    /\ ring_w' = ring_w + 1
    /\ accepted' = Append(accepted, samples_pushed)
    /\ producer' = "idle"
    /\ UNCHANGED <<ring, ring_r, samples_pushed, frames_dropped, consumerVars>>

Producer == PushLeft \/ PushRight \/ PushPublish

-----------------------------------------------------------------------------
(* The consumer.                                                             *)

\* How many frames a call takes, once it has loaded ring_w_.
Take(max_frames) ==
    IF max_frames <= ring_w - ring_r THEN max_frames ELSE ring_w - ring_r

\* The early returns: nothing was asked for, or nothing is buffered.
PullNothing ==
    /\ consumer = "idle"
    /\ \E max_frames \in PullSizes : max_frames = 0 \/ ring_w <= ring_r
    /\ UNCHANGED vars

\* Past them, what this call will take is fixed.
PullBegin ==
    /\ consumer = "idle"
    /\ \E max_frames \in PullSizes \ {0} : n' = Take(max_frames)
    /\ ring_w > ring_r
    /\ consumer' = "left"
    /\ UNCHANGED <<ring, ring_r, ring_w, producerVars, f, out, delivered>>

PullLeft ==
    /\ consumer = "left"
    /\ out' = Append(out, [left |-> ring[Slot(ring_r + f)].left, right |-> 0])
    /\ consumer' = "right"
    /\ UNCHANGED <<ring, ring_r, ring_w, producerVars, n, f, delivered>>

\* Mutant: the copy stops one frame short of what is given back.
PullRightStopsShort ==
    /\ consumer = "right"
    /\ out' = [out EXCEPT ![f + 1].right = ring[Slot(ring_r + f)].right]
    /\ f' = f + 1
    /\ consumer' = IF f + 1 >= n - 1 THEN "publish" ELSE "left"
    /\ UNCHANGED <<ring, ring_r, ring_w, producerVars, n, delivered>>

PullRight ==
    /\ consumer = "right"
    /\ out' = [out EXCEPT ![f + 1].right = ring[Slot(ring_r + f)].right]
    /\ f' = f + 1
    /\ consumer' = IF f + 1 = n THEN "publish" ELSE "left"
    /\ UNCHANGED <<ring, ring_r, ring_w, producerVars, n, delivered>>

\* The release store that gives the slots back to the producer.
PullPublish ==
    /\ consumer = "publish"
    /\ ring_r' = ring_r + n
    /\ delivered' = delivered \o out
    /\ n' = 0 /\ f' = 0 /\ out' = << >>
    /\ consumer' = "idle"
    /\ UNCHANGED <<ring, ring_w, producerVars>>

Consumer == PullBegin \/ PullLeft \/ PullRight \/ PullPublish

Next == PushReject \/ PushBegin \/ Producer \/ Consumer \/ PullNothing

Spec == Init /\ [][Next]_vars

\* A push_frame that has begun finishes, and SDL keeps calling the callback of
\* an open device.  Nothing obliges the game to push another frame.
FairSpec == Spec /\ WF_vars(Producer) /\ WF_vars(Consumer)

-----------------------------------------------------------------------------
(* Properties.                                                               *)

\* Every variable of the ring has its type, and a call of pull_frames never
\* takes more frames than the ring holds.
TypeOK ==
    /\ ring \in [0 .. RingFrames - 1 -> Stereo]
    /\ ring_r \in Nat /\ ring_w \in Nat
    /\ producer \in {"idle", "left", "right", "publish"}
    /\ samples_pushed \in Sample /\ frames_dropped \in Nat
    /\ consumer \in {"idle", "left", "right", "publish"}
    /\ n \in 0 .. RingFrames /\ f \in 0 .. RingFrames
    /\ out \in Seq(Stereo)
    /\ accepted \in Seq(Sample) /\ delivered \in Seq(Stereo)

\* No data race on ring_: while push_frame is about to store a sample of a slot,
\* pull_frames is not about to read that slot nor has it still to read it in
\* this call.  A race here is undefined behaviour in C++, not only a click.
NoDataRace ==
    (producer \in {"left", "right"} /\ consumer \in {"left", "right"}) =>
        \A i \in f .. n - 1 : Slot(ring_r + i) # Slot(ring_w)

\* SDL is handed exactly the frames push_frame published, whole, in order,
\* none twice and none skipped: also the frames in the callback's buffer
\* before the cursor has been published.
DeliveredInOrder ==
    /\ Len(delivered) <= Len(accepted)
    /\ \A i \in 1 .. Len(delivered) : delivered[i] = Frame(accepted[i])
    /\ \A i \in 1 .. f : out[i] = Frame(accepted[Len(delivered) + i])

\* A frame that is published and not yet given back is never written over, nor
\* its slot reused, by any step of either thread: what "never [...] overwrite
\* unread data" in push_frame asks for.
UnreadUntouched ==
    [][\A k \in ring_r' .. ring_w - 1 : ring'[Slot(k)] = ring[Slot(k)]]_vars

\* The unread frames: the queue the two threads believe they share.
Queue == [i \in 1 .. ring_w - ring_r |-> Frame(accepted[ring_r + i])]

Fifo == INSTANCE LossyFifo WITH
    Frames <- Stereo,
    Capacity <- RingFrames,
    queue <- Queue,
    lost <- frames_dropped,
    played <- delivered

\* The ring implements the bounded lossy queue: a frame is rejected only when
\* all RingFrames slots hold unread frames, pull_frames hands over a run of
\* the oldest, and an accepted frame is eventually played.
ImplementsLossyFifo == Fifo!FairSpec

=============================================================================
