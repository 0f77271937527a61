-------------------------- MODULE AudioRingProofs --------------------------
(* The ring's safety for every capacity, every sequence of requests and every
   number of frames.

   DeliveredInOrder and NoDataRace are not inductive: they say nothing of the
   slots in between.  The invariant adds the distance of the two cursors, what
   each thread knows of its own position, and above all Unread: each slot
   between the cursors holds the frame that was published with its index.
   Unread survives the producer's stores because two indices less than
   RingFrames apart have different slots (SlotsDiffer).                      *)
EXTENDS AudioRing, SequenceTheorems, TLAPS

-----------------------------------------------------------------------------

\* How far apart the cursors may be; the slot being filled is a free one.
Cursors ==
    /\ 0 <= ring_w - ring_r
    /\ ring_w - ring_r <= RingFrames
    /\ producer # "idle" => ring_w - ring_r < RingFrames

\* What pull_frames is doing, seen from the cursors.
Pulling ==
    /\ consumer # "idle" => n \in 1 .. ring_w - ring_r
    /\ consumer = "idle" => n = 0 /\ f = 0
    /\ consumer \in {"left", "right"} => f < n
    /\ consumer = "publish" => f = n
    /\ Len(out) = IF consumer = "right" THEN f + 1 ELSE f

\* What push_frame has already stored.
Pushing ==
    /\ producer # "idle" => samples_pushed > 0
    /\ producer \in {"right", "publish"} =>
            ring[Slot(ring_w)].left = samples_pushed
    /\ producer = "publish" => ring[Slot(ring_w)].right = samples_pushed

\* The histories and the cursors count the same frames.
Histories ==
    /\ Len(accepted) = ring_w
    /\ Len(delivered) = ring_r

\* The slots between the cursors hold the published frames.
Unread ==
    \A k \in ring_r .. ring_w - 1 : ring[Slot(k)] = Frame(accepted[k + 1])

\* The frames already handed over, and those in the caller's buffer.
Copied ==
    /\ \A i \in 1 .. Len(delivered) : delivered[i] = Frame(accepted[i])
    /\ \A i \in 1 .. f : out[i] = Frame(accepted[ring_r + i])
    /\ consumer = "right" =>
            out[f + 1] = [left |-> accepted[ring_r + f + 1], right |-> 0]

IInv ==
    /\ TypeOK
    /\ Cursors
    /\ Pulling
    /\ Pushing
    /\ Histories
    /\ Unread
    /\ Copied

-----------------------------------------------------------------------------
(* Slots.                                                                    *)

LEMMA SlotInRange ==
    ASSUME NEW k \in Nat
    PROVE  Slot(k) \in 0 .. RingFrames - 1
BY RingFramesAssumption DEF Slot

\* A multiple of a positive number is zero, or at least that number away.
LEMMA MultipleApart ==
    ASSUME NEW N \in Nat \ {0}, NEW q \in Int, 0 < N * q
    PROVE  N <= N * q
<1>1. q >= 1
  BY SMT
<1>2. N * q - N = N * (q - 1)
  BY SMT
<1>3. N * (q - 1) >= 0
  BY <1>1, SMT
<1> QED BY <1>2, <1>3

\* push_frame's free slot and pull_frames's unread slots are different ones:
\* the masks of two indices differ when they are less than the ring apart.
LEMMA SlotsDiffer ==
    ASSUME NEW a \in Nat, NEW b \in Nat, a < b, b - a < RingFrames
    PROVE  Slot(a) # Slot(b)
<1> DEFINE N == RingFrames
<1>0. N \in Nat \ {0}
  BY RingFramesAssumption
<1>1. a = N * (a \div N) + Slot(a) /\ a \div N \in Int
  BY <1>0, SMT DEF Slot
<1>2. b = N * (b \div N) + Slot(b) /\ b \div N \in Int
  BY <1>0, SMT DEF Slot
<1> SUFFICES ASSUME Slot(a) = Slot(b) PROVE FALSE
  OBVIOUS
<1> DEFINE q == (b \div N) - (a \div N)
<1>3. q \in Int /\ N * q = N * (b \div N) - N * (a \div N)
  BY <1>0, <1>1, <1>2, SMT
<1>4. N * q = b - a
  <2>1. Slot(a) \in Int /\ Slot(b) \in Int
    BY SlotInRange
  <2> QED BY <1>0, <1>1, <1>2, <1>3, <2>1
<1>5. N <= N * q
  <2>1. 0 < N * q
    BY <1>4
  <2> HIDE DEF N, q
  <2> QED BY <1>0, <1>3, <2>1, MultipleApart
<1> QED BY <1>0, <1>4, <1>5

-----------------------------------------------------------------------------
(* The invariant.                                                            *)

LEMMA InitInv == Init => IInv
<1> USE RingFramesAssumption, MaxPushesAssumption
<1> SUFFICES ASSUME Init PROVE IInv
  OBVIOUS
<1>1. << >> \in Seq(Stereo) /\ << >> \in Seq(Sample) /\ Len(<< >>) = 0
  BY EmptySeq
<1>2. TypeOK
  BY <1>1 DEF Init, TypeOK, Stereo, Sample, Frame
<1> QED
  BY <1>1, <1>2 DEF Init, IInv, Cursors, Pulling, Pushing, Histories, Unread, Copied

LEMMA PushRejectInv == IInv /\ PushReject => IInv'
<1> USE RingFramesAssumption, MaxPushesAssumption
<1> SUFFICES ASSUME IInv, PushReject PROVE IInv'
  OBVIOUS
<1>1. TypeOK'
  BY DEF IInv, TypeOK, PushReject, Sample, Stereo, consumerVars
<1>2. Cursors' /\ Pulling' /\ Pushing' /\ Histories' /\ Unread' /\ Copied'
  BY DEF IInv, TypeOK, Sample, PushReject, consumerVars, Cursors, Pulling, Pushing,
         Histories, Unread, Copied
<1> QED BY <1>1, <1>2 DEF IInv

LEMMA PushBeginInv == IInv /\ PushBegin => IInv'
<1> USE RingFramesAssumption, MaxPushesAssumption
<1> SUFFICES ASSUME IInv, PushBegin PROVE IInv'
  OBVIOUS
<1>1. TypeOK'
  BY DEF IInv, TypeOK, PushBegin, Sample, Stereo, consumerVars
<1>2. Cursors'
  BY DEF IInv, TypeOK, Cursors, PushBegin, Full
<1>3. Pushing'
  BY DEF IInv, TypeOK, Sample, PushBegin, Pushing
<1>4. Pulling' /\ Histories'
  BY DEF IInv, PushBegin, consumerVars, Pulling, Histories
<1>5. Unread' /\ Copied'
  BY DEF IInv, PushBegin, consumerVars, Unread, Copied
<1> QED BY <1>1, <1>2, <1>3, <1>4, <1>5 DEF IInv

\* A store into the free slot leaves every unread slot alone.
LEMMA FreeSlot ==
    ASSUME IInv, producer # "idle"
    PROVE  /\ Slot(ring_w) \in 0 .. RingFrames - 1
           /\ \A k \in ring_r .. ring_w - 1 :
                /\ Slot(k) \in 0 .. RingFrames - 1
                /\ Slot(k) # Slot(ring_w)
<1>1. ring_r \in Nat /\ ring_w \in Nat /\ ring_w - ring_r < RingFrames
  BY DEF IInv, TypeOK, Cursors
<1>2. Slot(ring_w) \in 0 .. RingFrames - 1
  BY <1>1, SlotInRange
<1>3. ASSUME NEW k \in ring_r .. ring_w - 1
      PROVE  Slot(k) \in 0 .. RingFrames - 1 /\ Slot(k) # Slot(ring_w)
  <2>1. k \in Nat /\ k < ring_w /\ ring_w - k < RingFrames
    BY <1>1, <1>3, RingFramesAssumption
  <2> QED BY <1>1, <2>1, SlotInRange, SlotsDiffer
<1> QED BY <1>2, <1>3

LEMMA PushLeftInv == IInv /\ PushLeft => IInv'
<1> USE RingFramesAssumption, MaxPushesAssumption
<1> SUFFICES ASSUME IInv, PushLeft PROVE IInv'
  OBVIOUS
<1>0. producer # "idle"
  BY DEF PushLeft
<1>1. TypeOK'
  BY <1>0, FreeSlot DEF IInv, TypeOK, PushLeft, Sample, Stereo, consumerVars
<1>2. Unread'
  BY <1>0, FreeSlot DEF IInv, TypeOK, PushLeft, Unread
<1>3. Pushing'
  BY <1>0, FreeSlot DEF IInv, TypeOK, PushLeft, Pushing, Stereo
<1>4. Cursors' /\ Pulling' /\ Histories' /\ Copied'
  BY DEF IInv, TypeOK, PushLeft, consumerVars, Cursors, Pulling, Histories, Copied
<1> QED BY <1>1, <1>2, <1>3, <1>4 DEF IInv

LEMMA PushRightInv == IInv /\ PushRight => IInv'
<1> USE RingFramesAssumption, MaxPushesAssumption
<1> SUFFICES ASSUME IInv, PushRight PROVE IInv'
  OBVIOUS
<1>0. producer # "idle"
  BY DEF PushRight
<1>1. TypeOK'
  BY <1>0, FreeSlot DEF IInv, TypeOK, PushRight, Sample, Stereo, consumerVars
<1>2. Unread'
  BY <1>0, FreeSlot DEF IInv, TypeOK, PushRight, Unread
<1>3. Pushing'
  BY <1>0, FreeSlot DEF IInv, TypeOK, PushRight, Pushing, Stereo
<1>4. Cursors' /\ Pulling' /\ Histories' /\ Copied'
  BY DEF IInv, TypeOK, PushRight, consumerVars, Cursors, Pulling, Histories, Copied
<1> QED BY <1>1, <1>2, <1>3, <1>4 DEF IInv

LEMMA PushPublishInv == IInv /\ PushPublish => IInv'
<1> USE RingFramesAssumption, MaxPushesAssumption
<1> SUFFICES ASSUME IInv, PushPublish PROVE IInv'
  OBVIOUS
<1>0. producer # "idle"
  BY DEF PushPublish
<1>1. /\ accepted' \in Seq(Sample)
      /\ Len(accepted') = ring_w + 1
      /\ \A i \in 1 .. ring_w : accepted'[i] = accepted[i]
      /\ accepted'[ring_w + 1] = samples_pushed
  BY AppendProperties DEF IInv, TypeOK, Histories, PushPublish
<1>2. TypeOK'
  BY <1>1 DEF IInv, TypeOK, PushPublish, Sample, Stereo, consumerVars
<1>3. ring[Slot(ring_w)] = Frame(samples_pushed)
  BY FreeSlot DEF IInv, TypeOK, Pushing, PushPublish, Stereo, Frame
<1>4. Unread'
  <2>0. ring' = ring /\ ring_r' = ring_r /\ ring_w' - 1 = ring_w
    BY DEF PushPublish, IInv, TypeOK
  <2> SUFFICES ASSUME NEW k \in ring_r .. ring_w
               PROVE  ring[Slot(k)] = Frame(accepted'[k + 1])
    BY <2>0 DEF Unread
  <2>1. CASE k = ring_w
    BY <1>1, <1>3, <2>1
  <2>2. CASE k \in ring_r .. ring_w - 1
    <3>1. accepted'[k + 1] = accepted[k + 1]
      <4>1. k + 1 \in 1 .. ring_w
        BY <2>2 DEF IInv, TypeOK
      <4> QED BY <1>1, <4>1
    <3> QED BY <2>2, <3>1 DEF IInv, Unread
  <2> QED BY <2>1, <2>2 DEF IInv, TypeOK
<1>5. Copied'
  <2>1. UNCHANGED <<delivered, out, f, ring_r, consumer, n>>
    BY DEF PushPublish, consumerVars
  <2>2. Len(delivered) <= ring_w /\ Len(delivered) \in Nat
    BY DEF IInv, Histories, Cursors, TypeOK
  <2>3. consumer # "idle" => ring_r + n <= ring_w
    BY DEF IInv, Pulling, TypeOK
  <2>4. f \in Nat /\ ring_r \in Nat /\ ring_w \in Nat /\ n \in Nat
    BY DEF IInv, TypeOK
  <2>5. f = 0 \/ ring_r + f <= ring_w
    BY <2>3, <2>4 DEF IInv, Pulling, TypeOK
  <2>6. consumer = "right" => ring_r + f + 1 <= ring_w
    BY <2>3, <2>4 DEF IInv, Pulling
  <2>7. \A i \in 1 .. Len(delivered) : delivered[i] = Frame(accepted'[i])
    BY <1>1, <2>2, <2>4 DEF IInv, Copied
  <2>8. \A i \in 1 .. f : out[i] = Frame(accepted'[ring_r + i])
    BY <1>1, <2>4, <2>5 DEF IInv, Copied
  <2>9. consumer = "right" =>
            out[f + 1] = [left |-> accepted'[ring_r + f + 1], right |-> 0]
    BY <1>1, <2>4, <2>6 DEF IInv, Copied
  <2> QED BY <2>1, <2>7, <2>8, <2>9 DEF Copied
<1>6. Cursors' /\ Pulling' /\ Pushing'
  BY DEF IInv, TypeOK, PushPublish, consumerVars, Cursors, Pulling, Pushing
<1>7. Histories'
  BY <1>1 DEF IInv, PushPublish, consumerVars, Histories
<1> QED BY <1>2, <1>4, <1>5, <1>6, <1>7 DEF IInv

LEMMA PullBeginInv == IInv /\ PullBegin => IInv'
<1> USE RingFramesAssumption, PullSizesAssumption
<1> SUFFICES ASSUME IInv, PullBegin PROVE IInv'
  OBVIOUS
<1>1. n' \in 1 .. ring_w - ring_r /\ ring_w - ring_r <= RingFrames /\ f = 0
  <2>1. PICK max_frames \in PullSizes \ {0} : n' = Take(max_frames)
    BY DEF PullBegin
  <2> QED BY <2>1 DEF Take, IInv, TypeOK, Cursors, Pulling, PullBegin
<1>2. TypeOK'
  BY <1>1 DEF IInv, TypeOK, PullBegin, Sample, Stereo, producerVars
<1>3. Cursors' /\ Pushing' /\ Histories' /\ Unread'
  BY DEF IInv, PullBegin, producerVars, Cursors, Pushing, Histories, Unread
<1>4. Pulling'
  BY <1>1 DEF IInv, TypeOK, PullBegin, Pulling
<1>5. Copied'
  BY <1>1 DEF IInv, TypeOK, PullBegin, producerVars, Copied
<1> QED BY <1>2, <1>3, <1>4, <1>5 DEF IInv

\* The slot pull_frames reads next is one of the unread ones.
LEMMA NextSlot ==
    ASSUME IInv, consumer \in {"left", "right"}
    PROVE  /\ ring_r + f \in ring_r .. ring_w - 1
           /\ Slot(ring_r + f) \in 0 .. RingFrames - 1
           /\ ring[Slot(ring_r + f)] = Frame(accepted[ring_r + f + 1])
           /\ accepted[ring_r + f + 1] \in Sample
<1>1. /\ ring_r \in Nat /\ ring_w \in Nat /\ f \in Nat /\ n \in Nat
      /\ f < n /\ n <= ring_w - ring_r
  BY DEF IInv, TypeOK, Pulling
<1>2. ring_r + f \in ring_r .. ring_w - 1 /\ ring_r + f \in Nat
  BY <1>1
<1>3. ring_r + f + 1 \in 1 .. Len(accepted)
  BY <1>1 DEF IInv, Histories
<1>4. accepted[ring_r + f + 1] \in Sample
  BY <1>3, ElementOfSeq DEF IInv, TypeOK
<1> QED BY <1>2, <1>4, SlotInRange DEF IInv, Unread

LEMMA PullLeftInv == IInv /\ PullLeft => IInv'
<1> USE RingFramesAssumption
<1> SUFFICES ASSUME IInv, PullLeft PROVE IInv'
  OBVIOUS
<1> DEFINE a == accepted[ring_r + f + 1]
           half == [left |-> a, right |-> 0]
<1>1. half \in Stereo /\ out' = Append(out, half)
  BY NextSlot, MaxPushesAssumption DEF PullLeft, Frame, Stereo, Sample
<1>2. /\ out' \in Seq(Stereo)
      /\ Len(out') = f + 1
      /\ \A i \in 1 .. f : out'[i] = out[i]
      /\ out'[f + 1] = half
  BY <1>1, AppendProperties DEF IInv, TypeOK, Pulling, PullLeft
<1>3. TypeOK'
  BY <1>2 DEF IInv, TypeOK, PullLeft, producerVars
<1>4. Cursors' /\ Pushing' /\ Histories' /\ Unread'
  BY DEF IInv, PullLeft, producerVars, Cursors, Pushing, Histories, Unread
<1>5. Pulling'
  BY <1>2 DEF IInv, PullLeft, Pulling
<1>6. Copied'
  <2>1. UNCHANGED <<delivered, accepted, ring_r, f>>
    BY DEF PullLeft, producerVars
  <2> QED BY <1>2, <2>1 DEF IInv, Copied
<1> QED BY <1>3, <1>4, <1>5, <1>6 DEF IInv

LEMMA PullRightInv == IInv /\ PullRight => IInv'
<1> USE RingFramesAssumption
<1> SUFFICES ASSUME IInv, PullRight PROVE IInv'
  OBVIOUS
<1> DEFINE a == accepted[ring_r + f + 1]
<1>0. f \in Nat /\ f < n /\ n \in 0 .. RingFrames /\ Len(out) = f + 1
  BY DEF IInv, TypeOK, Pulling, PullRight
<1>1. out[f + 1] = [left |-> a, right |-> 0] /\ out \in Seq(Stereo) /\ a \in Sample
  BY NextSlot DEF IInv, TypeOK, Copied, PullRight
<1>2. out' = [out EXCEPT ![f + 1] = Frame(a)] /\ Frame(a) \in Stereo
  <2>1. ring[Slot(ring_r + f)].right = a
    BY NextSlot DEF PullRight, Frame
  <2>2. [out[f + 1] EXCEPT !.right = a] = Frame(a)
    BY <1>1 DEF Frame
  <2>3. out' = [out EXCEPT ![f + 1] = [out[f + 1] EXCEPT !.right = a]]
    BY <2>1 DEF PullRight
  <2>4. Frame(a) \in Stereo
    BY <1>1 DEF Frame, Stereo
  <2> QED BY <2>2, <2>3, <2>4
<1>3. /\ out' \in Seq(Stereo)
      /\ Len(out') = f + 1
      /\ \A i \in 1 .. f : out'[i] = out[i]
      /\ out'[f + 1] = Frame(a)
  <2>1. f + 1 \in 1 .. Len(out) /\ 1 .. f \subseteq 1 .. Len(out)
    BY <1>0
  <2> QED BY <1>0, <1>1, <1>2, <2>1, ExceptSeq
<1>4. TypeOK'
  BY <1>0, <1>3 DEF IInv, TypeOK, PullRight, producerVars
<1>5. Cursors' /\ Pushing' /\ Histories' /\ Unread'
  BY DEF IInv, PullRight, producerVars, Cursors, Pushing, Histories, Unread
<1>6. Pulling'
  BY <1>0, <1>3 DEF IInv, PullRight, Pulling, producerVars
<1>7. Copied'
  <2>1. UNCHANGED <<delivered, accepted, ring_r>> /\ f' = f + 1 /\ consumer' # "right"
    BY DEF PullRight, producerVars
  <2>2. \A i \in 1 .. f + 1 : out'[i] = Frame(accepted[ring_r + i])
    <3> SUFFICES ASSUME NEW i \in 1 .. f + 1
                 PROVE  out'[i] = Frame(accepted[ring_r + i])
      OBVIOUS
    <3>1. CASE i = f + 1
      <4>1. ring_r + i = ring_r + f + 1
        BY <1>0, <3>1 DEF IInv, TypeOK
      <4> QED BY <1>3, <3>1, <4>1
    <3>2. CASE i \in 1 .. f
      BY <1>3, <3>2 DEF IInv, Copied
    <3> QED BY <1>0, <3>1, <3>2
  <2> QED BY <2>1, <2>2 DEF IInv, Copied
<1> QED BY <1>4, <1>5, <1>6, <1>7 DEF IInv

LEMMA PullPublishInv == IInv /\ PullPublish => IInv'
<1> USE RingFramesAssumption
<1> SUFFICES ASSUME IInv, PullPublish PROVE IInv'
  OBVIOUS
<1>0. /\ f = n /\ n \in 1 .. ring_w - ring_r /\ Len(out) = n
      /\ ring_r \in Nat /\ ring_w \in Nat /\ ring_w - ring_r <= RingFrames
      /\ Len(delivered) = ring_r /\ out \in Seq(Stereo) /\ delivered \in Seq(Stereo)
  BY DEF IInv, TypeOK, Pulling, Cursors, Histories, PullPublish
<1>1. /\ delivered' \in Seq(Stereo)
      /\ Len(delivered') = ring_r + n
      /\ \A i \in 1 .. ring_r + n :
            delivered'[i] = IF i <= ring_r THEN delivered[i] ELSE out[i - ring_r]
  BY <1>0, ConcatProperties DEF PullPublish
<1>2. TypeOK'
  BY <1>0, <1>1, EmptySeq DEF IInv, TypeOK, PullPublish, producerVars
<1>3. Cursors' /\ Pulling' /\ Pushing' /\ Histories' /\ Unread'
  BY <1>0, <1>1, EmptySeq DEF IInv, PullPublish, producerVars, Cursors, Pulling, Pushing,
         Histories, Unread
<1>4. Copied'
  <2>1. accepted' = accepted /\ f' = 0 /\ consumer' = "idle"
    BY DEF PullPublish, producerVars
  <2>2. \A i \in 1 .. ring_r + n : delivered'[i] = Frame(accepted[i])
    <3> SUFFICES ASSUME NEW i \in 1 .. ring_r + n
                 PROVE  delivered'[i] = Frame(accepted[i])
      OBVIOUS
    <3>1. CASE i <= ring_r
      BY <1>0, <1>1, <3>1 DEF IInv, Copied
    <3>2. CASE ring_r < i
      <4>1. i - ring_r \in 1 .. f /\ ring_r + (i - ring_r) = i
        BY <1>0, <3>2
      <4>2. out[i - ring_r] = Frame(accepted[i])
        BY <4>1 DEF IInv, Copied
      <4> QED BY <1>0, <1>1, <3>2, <4>2
    <3> QED BY <1>0, <3>1, <3>2
  <2> QED BY <1>1, <2>1, <2>2 DEF Copied
<1> QED BY <1>2, <1>3, <1>4 DEF IInv

LEMMA StutterInv == IInv /\ UNCHANGED vars => IInv'
BY DEF IInv, TypeOK, Cursors, Pulling, Pushing, Histories, Unread, Copied,
       vars, producerVars, consumerVars

LEMMA NextInv == IInv /\ [Next]_vars => IInv'
BY PushRejectInv, PushBeginInv, PushLeftInv, PushRightInv, PushPublishInv,
   PullBeginInv, PullLeftInv, PullRightInv, PullPublishInv, StutterInv
   DEF Next, Producer, Consumer, PullNothing

-----------------------------------------------------------------------------
(* The theorems.                                                             *)

\* Every variable keeps its type, and pull_frames never takes more than the
\* ring holds, for every capacity and every request.
THEOREM TypeCorrect == Spec => []TypeOK
<1>1. IInv => TypeOK
  BY DEF IInv
<1> QED BY InitInv, NextInv, <1>1, PTL DEF Spec

\* push_frame and pull_frames never touch the same slot of ring_ at the same
\* time: the lock-free ring has no data race.
THEOREM RaceFree == Spec => []NoDataRace
<1>1. IInv => NoDataRace
  <2> SUFFICES ASSUME IInv, producer \in {"left", "right"},
                      consumer \in {"left", "right"}, NEW i \in f .. n - 1
               PROVE  Slot(ring_r + i) # Slot(ring_w)
    BY DEF NoDataRace
  <2>1. /\ ring_r \in Nat /\ ring_w \in Nat /\ f \in Nat /\ n \in Nat
        /\ n <= ring_w - ring_r
    BY DEF IInv, TypeOK, Pulling
  <2>2. ring_r + i \in ring_r .. ring_w - 1
    BY <2>1
  <2> QED BY <2>2, FreeSlot
<1> QED BY InitInv, NextInv, <1>1, PTL DEF Spec

\* SDL hears the published frames whole, in order, each exactly once.
THEOREM Delivery == Spec => []DeliveredInOrder
<1>1. IInv => DeliveredInOrder
  <2> SUFFICES ASSUME IInv PROVE DeliveredInOrder
    OBVIOUS
  <2>1. Len(delivered) = ring_r /\ Len(accepted) = ring_w
    BY DEF IInv, Histories
  <2>2. ring_r \in Nat /\ ring_w \in Nat /\ 0 <= ring_w - ring_r
    BY DEF IInv, TypeOK, Cursors
  <2>3. /\ \A i \in 1 .. Len(delivered) : delivered[i] = Frame(accepted[i])
        /\ \A i \in 1 .. f : out[i] = Frame(accepted[ring_r + i])
    BY DEF IInv, Copied
  <2>4. Len(delivered) <= Len(accepted)
    BY <2>1, <2>2
  <2> QED BY <2>1, <2>3, <2>4 DEF DeliveredInOrder
<1> QED BY InitInv, NextInv, <1>1, PTL DEF Spec

\* No step of push_frame or pull_frames changes a published frame that has not
\* been given back.
THEOREM UnreadStaysUntouched == Spec => UnreadUntouched
<1> DEFINE Kept == \A k \in ring_r' .. ring_w - 1 : ring'[Slot(k)] = ring[Slot(k)]
<1>1. IInv /\ [Next]_vars => [Kept]_vars
  <2> SUFFICES ASSUME IInv, Next PROVE Kept
    BY DEF vars, producerVars, consumerVars
  <2>1. CASE PushLeft
    BY <2>1, FreeSlot DEF PushLeft, IInv, TypeOK
  <2>2. CASE PushRight
    BY <2>2, FreeSlot DEF PushRight, IInv, TypeOK
  <2>3. CASE ring' = ring
    BY <2>3
  <2> QED BY <2>1, <2>2, <2>3 DEF Next, Producer, Consumer, PushReject, PushBegin,
             PushPublish, PullBegin, PullLeft, PullRight, PullPublish, PullNothing, vars
<1> QED BY InitInv, NextInv, <1>1, PTL DEF Spec, UnreadUntouched

-----------------------------------------------------------------------------
(* The ring implements LossyFifo.                                            *)

QueueIsSeq ==
    /\ ring_w - ring_r \in Nat
    /\ Queue \in Seq(Stereo)
    /\ Len(Queue) = ring_w - ring_r
    /\ \A i \in 1 .. ring_w - ring_r : Queue[i] = Frame(accepted[ring_r + i])

LEMMA QueueType == IInv => QueueIsSeq
<1> SUFFICES ASSUME IInv PROVE QueueIsSeq
  OBVIOUS
<1>1. ring_w - ring_r \in Nat /\ ring_r \in Nat /\ ring_w \in Nat
  BY DEF IInv, TypeOK, Cursors
<1>2. ASSUME NEW i \in 1 .. ring_w - ring_r
      PROVE  Frame(accepted[ring_r + i]) \in Stereo
  <2>1. ring_r + i \in 1 .. Len(accepted)
    BY <1>1, <1>2 DEF IInv, Histories
  <2>2. accepted[ring_r + i] \in Sample
    BY <2>1, ElementOfSeq DEF IInv, TypeOK
  <2> QED BY <2>2 DEF Frame, Stereo
<1>3. Queue \in [1 .. ring_w - ring_r -> Stereo]
  BY <1>2 DEF Queue
<1>4. Queue \in Seq(Stereo)
  BY <1>1, <1>3, SeqDef
<1>5. Len(Queue) = ring_w - ring_r
  BY <1>1, <1>3, <1>4, LenProperties DEF Queue
<1> QED BY <1>1, <1>4, <1>5 DEF Queue, QueueIsSeq

LEMMA QueueTypeNext == IInv' => QueueIsSeq'
BY QueueType, PTL

LEMMA RejectStep == IInv /\ PushReject => Fifo!Reject
<1> SUFFICES ASSUME IInv, PushReject PROVE Fifo!Reject
  OBVIOUS
<1>1. Len(Queue) = RingFrames
  BY QueueType, RingFramesAssumption DEF QueueIsSeq, PushReject, Full, IInv, TypeOK, Cursors
<1>2. UNCHANGED <<Queue, delivered>>
  BY DEF PushReject, Queue, Frame, consumerVars
<1> QED BY <1>1, <1>2 DEF PushReject, Fifo!Reject

LEMMA AcceptStep == IInv /\ PushPublish => Fifo!Accept
<1> SUFFICES ASSUME IInv, PushPublish PROVE Fifo!Accept
  OBVIOUS
<1> DEFINE frame == Frame(samples_pushed)
<1>0. frame \in Stereo
  BY DEF IInv, TypeOK, Frame, Stereo
<1>1. Len(Queue) < RingFrames
  BY QueueType DEF QueueIsSeq, PushPublish, IInv, Cursors
<1>2. IInv' /\ ring_w' = ring_w + 1 /\ ring_r' = ring_r /\ ring_r \in Nat /\ ring_w \in Nat
  BY PushPublishInv DEF PushPublish, IInv, TypeOK
<1>3. /\ Queue' \in Seq(Stereo)
      /\ Len(Queue') = ring_w + 1 - ring_r
      /\ \A i \in 1 .. ring_w + 1 - ring_r : Queue'[i] = Frame(accepted'[ring_r + i])
  <2>1. Queue' \in Seq(Stereo) /\ Len(Queue') = ring_w' - ring_r'
    BY <1>2, QueueTypeNext DEF QueueIsSeq
  <2>2. \A i \in 1 .. ring_w' - ring_r' : Queue'[i] = Frame(accepted'[ring_r' + i])
    BY DEF Queue, Frame
  <2> QED BY <1>2, <2>1, <2>2
<1>4. \A i \in 1 .. Len(accepted) : accepted'[i] = accepted[i]
  BY AppendProperties DEF IInv, TypeOK, PushPublish
<1>5. accepted'[ring_w + 1] = samples_pushed
  BY AppendProperties DEF IInv, TypeOK, Histories, PushPublish
<1>6. /\ Append(Queue, frame) \in Seq(Stereo)
      /\ Len(Append(Queue, frame)) = ring_w - ring_r + 1
      /\ \A i \in 1 .. ring_w - ring_r : Append(Queue, frame)[i] = Queue[i]
      /\ Append(Queue, frame)[ring_w - ring_r + 1] = frame
  BY <1>0, QueueType, AppendProperties DEF QueueIsSeq
<1>7. ASSUME NEW i \in 1 .. ring_w + 1 - ring_r
      PROVE  Queue'[i] = Append(Queue, frame)[i]
  <2>1. CASE i = ring_w + 1 - ring_r
    BY <1>2, <1>3, <1>5, <1>6, <2>1
  <2>2. CASE i \in 1 .. ring_w - ring_r
    <3>1. ring_r + i \in 1 .. Len(accepted)
      BY <1>2, <2>2 DEF IInv, Histories
    <3>2. Queue'[i] = Frame(accepted'[ring_r + i])
      BY <1>3
    <3>3. accepted'[ring_r + i] = accepted[ring_r + i]
      BY <1>4, <3>1
    <3>4. Queue[i] = Frame(accepted[ring_r + i])
      BY <2>2, QueueType DEF QueueIsSeq
    <3>5. Append(Queue, frame)[i] = Queue[i]
      BY <1>6, <2>2
    <3>6. Queue'[i] = Queue[i]
      BY <3>2, <3>3, <3>4 DEF Frame
    <3> HIDE DEF frame
    <3> QED BY <3>5, <3>6
  <2>3. i \in 1 .. ring_w - ring_r \/ i = ring_w + 1 - ring_r
    BY <1>2, <1>7
  <2> QED BY <2>1, <2>2, <2>3
<1>8. Queue' = Append(Queue, frame)
  <2> HIDE DEF frame
  <2>1. Len(Queue') = Len(Append(Queue, frame))
    BY <1>2, <1>3, <1>6
  <2> QED BY <1>3, <1>6, <1>7, <2>1, SeqEqual
<1>9. UNCHANGED <<frames_dropped, delivered>>
  BY DEF PushPublish, consumerVars
<1> QED BY <1>0, <1>1, <1>8, <1>9 DEF Fifo!Accept

LEMMA PlayStep == IInv /\ PullPublish => Fifo!Play
<1> SUFFICES ASSUME IInv, PullPublish PROVE Fifo!Play
  OBVIOUS
<1>1. /\ ring_r \in Nat /\ ring_w \in Nat /\ n \in Nat
      /\ n \in 1 .. ring_w - ring_r /\ f = n /\ Len(out) = n
      /\ out \in Seq(Stereo)
  BY DEF IInv, TypeOK, Cursors, Pulling, Copied, PullPublish
<1>2. /\ Queue \in Seq(Stereo) /\ Len(Queue) = ring_w - ring_r
      /\ \A i \in 1 .. ring_w - ring_r : Queue[i] = Frame(accepted[ring_r + i])
  BY QueueType DEF QueueIsSeq
<1>3. out = SubSeq(Queue, 1, n)
  <2>1. /\ SubSeq(Queue, 1, n) \in Seq(Stereo)
        /\ Len(SubSeq(Queue, 1, n)) = n
        /\ \A i \in 1 .. n : SubSeq(Queue, 1, n)[i] = Queue[i]
    BY <1>1, <1>2, SubSeqProperties
  <2>2. \A i \in 1 .. n : out[i] = Queue[i]
    BY <1>1, <1>2 DEF IInv, Copied, Histories, PullPublish
  <2> QED BY <1>1, <2>1, <2>2, SeqEqual
<1>4. /\ IInv' /\ ring_w' = ring_w /\ ring_r' = ring_r + n /\ accepted' = accepted
  BY PullPublishInv DEF PullPublish, producerVars
<1>5. Queue' = SubSeq(Queue, n + 1, Len(Queue))
  <2>1. /\ SubSeq(Queue, n + 1, Len(Queue)) \in Seq(Stereo)
        /\ Len(SubSeq(Queue, n + 1, Len(Queue))) = ring_w - ring_r - n
        /\ \A i \in 1 .. ring_w - ring_r - n :
              SubSeq(Queue, n + 1, Len(Queue))[i] = Queue[n + i]
    BY <1>1, <1>2, SubSeqProperties
  <2>2. /\ Queue' \in Seq(Stereo) /\ Len(Queue') = ring_w - ring_r - n
        /\ \A i \in 1 .. ring_w - ring_r - n : Queue'[i] = Frame(accepted[ring_r + n + i])
    <3>1. Queue' \in Seq(Stereo) /\ Len(Queue') = ring_w' - ring_r'
      BY <1>4, QueueTypeNext DEF QueueIsSeq
    <3>2. \A i \in 1 .. ring_w' - ring_r' : Queue'[i] = Frame(accepted'[ring_r' + i])
      BY DEF Queue, Frame
    <3> QED BY <1>1, <1>4, <3>1, <3>2
  <2>3. ASSUME NEW i \in 1 .. ring_w - ring_r - n
        PROVE  Queue'[i] = Queue[n + i]
    <3>1. n + i \in 1 .. ring_w - ring_r /\ ring_r + (n + i) = ring_r + n + i
      BY <1>1
    <3>2. Queue[n + i] = Frame(accepted[ring_r + (n + i)])
      BY <1>2, <3>1
    <3> QED BY <2>2, <3>1, <3>2
  <2> QED BY <2>1, <2>2, <2>3, SeqEqual
<1>6. delivered' = delivered \o SubSeq(Queue, 1, n) /\ frames_dropped' = frames_dropped
  BY <1>3 DEF PullPublish, producerVars
<1>7. n \in 1 .. Len(Queue)
  BY <1>1, <1>2
<1> QED BY <1>5, <1>6, <1>7 DEF Fifo!Play

\* Every other step leaves the queue, the loss counter and the frames played
\* as they are.
LEMMA SilentStep ==
  ASSUME PushBegin \/ PushLeft \/ PushRight \/ PullBegin \/ PullLeft \/ PullRight
         \/ PullNothing \/ UNCHANGED vars
  PROVE  UNCHANGED <<Queue, frames_dropped, delivered>>
<1>1. UNCHANGED <<ring_r, ring_w, accepted, frames_dropped, delivered>>
  BY DEF PushBegin, PushLeft, PushRight, PullBegin, PullLeft, PullRight, PullNothing,
         vars, producerVars, consumerVars
<1> QED BY <1>1 DEF Queue, Frame

\* The safety half of ImplementsLossyFifo: the ring the two threads share
\* without a lock behaves as one bounded queue that loses only the newest frame,
\* and only when it is full.
THEOREM Refinement == Spec => Fifo!Spec
<1>1. Init => Fifo!Init
  <2> SUFFICES ASSUME Init PROVE Fifo!Init
    OBVIOUS
  <2>1. IInv
    BY InitInv
  <2>2. Queue \in Seq(Stereo) /\ Len(Queue) = 0
    BY <2>1, QueueType DEF QueueIsSeq, Init
  <2>3. Queue = << >>
    BY <2>2, EmptySeq
  <2> QED BY <2>3 DEF Init, Fifo!Init
<1>2. IInv /\ [Next]_vars => [Fifo!Next]_<<Queue, frames_dropped, delivered>>
  BY RejectStep, AcceptStep, PlayStep, SilentStep
     DEF Next, Producer, Consumer, Fifo!Next
<1> QED BY InitInv, NextInv, <1>1, <1>2, PTL DEF Spec, Fifo!Spec, Fifo!vars

=============================================================================
