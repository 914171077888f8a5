----------------------------- MODULE SampleBuffer -----------------------------
(***************************************************************************)
(* TimestampedBuffer and SynchronizedObservationBuilder (testbed/testbed/  *)
(* backends/real/sync.py): samples of the joints and of a camera arrive in *)
(* any order of their time stamps, and at any moment an observation is     *)
(* built from the two buffers.                                             *)
(*                                                                         *)
(* Data: a sample is its time stamp; two with the same stamp are alike.    *)
(***************************************************************************)
EXTENDS Integers, Sequences, SequencesExt, FiniteSetsExt

CONSTANTS MaxLen,      \* maxlen of a buffer
          MaxAge,      \* max_age_ns
          Slop,        \* max_slop_ns of the builder
          PreferPast,  \* prefer_past
          Times        \* bound: the time stamps

ASSUME SampleBufferAssumption ==
    /\ MaxLen \in Nat \ {0, 1} /\ MaxAge \in Nat /\ Slop \in Nat \ {0}
    /\ PreferPast \in BOOLEAN /\ Times \subseteq Nat \ {0}

VARIABLES
    joints, images,           \* _samples of the two buffers
    newestJoint, newestImage  \* history: the highest time stamp ever added, or 0

bufferVars == <<joints, images, newestJoint, newestImage>>

Distance(a, b) == IF a < b THEN b - a ELSE a - b

InitBuffer == joints = <<>> /\ images = <<>> /\ newestJoint = 0 /\ newestImage = 0
-----------------------------------------------------------------------------
(* TimestampedBuffer *)

\* _drop_expired, relative to the sample that was added.
Unexpired(samples, now) ==
    LET old == {i \in 1 .. Len(samples) : \A j \in 1 .. i : samples[j] < now - MaxAge}
    IN  SubSeq(samples, Cardinality(old) + 1, Len(samples))

\* The deque drops the first sample when it is full, before anything is compared.
Appended(samples, ts) ==
    IF Len(samples) = MaxLen THEN Append(Tail(samples), ts) ELSE Append(samples, ts)

\* sorted, by time stamp: an arrangement of all samples is a permutation of their places.
SortedByTime(samples) ==
    LET places == DOMAIN samples
        order == CHOOSE p \in Surjection(places, places) :
                    \A i, j \in places : i < j => samples[p[i]] <= samples[p[j]]
    IN  [i \in places |-> samples[order[i]]]

\* Mutation of Added: a late sample stays where it is.
AddedUnsorted(samples, ts) == Unexpired(Appended(samples, ts), ts)

\* add: a sample older than the one before it makes the buffer sort itself.
Added(samples, ts) ==
    LET all == Appended(samples, ts)
        late == Len(all) > 1 /\ all[Len(all) - 1] > ts
    IN  Unexpired(IF late THEN SortedByTime(all) ELSE all, ts)

AddJoint(ts) ==
    /\ joints' = Added(joints, ts) /\ newestJoint' = Max({ts, newestJoint})
    /\ UNCHANGED <<images, newestImage>>

AddImage(ts) ==
    /\ images' = Added(images, ts) /\ newestImage' = Max({ts, newestImage})
    /\ UNCHANGED <<joints, newestJoint>>

\* latest
Latest(samples) == Last(samples)

\* latest_before: the scan ends at the first sample after the target; 0 stands for
\* None.
LatestBefore(samples, target) ==
    LET before == {i \in 1 .. Len(samples) : \A j \in 1 .. i : samples[j] <= target}
    IN  IF before = {} THEN 0 ELSE samples[Max(before)]

\* nearest: of two that are equally near, prefer_past decides.
Nearest(samples, target) ==
    LET rank(ts) == 2 * Distance(ts, target)
                      + (IF (ts <= target) = PreferPast THEN 0 ELSE 1)
        best == CHOOSE ts \in ToSet(samples) :
                    \A other \in ToSet(samples) : rank(ts) <= rank(other)
    IN  IF samples = <<>> THEN 0
        ELSE IF Distance(best, target) > Slop THEN 0 ELSE best
-----------------------------------------------------------------------------
(* SynchronizedObservationBuilder *)

\* build: the observation has the joints' time stamp; what is too far from it, the
\* camera's sample or the action, is warned of.
Built(joint, image, action) ==
    LET stamp == [camera |-> image, action |-> action]
    IN  [joint |-> joint, image |-> image,
         skew |-> Max({Distance(stamp[name], joint) : name \in DOMAIN stamp}),
         warnings |-> {name \in DOMAIN stamp : Distance(stamp[name], joint) > Slop}]

\* from_buffers: the camera is matched with the joints' sample, not with the target;
\* without samples near enough it raises.
FromBuffers(target, action) ==
    LET joint == Nearest(joints, target)
        image == Nearest(images, joint)
    IN  IF joint = 0 \/ image = 0 THEN {} ELSE {Built(joint, image, action)}

NextBuffer == \E ts \in Times : AddJoint(ts) \/ AddImage(ts)

SpecBuffer == InitBuffer /\ [][NextBuffer]_bufferVars
-----------------------------------------------------------------------------
\* The buffer answers as if samples arrived in order.
InOrder(samples, newest) ==
    /\ newest > 0 => samples # <<>> /\ Latest(samples) = newest
    /\ \A target \in Times :
         LET before == {ts \in ToSet(samples) : ts <= target}
         IN  LatestBefore(samples, target) = IF before = {} THEN 0 ELSE Max(before)

(***************************************************************************)
(* However late samples come in, and whatever the full buffer and the age  *)
(* limit drop: latest is the newest sample there ever was, latest_before   *)
(* the newest up to its target; and an observation pairs joints and camera *)
(* no farther apart than the slop, the joints no farther from the target,  *)
(* so it warns exactly when the action is too far from its joints.         *)
(***************************************************************************)
SyncSound ==
    /\ InOrder(joints, newestJoint) /\ InOrder(images, newestImage)
    /\ \A target, action \in Times : \A o \in FromBuffers(target, action) :
         /\ Distance(o.joint, target) <= Slop /\ Distance(o.image, o.joint) <= Slop
         /\ o.warnings = IF o.skew > Slop THEN {"action"} ELSE {}
=============================================================================
