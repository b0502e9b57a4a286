----------------------------- MODULE MCSyncQueue -----------------------------
(* The instance of SyncQueue for TLC.                                       *)
EXTENDS SyncQueue

V(pts, dur) == [pts |-> pts, dur |-> dur, samples |-> 0]    \* video, packets
A(pts, n) == [pts |-> pts, dur |-> SamplesDur(4, n), samples |-> n]     \* audio

\* -shortest on two streams, of which the second may have three frames, beside
\* two that are not limiting, of which the last is audio cut into frames of
\* three samples.  Stream 1 has timestamps out of order, stream 2 a gap and a
\* time base that does not divide the initial one, stream 3 frames without
\* timestamps and long ones, stream 4 frames of samples that are too long and
\* too short, and samples of half a tick.
MCLimiting == {1, 2}
MCTb == <<2, 4, 1, 2>>
MCSampleTime == <<1, 1, 1, 1>>
MCFrames == <<<<V(0, 1), V(2, 1), V(1, 1), V(3, 2), V(5, 4)>>,
              <<V(0, 1), V(1, 1), V(4, 1), V(5, 1)>>,
              <<V(0, 1), V(NOPTS, 0), V(1, 4), V(5, 1), V(6, 5), V(11, 4)>>,
              <<A(0, 3), A(2, 1), A(2, 1), A(3, 5)>>>>
MCFramesMax == <<99, 3, 99, 99>>
MCFrameSamples == <<0, 0, 0, 3>>
=============================================================================
