---------------------------- MODULE MCMediaAssets ----------------------------
EXTENDS MediaAssets, TLC

CONSTANTS s1, s2, s3, thumb, medium

\* Two images whose keys differ in the extension only, the key of the thumbnail
\* of both, and a video.
MCKey == {[stem |-> s1, mime |-> "image/jpeg"], [stem |-> s1, mime |-> "image/png"],
          [stem |-> s3, mime |-> "image/jpeg"], [stem |-> s2, mime |-> "video/mp4"]}
MCSuffixed == [sv \in Stem \X Variant |-> IF sv = <<s1, thumb>> THEN s3 ELSE sv]
Symmetry == Permutations(Worker) \cup Permutations(Job)
=============================================================================
