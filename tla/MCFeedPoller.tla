---------------------------- MODULE MCFeedPoller ----------------------------
(* Small instances of FeedPoller for TLC.  A tick stands for 15 seconds.    *)
EXTENDS FeedPoller, TLC

SlotSymmetry == Permutations(Slots)
=============================================================================
