-------------------------- MODULE MCSpeakerSafety --------------------------
(***************************************************************************)
(* Three speakers in two groups, so that a group has a speaker that needs  *)
(* less than its gain and a round can end between two groups and inside    *)
(* one.  The gains are on either side of a whole step and of zero.         *)
(***************************************************************************)
EXTENDS SpeakerSafety

CONSTANTS left, right, tweeter, woofers, tweeters

MCSpeakers == {left, right, tweeter}
MCGroups == {woofers, tweeters}
MCGroupOf == [s \in MCSpeakers |-> IF s = tweeter THEN tweeters ELSE woofers]
MCGains == {-1, 0}
MCLowest == -2
=============================================================================
