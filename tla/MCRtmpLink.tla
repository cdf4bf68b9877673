----------------------------- MODULE MCRtmpLink ------------------------------
(* Small times for RtmpLink, one of which goes back. *)
EXTENDS RtmpLink

MCGaps == {-1, 0, 2}
=============================================================================
