---------------------------- MODULE MCRingInApp ----------------------------
(* RingInApp with the smallest ring an IDR batch fits in: four slots. *)
EXTENDS RingInApp

CONSTANTS sps, pps, idr, frame
AllKinds == {sps, pps, idr, frame}
=============================================================================
