------------------------- MODULE MCPreviewRecordings -------------------------
(***************************************************************************)
(* Two streams: pieces of one, two that clash, one for each role, or text.  *)
(***************************************************************************)
EXTENDS PreviewRecordings

MCLayouts == {[role |-> "markers", key |-> 1], [role |-> "markers", key |-> 2],
              [role |-> "gaze", key |-> 1], [role |-> "text", key |-> 1]}
=============================================================================
