---------------------------- MODULE MCPreviewPanel ----------------------------
(* Two recordings: an XDF with several possible streams, and a CSV without frames. *)
EXTENDS PreviewPanel, TLC
CONSTANTS Xdf, Csv
MCTimelineOf == (Xdf :> <<0, 1, 3>>) @@ (Csv :> <<>>)
=============================================================================
