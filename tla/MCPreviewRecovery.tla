------------------------- MODULE MCPreviewRecovery -------------------------
(* A bounded instance of the chunk stream and the preview recovery. *)
EXTENDS PreviewRecovery
=============================================================================
