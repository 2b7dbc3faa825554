----------------------------- MODULE MCLiveLog -----------------------------
(***************************************************************************)
(* The instance of LiveLog for TLC.                                        *)
(***************************************************************************)
EXTENDS LiveLog

CONSTANTS r1, r2, up

RequestsAndUpload == {r1, r2, up}
Uploader    == {up}

\* One Write writes one byte or two different ones.
SmallChunks == {<<0>>, <<0, 1>>}

=============================================================================
