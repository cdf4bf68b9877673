-------------------------- MODULE MCStreamReaders ---------------------------
EXTENDS StreamReaders

(* A video and an audio format. *)
VideoAndAudio == <<"video", "audio">>
=============================================================================
