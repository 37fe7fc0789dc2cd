------------------------ MODULE MCCallbackPublisher ------------------------
(* Instances of CallbackPublisher for TLC.                                 *)
EXTENDS CallbackPublisher
=============================================================================
