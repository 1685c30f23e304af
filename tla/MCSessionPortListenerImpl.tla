---------------------- MODULE MCSessionPortListenerImpl ----------------------
(* Small instances of SessionPortListenerImpl.                             *)
EXTENDS SessionPortListenerImpl
=============================================================================
