---------------------------- MODULE MCRtspSession ----------------------------
(* A session of up to two tracks, so that a SETUP is answered while another *)
(* is still to be sent, and one response that the server sends twice.       *)
EXTENDS RtspSession
===============================================================================
