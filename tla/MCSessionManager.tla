-------------------------- MODULE MCSessionManager --------------------------
(* SessionManager for TLC.  Self has a peer of lower and one of higher     *)
(* NodeId.  Transcripts are interchangeable.                               *)
EXTENDS SessionManager, TLC

KeySymmetry == Permutations(Key)
=============================================================================
