-------------------------- MODULE MCJpRegistration --------------------------
(* JpRegistration with two names and two commands.                           *)
EXTENDS JpRegistration
=============================================================================
