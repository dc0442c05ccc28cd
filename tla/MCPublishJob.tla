---------------------------- MODULE MCPublishJob ----------------------------
(* The instance of PublishJob that TLC checks. *)
EXTENDS PublishJob
=============================================================================
