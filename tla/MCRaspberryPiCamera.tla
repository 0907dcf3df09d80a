-------------------------- MODULE MCRaspberryPiCamera --------------------------
(* Small instances of RaspberryPiCamera for TLC. *)
EXTENDS RaspberryPiCamera

MCUrls == {"/version", "/camera/config"}

=============================================================================
