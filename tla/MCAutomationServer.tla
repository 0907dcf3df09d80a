-------------------------- MODULE MCAutomationServer --------------------------
(* A small instance of AutomationServer for TLC. *)
EXTENDS AutomationServer

=============================================================================
