-------------------------- MODULE MCClientService --------------------------
(* Instances of ClientService for TLC: one client, and more workers at a   *)
(* time than any behaviour makes (Settles fails where they are too few).   *)
EXTENDS ClientService
=============================================================================
