------------------------------ MODULE MCShmem ------------------------------
(***************************************************************************)
(* A small instance of the shared-memory server for TLC.                   *)
(***************************************************************************)
EXTENDS ShmemServer
=============================================================================
