------------------------------ MODULE MCSetup -------------------------------
(***************************************************************************)
(* Instances of the installer: a protected file of Windows, a new file and *)
(* a registry value.                                                       *)
(***************************************************************************)
EXTENDS Setup
MCItems == 1..3
MCFiles == {1, 2}
MCProtected == {1}
MCReplaced == {1, 3}
MCNative == <<"windows", "none", "none">>
=============================================================================
