---------------------------- MODULE MCIikoClient ----------------------------
(***************************************************************************)
(* Small instances of IikoClient: two retries of a request, two sessions   *)
(* lost, and calls enough to meet what they left.                          *)
(***************************************************************************)
EXTENDS IikoClient

MCSettings == SettingsKinds
=============================================================================
