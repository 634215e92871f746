-------------------------- MODULE MCDeviceManagerOta --------------------------
(***************************************************************************)
(* A package for checking DeviceManagerOta: a regular file with data and  *)
(* an empty entry (a directory), so both the copy_data path and the        *)
(* size-0 path of the entry loop are taken.                                *)
(***************************************************************************)
EXTENDS DeviceManagerOta

MCEntrySize == <<1, 0>>
=============================================================================
