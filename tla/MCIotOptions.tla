---------------------------- MODULE MCIotOptions ----------------------------
(***************************************************************************)
(* Constants for checking IotOptions.  Five names in four places of the   *)
(* os_strncasecmp order ("a" and "A" are one option), so a store of three *)
(* options can be full with a fourth name left to add; the binary search  *)
(* meets arrays of every length up to IOT_OPTION_MAX.                      *)
(***************************************************************************)
EXTENDS IotOptions, TLC

MCNames == {"a", "A", "b", "c", "d"}
MCNameKey == ("a" :> 1) @@ ("A" :> 1) @@ ("b" :> 2) @@ ("c" :> 3) @@ ("d" :> 4)

(* Handles are addresses malloc returns: nothing orders them.             *)
MCHandleSymmetry == Permutations(Handles)

=============================================================================
