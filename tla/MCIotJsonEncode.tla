-------------------------- MODULE MCIotJsonEncode --------------------------
(***************************************************************************)
(* Model-checking instance of IotJsonEncode: the values of the constants  *)
(* that a .cfg cannot write (sets of byte strings and of reals).          *)
(***************************************************************************)
EXTENDS IotJsonEncode

(* The key "k" and the NULL key.                                           *)
MCKeys == {NoKey, <<"k">>}
(* A string value that needs an escape.                                    *)
MCStrValues == {<<"\"">>}
MCIntValues == {-7}
(* 1.5: a real with a one-digit fraction.                                  *)
MCRealValues == {[num |-> 3, den |-> 2]}
(* -0.5: a negative real whose integer part is zero.                       *)
MCNegFraction == {[num |-> -1, den |-> 2]}
(* A key and a string value holding the bytes the undo scans look for.     *)
MCBraceKeys == {NoKey, <<"}">>}

MCAllOps == {"array_start", "array_end", "object_start", "object_end", "bool",
             "integer", "real", "string", "object_cancel", "object_clear", "dump"}
MCEmitOps == MCAllOps \ {"object_cancel", "object_clear"}
(* The calls of the cancel and clear examples of spec section 8.           *)
MCCancelOps == {"object_start", "integer", "object_cancel", "dump"}
MCClearOps  == {"array_start", "object_clear", "dump"}
(* A keyed string in an array, and nothing else.                           *)
MCWrapOps   == {"array_start", "string", "dump"}
MCEndOps    == {"array_start", "array_end", "dump"}
MCRealOps   == {"real", "dump"}
MCDumpOps   == {"dump"}
=============================================================================
