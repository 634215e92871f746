----------------------------- MODULE OptionMap -----------------------------
(***************************************************************************)
(* What an option store (src/src/api/iot_option.c) promises its callers:  *)
(* a map from option names, compared without case, to values, holding at  *)
(* most OptionMax names.  A set either takes effect or reports why not and *)
(* leaves the map as it was; a get returns the value last set.            *)
(***************************************************************************)
EXTENDS Naturals, FiniteSets

CONSTANTS
  Keys,          \* option names up to case: what iot_options_find tells apart
  Vals,          \* values a caller may store
  OptionMax,     \* IOT_OPTION_MAX
  Absent,        \* the map holds nothing under a key
  BadName        \* a NULL or empty name

VARIABLES
  map,           \* the stored value of every key
  status,        \* what the last call returned
  got            \* what the last get produced

vars == <<map, status, got>>

Stored == {k \in Keys : map[k] # Absent}

Init ==
  /\ map = [k \in Keys |-> Absent]
  /\ status = "NONE"
  /\ got = Absent

(* A set of a stored key updates it; a new key needs room.  Either may    *)
(* fail for lack of memory without changing the map.                      *)
Set(k, v) ==
  /\ \/ /\ k = BadName
        /\ status' = "BAD_PARAMETER"
        /\ UNCHANGED map
     \/ /\ k \in Keys
        /\ k \notin Stored
        /\ Cardinality(Stored) = OptionMax
        /\ status' = "FULL"
        /\ UNCHANGED map
     \/ /\ k \in Keys
        /\ k \in Stored \/ Cardinality(Stored) < OptionMax
        /\ \/ map' = [map EXCEPT ![k] = v] /\ status' = "SUCCESS"
           \/ status' = "NO_MEMORY" /\ UNCHANGED map
  /\ got' = Absent

(* A clear removes a stored key.  What a clear of an absent key returns   *)
(* is not promised, but the map stays as it was.                          *)
Clear(k) ==
  /\ \/ k = BadName /\ status' = "BAD_PARAMETER" /\ UNCHANGED map
     \/ k \in Stored /\ map' = [map EXCEPT ![k] = Absent] /\ status' = "SUCCESS"
     \/ k \in Keys \ Stored /\ status' # "SUCCESS" /\ UNCHANGED map
  /\ got' = Absent

(* A get reports the stored value or NOT_FOUND, and changes nothing.      *)
Get(k) ==
  /\ k \in Keys
  /\ got' = map[k]
  /\ status' = IF k \in Stored THEN "SUCCESS" ELSE "NOT_FOUND"
  /\ UNCHANGED map

Next ==
  \E k \in Keys \cup {BadName} :
     \/ \E v \in Vals : Set(k, v)
     \/ Clear(k)
     \/ Get(k)

Spec == Init /\ [][Next]_vars

=============================================================================
