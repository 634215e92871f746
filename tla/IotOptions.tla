----------------------------- MODULE IotOptions -----------------------------
(***************************************************************************)
(* The option store of src/src/api/iot_option.c (the heap build, without  *)
(* IOT_STACK_ONLY).  A store keeps its options in one array, sorted by    *)
(* name, found by binary search and grown by one slot on every insert;    *)
(* the library keeps a list of its stores.  The C array index is 0-based: *)
(* option[i] is opts[i + 1].                                              *)
(*                                                                         *)
(* Names are compared by os_strncasecmp up to IOT_NAME_MAX_LEN; NameKey    *)
(* gives every name its place in that order, so two names with one key    *)
(* are the same option.  iot_common_data_copy is outside this file: its   *)
(* result is an input, and it may fail only for a value kept on the heap. *)
(***************************************************************************)
EXTENDS Integers, Sequences, SequencesExt, Functions

CONSTANTS
  Names,              \* option names a caller passes
  NameKey,            \* [Names -> Nat]: the os_strncasecmp order
  Vals,               \* values a caller passes
  HeapVals,           \* the values whose copy allocates (string, raw)
  NullVal,            \* a value of type IOT_TYPE_NULL: clears the option
  CallVals,           \* the values callers set: Vals, with NullVal if they clear
  NoName,             \* a NULL name: an argument, or a slot not yet named
  NoVal,              \* a slot whose data is zeroed
  Handles,            \* addresses malloc may return for a store
  OptionMax,          \* IOT_OPTION_MAX
  ReallocMayFail,     \* os_realloc of the option array may return NULL
  NameMallocMayFail   \* os_malloc of an option name may return NULL

ASSUME /\ NameKey \in [Names -> Nat]
       /\ HeapVals \subseteq Vals
       /\ CallVals \subseteq Vals \cup {NullVal}
       /\ OptionMax \in 1..255
       /\ ReallocMayFail \in BOOLEAN /\ NameMallocMayFail \in BOOLEAN

VARIABLES
  opts,      \* option[0 .. option_count - 1]: records [name, val]
  alloc,     \* slots the last os_realloc of option gave room for
  reach,     \* slots the last call's memmoves read or wrote
  status,    \* what the last call returned
  got,       \* the value the last get returned
  crashed,   \* a call compared a name with a NULL option name
  lib,       \* lib->options[0 .. options_count - 1]
  live       \* stores allocated and not yet freed

vars == <<opts, alloc, reach, status, got, crashed, lib, live>>

Blank == [name |-> NoName, val |-> NoVal]

(* Sign of os_strncasecmp(name, other).                                   *)
Cmp(name, other) == NameKey[name] - NameKey[other]

(* The binary search loop of iot_options_find over option[lo .. hi - 1],  *)
(* cur being cur_idx.  Comparing with a slot that has no name passes NULL *)
(* to os_strncasecmp: the result is marked ub.                            *)
RECURSIVE Search(_, _, _, _, _)

(* A search that leaves cur_idx on the smaller name it passed.           *)
SearchNoIncrement(s, name, lo, hi, cur) ==
  IF hi - lo = 0 THEN [idx |-> cur, hit |-> FALSE, ub |-> FALSE]
  ELSE LET mid == (hi - lo) \div 2 + lo
       IN CASE s[mid + 1].name = NoName -> [idx |-> mid, hit |-> FALSE, ub |-> TRUE]
            [] Cmp(name, s[mid + 1].name) > 0 -> Search(s, name, mid + 1, hi, mid)
            [] Cmp(name, s[mid + 1].name) < 0 -> Search(s, name, lo, mid, mid)
            [] OTHER -> [idx |-> mid, hit |-> TRUE, ub |-> FALSE]

Search(s, name, lo, hi, cur) ==
  IF hi - lo = 0 THEN [idx |-> cur, hit |-> FALSE, ub |-> FALSE]
  ELSE LET mid == (hi - lo) \div 2 + lo
       IN CASE s[mid + 1].name = NoName -> [idx |-> mid, hit |-> FALSE, ub |-> TRUE]
            [] Cmp(name, s[mid + 1].name) > 0 -> Search(s, name, mid + 1, hi, mid + 1)
            [] Cmp(name, s[mid + 1].name) < 0 -> Search(s, name, lo, mid, mid)
            [] OTHER -> [idx |-> mid, hit |-> TRUE, ub |-> FALSE]

(* iot_options_find: the search, then one look at the next slot.         *)
Find(s, name) ==
  LET r == Search(s, name, 0, Len(s), 0)
      nxt == r.idx + 1
  IN IF r.hit \/ r.ub \/ ~(Len(s) > 0 /\ r.idx < Len(s) - 1) THEN r
     ELSE IF s[nxt + 1].name = NoName THEN [r EXCEPT !.ub = TRUE]
     ELSE IF Cmp(name, s[nxt + 1].name) = 0 THEN [idx |-> nxt, hit |-> TRUE, ub |-> FALSE]
     ELSE r

(* The new slot's name: os_malloc, then os_strncpy.  Lines 416-426.      *)
NameSlot(s, i, name, nameOk) ==
  IF nameOk THEN [s EXCEPT ![i].name = name] ELSE s

(* A room test written with <= .                                         *)
HasRoomOffByOne(s) == Len(s) <= OptionMax

(* A new option needs options->option_count < IOT_OPTION_MAX.             *)
HasRoom(s) == Len(s) < OptionMax

(* A realloc sized for the options already there.                        *)
GrowToCount(s) == Len(s)

(* The slots the os_realloc of a new option asks for.                     *)
GrowTo(s) == Len(s) + 1

(* iot_options_set_data(options, name, data) with the allocation outcomes *)
(* ok; the result is the array, the slots allocated, the status and the   *)
(* slots the memmoves reach.                                              *)
SetData(s, al, name, v, ok) ==
  LET f      == Find(s, name)
      del    == f.hit /\ v = NullVal
      s1     == IF del THEN RemoveAt(s, f.idx + 1) ELSE s
      ins    == ~f.hit /\ HasRoom(s)
      grown  == ins /\ ok.realloc
      s2     == IF grown THEN InsertAt(s1, f.idx + 1, Blank) ELSE s1
      al2    == IF grown THEN GrowTo(s) ELSE al
      reach2 == IF del \/ grown THEN Len(s) + 1 ELSE 0
      st2    == IF ins THEN "NO_MEMORY" ELSE "FULL"
      i      == f.idx + 1
      named  == s2[i].name # NoName
      s3     == IF named THEN s2 ELSE NameSlot(s2, i, name, ok.name)
  IN CASE name = NoName ->
            [s |-> s, al |-> al, st |-> "BAD_PARAMETER", reach |-> 0]
       [] ~(f.hit \/ grown) \/ v = NullVal ->
            [s |-> s2, al |-> al2, st |-> st2, reach |-> reach2]
       [] ~named /\ ~ok.name ->
            [s |-> s3, al |-> al2, st |-> "NO_MEMORY", reach |-> reach2]
       [] v \notin HeapVals \/ ok.copy ->
            [s |-> [s3 EXCEPT ![i].val = v], al |-> al2, st |-> "SUCCESS", reach |-> reach2]
       [] OTHER ->
            [s |-> RemoveAt(s3, i), al |-> al2, st |-> "NO_MEMORY",
             reach |-> IF reach2 > Len(s3) THEN reach2 ELSE Len(s3)]

(* The outcomes of the allocations one call may meet.                     *)
Outcomes(v) ==
  [realloc : IF ReallocMayFail THEN BOOLEAN ELSE {TRUE},
   name    : IF NameMallocMayFail THEN BOOLEAN ELSE {TRUE},
   copy    : IF v \in HeapVals THEN BOOLEAN ELSE {TRUE}]

Init ==
  /\ opts = <<>>
  /\ alloc = 0
  /\ reach = 0
  /\ status = "NONE"
  /\ got = NoVal
  /\ crashed = FALSE
  /\ lib = <<>>
  /\ live = {}

(* iot_options_set_data, reached through iot_options_set_* and, with a    *)
(* null value, iot_options_clear.                                         *)
Set(name, v) ==
  /\ ~crashed
  /\ IF name # NoName /\ Find(opts, name).ub
     THEN crashed' = TRUE /\ UNCHANGED <<opts, alloc, reach, status, got>>
     ELSE \E ok \in Outcomes(v) :
            LET r == SetData(opts, alloc, name, v, ok)
            IN /\ opts' = r.s
               /\ alloc' = r.al
               /\ reach' = r.reach
               /\ status' = r.st
               /\ got' = NoVal
               /\ UNCHANGED crashed
  /\ UNCHANGED <<lib, live>>

(* iot_options_get_args: the value of the option found, or NOT_FOUND.    *)
Get(name) ==
  /\ ~crashed
  /\ LET f == Find(opts, name)
     IN IF f.ub
        THEN crashed' = TRUE /\ UNCHANGED <<status, got>>
        ELSE /\ got' = IF f.hit THEN opts[f.idx + 1].val ELSE NoVal
             /\ status' = IF f.hit THEN "SUCCESS" ELSE "NOT_FOUND"
             /\ UNCHANGED crashed
  /\ reach' = 0
  /\ UNCHANGED <<opts, alloc, lib, live>>

(* iot_options_allocate: room in the library's list, os_malloc and the    *)
(* os_realloc of the list all succeed; a failure of any returns NULL and  *)
(* changes nothing.                                                        *)
Allocate(h) ==
  /\ h \notin live
  /\ Len(lib) < OptionMax
  /\ lib' = Append(lib, h)
  /\ live' = live \cup {h}
  /\ UNCHANGED <<opts, alloc, reach, status, got, crashed>>

(* os_memmove( &lib->options[i], &lib->options[i + 1], n ) on the list:   *)
(* the n slots from the found one on take the value of their successor.   *)
MemmoveDown(s, i, n) ==
  [j \in DOMAIN s |-> IF i <= j /\ j < i + n THEN s[j + 1] ELSE s[j]]

(* Mutant: one slot fewer moved than lib->options_count - i - 1.          *)
FreeCountShort(i) == Len(lib) - i - 1

(* The count of slots moved, lib->options_count - i - 1 for the 0-based   *)
(* index i, which is i - 1 here.                                           *)
FreeCount(i) == Len(lib) - (i - 1) - 1

(* iot_options_free: find the first slot holding the store, move the     *)
(* rest down over it, free the store and decrement options_count.  A     *)
(* store not in the list returns NOT_FOUND and changes nothing, so it is  *)
(* not a step.                                                             *)
Free(h) ==
  /\ h \in live
  /\ \E i \in DOMAIN lib :
       /\ lib[i] = h
       /\ \A j \in 1..(i - 1) : lib[j] # h
       /\ lib' = SubSeq(MemmoveDown(lib, i, FreeCount(i)), 1, Len(lib) - 1)
  /\ live' = live \ {h}
  /\ UNCHANGED <<opts, alloc, reach, status, got, crashed>>

Next ==
  \/ \E name \in Names \cup {NoName}, v \in CallVals : Set(name, v)
  \/ \E name \in Names : Get(name)
  \/ \E h \in Handles : Allocate(h) \/ Free(h)

Spec == Init /\ [][Next]_vars

-----------------------------------------------------------------------------
(* What the store means: the value held under each name, up to case.      *)
Keys == {NameKey[n] : n \in Names}

AbstractMap ==
  [k \in Keys |->
     IF \E i \in DOMAIN opts : opts[i].name # NoName /\ NameKey[opts[i].name] = k
     THEN LET i == CHOOSE i \in DOMAIN opts :
                     opts[i].name # NoName /\ NameKey[opts[i].name] = k
          IN opts[i].val
     ELSE NoVal]

(* The store as an OptionMap; a NULL name is the abstract bad name.       *)
OM == INSTANCE OptionMap WITH map <- AbstractMap, Absent <- NoVal, BadName <- NoName

TypeOK ==
  /\ opts \in Seq([name : Names \cup {NoName}, val : Vals \cup {NoVal}])
  /\ Len(opts) <= OptionMax
  /\ alloc \in 0..OptionMax /\ Len(opts) <= alloc
  /\ crashed \in BOOLEAN
  /\ lib \in Seq(Handles) /\ Len(lib) <= OptionMax /\ live \subseteq Handles

(* The binary search of iot_options_find is only right on a sorted array: *)
(* every insert at the index the search left in cur_idx, and every delete  *)
(* or failed copy that closes a gap, keeps the named options strictly      *)
(* ordered by os_strncasecmp, so no two of them are one option.           *)
Sorted ==
  \A i, j \in DOMAIN opts :
     (i < j /\ opts[i].name # NoName /\ opts[j].name # NoName)
        => NameKey[opts[i].name] < NameKey[opts[j].name]

(* Every slot of the array has a name: iot_options_find passes each name   *)
(* it meets to os_strncasecmp, which must not be handed NULL.              *)
NoNamelessOption == \A i \in DOMAIN opts : opts[i].name # NoName

(* The memmoves of iot_options_set_data read and write only slots the last *)
(* os_realloc of the option array gave room for.                          *)
InBounds == reach <= alloc

(* The library lists every store it allocated and has not freed, once:   *)
(* iot_options_free closes the gap it leaves in lib->options.             *)
LibListsLive == IsInjective(lib) /\ Range(lib) = live

(* Every set, clear and get of the store is one the abstract map allows:  *)
(* the value under each name, what each call returns and what a get       *)
(* reads agree with OptionMap.                                             *)
RefinesOptionMap == OM!Spec

=============================================================================
