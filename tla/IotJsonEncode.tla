--------------------------- MODULE IotJsonEncode ---------------------------
(***************************************************************************)
(* The streaming JSON encoder of src/src/api/json/iot_json_encode.c (the  *)
(* build without IOT_JSON_JANSSON and without IOT_STACK_ONLY).            *)
(*                                                                         *)
(* The encoder struct {buf, cur, flags, len, structs} is the record enc:  *)
(*   txt     the bytes buf[0 .. cur-1], each a one-byte string;           *)
(*   b0      the byte at buf[0] when cur = buf (it is txt[1] otherwise);  *)
(*   len     encoder->len, the writable length the code believes in;      *)
(*   alloc   the bytes really allocated behind buf (0: buf is NULL);      *)
(*   structs the bit-packed stack: 3 bits per level, bit 0 array, bit 1   *)
(*           object, bit 2 auto-inserted object wrapper.                  *)
(* flags are constants of a run.  Every public call is one action; the    *)
(* helpers it calls (iot_json_encode_key, _struct_start, _struct_end)     *)
(* are operators from an encoder record to [e |-> record, st |-> status]. *)
(* A realloc may fail: the outcome of each realloc of a call is an input  *)
(* ok[site] of the action.  A read of buf[-1] (cur = buf) returns junk.   *)
(***************************************************************************)
EXTENDS Integers, Sequences, SequencesExt, Bitwise, IotJsonFormat, JsonGrammar

CONSTANTS
  Indent,          \* flags >> IOT_JSON_INDENT_OFFSET (0: compact)
  Expand,          \* flags & IOT_JSON_FLAG_EXPAND
  Dynamic,         \* no caller buffer: IOT_JSON_FLAG_DYNAMIC is forced on
  Capacity,        \* fixed mode: caller buffer length minus the encoder struct
  Width,           \* bits of iot_json_encode_struct_t
  Keys,            \* keys a caller passes (NoKey stands for NULL)
  NoKey,
  StrValues,       \* raw string values passed to iot_json_encode_string
  IntValues,       \* iot_int64_t values passed to iot_json_encode_integer
  RealValues,      \* exact reals [num, den] passed to iot_json_encode_real
  ReallocMayFail,  \* whether iot_json_realloc may return NULL
  Ops,             \* the public calls the caller makes in this run
  OneDocument,     \* the caller makes no add/start call once the root is closed
  AbandonOnNoMemory, \* after NO_MEMORY the caller only dumps or terminates (spec 7)
  MaxLen,          \* bound: no mutating call once enc.len exceeds it
  SizeMax          \* SIZE_MAX, for size_t arithmetic that wraps

ASSUME Indent \in Nat /\ Expand \in BOOLEAN /\ Dynamic \in BOOLEAN
ASSUME OneDocument \in BOOLEAN /\ AbandonOnNoMemory \in BOOLEAN
ASSUME Capacity \in Nat /\ Width \in Nat /\ Width >= 3 /\ MaxLen \in Nat

VARIABLES
  enc,      \* the encoder record (meaningful while live)
  live,     \* iot_json_encode_initialize returned an encoder not yet terminated
  status,   \* result of the latest call
  op,       \* kind of the latest step: "initialize", "terminate", "call" or "dump"
  dumped    \* what the latest dump returned: [null |-> TRUE] for NULL

vars == <<enc, live, status, op, dumped>>

ARRAY   == 1   \* IOT_JSON_TYPE_ARRAY
OBJECT  == 2   \* IOT_JSON_TYPE_OBJECT
WRAPPER == 4   \* IOT_JSON_TYPE_OBJECT << 1
STRUCT_BITS == 3
JSON_MAX_DEPTH == Width \div STRUCT_BITS

StartChar(i) == <<"[", "{", "{">>[i + 1]   \* JSON_CHARS_START
EndChar(i)   == <<"]", "}", "}">>[i + 1]   \* JSON_CHARS_END
Junk == "?"                                 \* a byte nobody wrote
ReallocSites == {"wrap", "key", "b0", "b1", "b2"}
Spaces(n) == [k \in 1..n |-> " "]
SizeT(x) == IF x < 0 THEN x + SizeMax + 1 ELSE x
Bit(x, i) == (x \div 2^i) % 2 = 1

(* iot_json_encode_depth: the number of set bits of structs.              *)
RECURSIVE Depth(_)
Depth(s) == IF s = 0 THEN 0 ELSE (s % 2) + Depth(s \div 2)

(* *(cur - 1), where cur = buf reads the byte before the buffer.          *)
PrevByte(t, junk) == IF t = <<>> THEN junk ELSE Last(t)
Byte0(e) == IF e.txt = <<>> THEN e.b0 ELSE e.txt[1]

NullDump == [null |-> TRUE, s |-> <<>>]

Append2(e, bytes) == [e EXCEPT !.txt = @ \o bytes]

-----------------------------------------------------------------------------
(* A comma test that compares only against '['.                          *)
NeedsCommaArrayOnly(e) == Len(e.txt) > 0 /\ Last(e.txt) # StartChar(0)

(* add_comma: something precedes cur and it is not an opening token.    *)
NeedsComma(e) ==
  Len(e.txt) > 0 /\ Last(e.txt) \notin {StartChar(0), StartChar(1), StartChar(2)}

(* No room reserved for closing the current levels.                      *)
CloseRoomNone(depth) == 0

(* Room for closing the current levels when indenting:                    *)
(* sum over i < depth of indent * i + 1.                                   *)
CloseRoom(depth) ==
  IF Indent > 0 THEN ((Indent * depth * (depth - 1)) \div 2) + depth ELSE 0

(* An extra_space without the 3 bytes of the key's quotes and colon.      *)
ExtraSpaceNoQuotes(key, depth, comma) ==
  CloseRoom(depth)
  + (IF comma THEN 1 + (IF Indent = 0 /\ Expand THEN 1 ELSE 0) ELSE 0)
  + (IF Expand THEN 1 ELSE 0)
  + (IF Indent > 0 THEN Indent * 2 * depth + 1 ELSE 0)

(* extra_space of iot_json_encode_key: quotes and colon of a key, room    *)
(* to close the levels, the comma and its space, the expand space, and    *)
(* the newline and indentation.                                           *)
ExtraSpace(key, depth, comma) ==
  (IF key # NoKey THEN 3 ELSE 0)
  + CloseRoom(depth)
  + (IF comma THEN 1 + (IF Indent = 0 /\ Expand THEN 1 ELSE 0) ELSE 0)
  + (IF Expand THEN 1 ELSE 0)
  + (IF Indent > 0 THEN Indent * 2 * depth + 1 ELSE 0)

(* A realloc of new_space bytes, without the +1u for the NUL.             *)
GrowKeyNoNul(e, need) ==
  [e EXCEPT !.len = e.len + need, !.alloc = e.len + need,
            !.b0 = IF e.alloc = 0 THEN Junk ELSE @]

(* The successful realloc of iot_json_encode_key to new_space + 1 bytes;  *)
(* a first allocation holds junk at buf[0].                               *)
GrowKey(e, need) ==
  [e EXCEPT !.len = e.len + need, !.alloc = e.len + need + 1,
            !.b0 = IF e.alloc = 0 THEN Junk ELSE @]

(* The bytes iot_json_encode_key writes before the value.                 *)
KeyPrefix(key, depth, comma) ==
  (IF comma THEN <<",">> \o (IF Indent = 0 /\ Expand THEN <<" ">> ELSE <<>>) ELSE <<>>)
  \o (IF Indent > 0 /\ depth > 0 THEN <<"\n">> ELSE <<>>)
  \o Spaces(Indent * depth)
  \o (IF key = NoKey THEN <<>>
      ELSE <<"\"">> \o EncodeStrncpy(key) \o <<"\"", ":">> \o (IF Expand THEN <<" ">> ELSE <<>>))

(* A key emitter that takes space = new_space whether or not the realloc  *)
(* returned a buffer.                                                      *)
EmitKeySpaceUnchecked(e, key, valueLen, grow) ==
  LET depth == Depth(e.structs)
      comma == NeedsComma(e)
      need  == (IF key = NoKey THEN 0 ELSE EncodeStrlen(key)) + valueLen
               + ExtraSpace(key, depth, comma)
      grown == Dynamic /\ grow
      e1    == IF grown THEN GrowKey(e, need) ELSE e
      space == IF Dynamic THEN e.len + need ELSE SizeT(e.len - Len(e.txt))
  IN IF need <= space
     THEN [e |-> Append2(e1, KeyPrefix(key, depth, comma)), st |-> "SUCCESS"]
     ELSE [e |-> e1, st |-> "NO_MEMORY"]

(* iot_json_encode_key after the auto-wrap step: reserve (and in dynamic  *)
(* mode reallocate) the space for separator, indentation, key and value,  *)
(* then write separator, indentation and key.  grow: the realloc's result.*)
EmitKey(e, key, valueLen, grow) ==
  LET depth == Depth(e.structs)
      comma == NeedsComma(e)
      need  == (IF key = NoKey THEN 0 ELSE EncodeStrlen(key)) + valueLen
               + ExtraSpace(key, depth, comma)
      grown == Dynamic /\ grow
      e1    == IF grown THEN GrowKey(e, need) ELSE e
      space == IF grown THEN e1.len ELSE SizeT(e.len - Len(e.txt))
  IN IF need <= space
     THEN [e |-> Append2(e1, KeyPrefix(key, depth, comma)), st |-> "SUCCESS"]
     ELSE [e |-> e1, st |-> "NO_MEMORY"]

RECURSIVE EncodeKey(_, _, _, _, _), StructStart(_, _, _, _, _)

(* iot_json_encode_key: a keyed item outside an object first opens an     *)
(* object (the root object at the top level, a wrapper elsewhere); an     *)
(* unkeyed item inside an object gets the empty key.                      *)
EncodeKey(e, key, valueLen, ok, site) ==
  LET wrap  == key # NoKey /\ (e.structs & OBJECT) = 0
      added == wrap /\ e.structs # 0
      w     == IF wrap
               THEN StructStart(e, NoKey, IF added THEN WRAPPER ELSE OBJECT, ok, "wrap")
               ELSE [e |-> e, st |-> "SUCCESS"]
      k     == IF ~wrap /\ key = NoKey /\ (e.structs & OBJECT) # 0 THEN <<>> ELSE key
      r     == EmitKey(w.e, k, valueLen, ok[site])
  IN IF w.st # "SUCCESS"
     THEN [e |-> w.e, st |-> w.st, added |-> added]
     ELSE [e |-> r.e, st |-> r.st, added |-> added]

(* A struct_start without the JSON_MAX_DEPTH ceiling.                      *)
StructStartNoCeiling(e, key, s, ok, site) ==
  LET r == EncodeKey(e, key, Indent + 2, ok, site)
  IN IF r.st # "SUCCESS" THEN [e |-> r.e, st |-> r.st]
     ELSE [e |-> [r.e EXCEPT
                    !.txt = @ \o <<IF s = ARRAY THEN StartChar(0) ELSE StartChar(1)>>,
                    !.structs = (IF r.added THEN @ ELSE (@ * 8) % 2^Width) | s],
           st |-> "SUCCESS"]

(* iot_json_encode_struct_start: check the depth ceiling, reserve room    *)
(* for the opening and closing token, write the opening token and push.   *)
StructStart(e, key, s, ok, site) ==
  IF Depth(e.structs) >= JSON_MAX_DEPTH
  THEN [e |-> e, st |-> "FULL"]
  ELSE LET r == EncodeKey(e, key, Indent + 2, ok, site)
       IN IF r.st # "SUCCESS"
          THEN [e |-> r.e, st |-> r.st]
          ELSE [e |-> [r.e EXCEPT
                         !.txt = @ \o <<IF s = ARRAY THEN StartChar(0) ELSE StartChar(1)>>,
                         !.structs = (IF r.added THEN @ ELSE (@ * 8) % 2^Width) | s],
                st |-> "SUCCESS"]

(* The realloc of iot_json_encode_struct_end to len + new_space bytes     *)
(* (no byte for the NUL); got: whether it returned a buffer.              *)
EndRealloc(e, ns, got) ==
  IF got THEN [e EXCEPT !.len = @ + ns, !.alloc = e.len + ns] ELSE e

(* One turn of the loop of iot_json_encode_struct_end for bit i of the    *)
(* innermost level: grow or fail if the closing may not fit, then write   *)
(* newline, indentation and the closing token.                            *)
CloseBit(acc, i, s, ok, junk) ==
  IF ~Bit(s, i) THEN acc
  ELSE LET e     == acc.e
           short == Indent * acc.depth + 2 > acc.space
           ns    == acc.depth * Indent + 2
           grown == short /\ Dynamic /\ ok[<<"b0", "b1", "b2">>[i + 1]]
           st    == IF short /\ ~grown THEN "NO_MEMORY" ELSE acc.st
           e1    == IF short /\ Dynamic THEN EndRealloc(e, ns, grown) ELSE e
           sp1   == IF grown THEN acc.space + ns ELSE acc.space
           nl    == Indent > 0 /\ PrevByte(e1.txt, junk) \notin {StartChar(0), StartChar(1)}
       IN IF st # "SUCCESS"
          THEN [acc EXCEPT !.e = e1, !.st = st, !.space = sp1]
          ELSE [e     |-> Append2(e1, (IF nl THEN <<"\n">> \o Spaces(Indent * acc.depth)
                                               ELSE <<>>) \o <<EndChar(i)>>),
                st    |-> st,
                depth |-> IF Indent > 0 THEN acc.depth - 1 ELSE acc.depth,
                space |-> SizeT(sp1 - (IF nl THEN Indent + 1 ELSE 0) - 1)]

(* iot_json_encode_struct_end: close every bit of the innermost level,    *)
(* then pop the level whatever the result.                                *)
StructEnd(e, s, ok, junk) ==
  IF (e.structs & s) = 0
  THEN [e |-> e, st |-> "BAD_REQUEST"]
  ELSE LET acc0 == [e |-> e, st |-> "SUCCESS", depth |-> Depth(e.structs) - 1,
                    space |-> SizeT(e.len - Len(e.txt))]
           acc  == FoldLeft(LAMBDA a, i : CloseBit(a, i, e.structs, ok, junk), acc0, <<0, 1, 2>>)
       IN [e |-> [acc.e EXCEPT !.structs = @ \div 8], st |-> acc.st]

(* An adder that writes the value even though the key could not be put.  *)
AddValueWritesOnFailure(e, key, bytes, valueLen, ok, junk) ==
  IF key = NoKey /\ e.structs = 0
  THEN [e |-> e, st |-> "BAD_REQUEST"]
  ELSE LET r == EncodeKey(e, key, valueLen, ok, "key")
       IN IF r.st # "SUCCESS" THEN [e |-> Append2(r.e, bytes), st |-> r.st]
          ELSE IF r.added THEN StructEnd(Append2(r.e, bytes), WRAPPER, ok, junk)
          ELSE [e |-> Append2(r.e, bytes), st |-> "SUCCESS"]

(* The scalar adders: a bare scalar may not be the root; otherwise emit   *)
(* the key, write the value's bytes and close an auto-inserted wrapper.  *)
AddValue(e, key, bytes, valueLen, ok, junk) ==
  IF key = NoKey /\ e.structs = 0
  THEN [e |-> e, st |-> "BAD_REQUEST"]
  ELSE LET r == EncodeKey(e, key, valueLen, ok, "key")
       IN IF r.st # "SUCCESS" THEN [e |-> r.e, st |-> r.st]
          ELSE IF r.added THEN StructEnd(Append2(r.e, bytes), WRAPPER, ok, junk)
          ELSE [e |-> Append2(r.e, bytes), st |-> "SUCCESS"]

-----------------------------------------------------------------------------
(* The backward scans of object_cancel and object_clear, on 0-based       *)
(* positions: ByteAt(t, p) is buf[p].                                      *)
ByteAt(t, p) == t[p + 1]

(* while ( new_pos > buf && ( depth_count > 0u || *new_pos != '{' ) )      *)
RECURSIVE ScanOpen(_, _, _)
ScanOpen(t, p, dc) ==
  IF p > 0 /\ (dc > 0 \/ ByteAt(t, p) # "{")
  THEN ScanOpen(t, p - 1, dc - (IF ByteAt(t, p) = "{" THEN 1 ELSE 0)
                             + (IF ByteAt(t, p) = "}" THEN 1 ELSE 0))
  ELSE p

(* while ( new_pos > buf && *(--new_pos) == ' ' );                         *)
RECURSIVE SkipSpaces(_, _)
SkipSpaces(t, p) ==
  IF p > 0 THEN (IF ByteAt(t, p - 1) = " " THEN SkipSpaces(t, p - 1) ELSE p - 1) ELSE p

(* while ( new_pos > buf && *new_pos != ',' && != '{' && != '[' ) --new_pos *)
RECURSIVE KeyBack(_, _)
KeyBack(t, p) ==
  IF p > 0 /\ ByteAt(t, p) \notin {",", "{", "["} THEN KeyBack(t, p - 1) ELSE p

(* Where object_cancel leaves the cursor.                                  *)
CancelPos(t) ==
  LET save == ScanOpen(t, Len(t) - 1, 0)
      q    == SkipSpaces(t, save)
  IN IF q > 0 /\ ByteAt(t, q) = ":" THEN KeyBack(t, q - 1) ELSE save + 1

(* Where object_clear leaves the cursor.                                   *)
ClearPos(t) == ScanOpen(t, Len(t) - 1, 0) + 1

(* Move the cursor back to p; the bytes from p on stay in memory, so      *)
(* buf[0] keeps its old byte when p = 0.                                   *)
Truncate(e, p) ==
  [e EXCEPT !.txt = SubSeq(e.txt, 1, p), !.b0 = IF p = 0 THEN Byte0(e) ELSE @]

(* *encoder->buf = '\0'                                                    *)
ClearByte0(e) ==
  IF e.txt = <<>> THEN [e EXCEPT !.b0 = "NUL"] ELSE [e EXCEPT !.txt[1] = "NUL"]

-----------------------------------------------------------------------------
(* What iot_json_encode_dump writes after cur: for every level, inner     *)
(* first, every set bit's closing token, preceded when indenting by a     *)
(* newline and indentation unless it follows an opening token.            *)
DumpCloseBit(acc, i, g, junk) ==
  IF ~Bit(g, i) THEN acc
  ELSE LET nl == Indent > 0 /\ PrevByte(acc.t, junk) \notin {StartChar(0), StartChar(1)}
       IN [t     |-> acc.t \o (IF nl THEN <<"\n">> \o Spaces(Indent * (acc.depth - 1))
                               ELSE <<>>) \o <<EndChar(i)>>,
           depth |-> IF Indent > 0 THEN acc.depth - 1 ELSE acc.depth]

RECURSIVE DumpLevels(_, _, _)
(* A dump that closes the bits of a level from bit 2 down to bit 0.       *)
DumpLevelsReversed(acc, s, junk) ==
  IF s = 0 THEN acc
  ELSE DumpLevels(FoldLeft(LAMBDA a, i : DumpCloseBit(a, i, s % 8, junk), acc, <<2, 1, 0>>),
                  s \div 8, junk)

DumpLevels(acc, s, junk) ==
  IF s = 0 THEN acc
  ELSE DumpLevels(FoldLeft(LAMBDA a, i : DumpCloseBit(a, i, s % 8, junk), acc, <<0, 1, 2>>),
                  s \div 8, junk)

(* dump writes nothing and returns NULL when buf is NULL or *buf = '\0'.  *)
DumpWrites(e) == e.alloc > 0 /\ Byte0(e) # "NUL"

(* The closing bytes dump appends after cur (junk: the byte before buf).  *)
Closing(e, junk) ==
  LET all == DumpLevels([t |-> e.txt, depth |-> Depth(e.structs)], e.structs, junk).t
  IN SubSeq(all, Len(e.txt) + 1, Len(all))

-----------------------------------------------------------------------------
(* Initial state: no encoder yet.                                          *)
Init ==
  /\ enc = [txt |-> <<>>, b0 |-> "NUL", len |-> 0, alloc |-> 0, structs |-> 0]
  /\ live = FALSE
  /\ status = "SUCCESS"
  /\ op = "none"
  /\ dumped = NullDump

(* iot_json_encode_initialize.  Dynamic: the struct is malloc'ed (which   *)
(* may fail) and buf is NULL.  Fixed: the struct is placed at the start   *)
(* of the caller's buffer and zeroed, the bytes after it are not.         *)
Initialize ==
  /\ ~live
  /\ \/ /\ Dynamic
        /\ \/ /\ enc' = [txt |-> <<>>, b0 |-> "NUL", len |-> 0, alloc |-> 0, structs |-> 0]
              /\ live' = TRUE
           \/ /\ ReallocMayFail
              /\ UNCHANGED <<enc, live>>
     \/ /\ ~Dynamic
        /\ \E junk0 \in {"NUL", Junk} :
             enc' = [txt |-> <<>>, b0 |-> junk0, len |-> Capacity,
                     alloc |-> Capacity, structs |-> 0]
        /\ live' = (Capacity >= 1)
  /\ status' = "SUCCESS"
  /\ op' = "initialize"
  /\ dumped' = NullDump

(* iot_json_encode_terminate: frees the buffer and the encoder.            *)
Terminate ==
  /\ live
  /\ live' = FALSE
  /\ op' = "terminate"
  /\ UNCHANGED <<enc, status, dumped>>

RootClosed == enc.structs = 0 /\ enc.txt # <<>>

(* A mutating call is made on a live encoder, within the length bound.   *)
CallGuard(name) ==
  /\ live
  /\ name \in Ops
  /\ ~(AbandonOnNoMemory /\ status = "NO_MEMORY")
  /\ enc.len <= MaxLen

(* Every combination of realloc outcomes a call may meet.                  *)
ReallocOutcomes ==
  IF ReallocMayFail THEN [ReallocSites -> BOOLEAN] ELSE {[x \in ReallocSites |-> TRUE]}

(* The byte a read of buf[-1] may return.                                  *)
JunkBytes == {Junk, "{"}

(* A call's result r becomes the encoder and the returned status.         *)
Apply(r) ==
  /\ enc' = r.e
  /\ status' = r.st
  /\ op' = "call"
  /\ dumped' = NullDump
  /\ UNCHANGED live

ArrayStart(key) ==
  /\ ~(OneDocument /\ RootClosed)
  /\ CallGuard("array_start")
  /\ \E ok \in ReallocOutcomes, junk \in JunkBytes :
       Apply(StructStart(enc, key, ARRAY, ok, "key"))

ObjectStart(key) ==
  /\ ~(OneDocument /\ RootClosed)
  /\ CallGuard("object_start")
  /\ \E ok \in ReallocOutcomes, junk \in JunkBytes :
       Apply(StructStart(enc, key, OBJECT, ok, "key"))

ArrayEnd ==
  /\ CallGuard("array_end")
  /\ \E ok \in ReallocOutcomes, junk \in JunkBytes :
       Apply(StructEnd(enc, ARRAY, ok, junk))
ObjectEnd ==
  /\ CallGuard("object_end")
  /\ \E ok \in ReallocOutcomes, junk \in JunkBytes :
       Apply(StructEnd(enc, OBJECT, ok, junk))

AddBool(key, b) ==
  /\ ~(OneDocument /\ RootClosed)
  /\ CallGuard("bool")
  /\ \E ok \in ReallocOutcomes, junk \in JunkBytes :
       Apply(AddValue(enc, key, IF b THEN <<"t", "r", "u", "e">> ELSE <<"f", "a", "l", "s", "e">>,
                (IF b THEN 4 ELSE 5) + 2, ok, junk))

AddInteger(key, v) ==
  /\ ~(OneDocument /\ RootClosed)
  /\ CallGuard("integer")
  /\ \E ok \in ReallocOutcomes, junk \in JunkBytes :
       Apply(AddValue(enc, key, IntegerBytes(v), IntegerLen(v), ok, junk))

AddReal(key, r) ==
  /\ ~(OneDocument /\ RootClosed)
  /\ CallGuard("real")
  /\ \E ok \in ReallocOutcomes, junk \in JunkBytes :
       Apply(AddValue(enc, key, RealBytes(r), RealLen(r), ok, junk))

AddString(key, s) ==
  /\ ~(OneDocument /\ RootClosed)
  /\ CallGuard("string")
  /\ \E ok \in ReallocOutcomes, junk \in JunkBytes :
       Apply(AddValue(enc, key, <<"\"">> \o EncodeStrncpy(s) \o <<"\"">>,
                EncodeStrlen(s) + 2, ok, junk))

(* iot_json_encode_object_cancel                                           *)
CancelBody(e) ==
  IF e.structs \div 2 = 0
  THEN [e |-> e, st |-> "BAD_REQUEST"]
  ELSE LET e1 == [Truncate(e, CancelPos(e.txt)) EXCEPT !.structs = @ \div 8]
       IN [e |-> IF e1.structs = 0 THEN ClearByte0(e1) ELSE e1, st |-> "SUCCESS"]

ObjectCancel == CallGuard("object_cancel") /\ Apply(CancelBody(enc))

(* iot_json_encode_object_clear                                            *)
ClearBody(e) ==
  IF e.structs \div 2 = 0
  THEN [e |-> e, st |-> "BAD_REQUEST"]
  ELSE [e |-> Truncate(e, ClearPos(e.txt)), st |-> "SUCCESS"]

ObjectClear == CallGuard("object_clear") /\ Apply(ClearBody(enc))

(* A dump that writes the closings through cur itself and so advances it.*)
DumpMovesCursor ==
  /\ live
  /\ "dump" \in Ops
  /\ \E junk \in {Junk, "{"} :
       IF DumpWrites(enc)
       THEN /\ dumped' = [null |-> FALSE, s |-> enc.txt \o Closing(enc, junk)]
            /\ enc' = [enc EXCEPT !.txt = @ \o Closing(enc, junk)]
       ELSE /\ dumped' = NullDump
            /\ UNCHANGED enc
  /\ op' = "dump"
  /\ UNCHANGED <<live, status>>

(* iot_json_encode_dump: returns txt followed by the closings, written    *)
(* after cur without moving it; the terminating NUL lands after them.     *)
Dump ==
  /\ live
  /\ "dump" \in Ops
  /\ \E junk \in {Junk, "{"} :
       IF DumpWrites(enc)
       THEN LET c == Closing(enc, junk)
            IN /\ dumped' = [null |-> FALSE, s |-> enc.txt \o c]
               /\ enc' = IF enc.txt = <<>>
                         THEN [enc EXCEPT !.b0 = IF c = <<>> THEN "NUL" ELSE c[1]]
                         ELSE enc
       ELSE /\ dumped' = NullDump
            /\ UNCHANGED enc
  /\ op' = "dump"
  /\ UNCHANGED <<live, status>>

Next ==
  \/ Initialize
  \/ Terminate
  \/ \E k \in Keys : ArrayStart(k) \/ ObjectStart(k)
  \/ ArrayEnd
  \/ ObjectEnd
  \/ \E k \in Keys, b \in BOOLEAN : AddBool(k, b)
  \/ \E k \in Keys, v \in IntValues : AddInteger(k, v)
  \/ \E k \in Keys, r \in RealValues : AddReal(k, r)
  \/ \E k \in Keys, s \in StrValues : AddString(k, s)
  \/ ObjectCancel
  \/ ObjectClear
  \/ Dump

Spec == Init /\ [][Next]_vars

-----------------------------------------------------------------------------
(* What dump would return now, the byte before buf being junk.            *)
DumpResult(junk) ==
  IF DumpWrites(enc) THEN [null |-> FALSE, s |-> enc.txt \o Closing(enc, junk)]
  ELSE NullDump

TypeOK ==
  /\ enc.txt \in Seq(STRING)
  /\ enc.b0 \in STRING
  /\ enc.len \in Nat /\ enc.alloc \in Nat
  /\ live => Len(enc.txt) <= enc.len          \* buf <= cur <= buf + len
  /\ enc.structs \in 0..(2^Width - 1)
  /\ live \in BOOLEAN
  /\ status \in {"SUCCESS", "BAD_REQUEST", "FULL", "NO_MEMORY"}
  /\ dumped.null \in BOOLEAN

(* Whenever dump returns a string (rather than NULL) it is one JSON text, *)
(* and it returns NULL only when no container is open: the bytes the     *)
(* add/start/end/cancel/clear calls left in the buffer, closed by dump in *)
(* LIFO order, always form a valid document.                              *)
DumpIsJson ==
  live => \A junk \in {Junk, "{"} :
            LET d == DumpResult(junk)
            IN IF d.null THEN enc.structs = 0 ELSE IsJson(d.s)

(* The containers structs records as open, outermost first.  A level's   *)
(* group has one bit per token written for it: a wrapper's '{' (bit 2)   *)
(* precedes the '{' or '[' of the container started under its key.      *)
RECURSIVE OpenContainers(_)
OpenContainers(s) ==
  IF s = 0 THEN <<>>
  ELSE OpenContainers(s \div 8)
         \o (IF Bit(s, 2) THEN <<"obj">> ELSE <<>>)
         \o (IF Bit(s, 1) THEN <<"obj">> ELSE <<>>)
         \o (IF Bit(s, 0) THEN <<"arr">> ELSE <<>>)

(* The bytes before cur are a prefix of one JSON text whose unclosed      *)
(* containers are exactly the levels of the structure stack, in order:    *)
(* whatever sequence of calls succeeded or failed, the text and the      *)
(* bit-packed stack never drift apart (spec section 3, invariants 1-2).  *)
TextMatchesStack ==
  live => LET st == Run(enc.txt)
          IN st.m # "err" /\ st.stk = OpenContainers(enc.structs)

(* Every byte the encoder writes lies inside the memory allocated behind  *)
(* buf: the bytes before cur, and the closing tokens and the terminating  *)
(* NUL that dump writes after cur without a space check.                  *)
InBounds ==
  live => \A junk \in {Junk, "{"} :
            Len(enc.txt) + (IF DumpWrites(enc) THEN Len(Closing(enc, junk)) + 1 ELSE 0)
              <= enc.alloc

(* A call that fails leaves the bytes and the structure stack as they     *)
(* were, except that a keyed call may leave the object it opened          *)
(* automatically (root object or wrapper) open, as spec section 7 allows. *)
AutoObjectLeftOpen ==
  /\ enc'.structs = IF enc.structs = 0 THEN OBJECT ELSE ((enc.structs * 8) % 2^Width) | WRAPPER
  /\ IsPrefix(enc.txt, enc'.txt)

FailureIsAtomic ==
  [][ (status' # "SUCCESS" /\ op' = "call")
        => \/ (enc'.txt = enc.txt /\ enc'.structs = enc.structs)
           \/ AutoObjectLeftOpen ]_vars

(* Two dumps with no call between them return the same string.            *)
DumpIdempotent == [][ (op = "dump" /\ op' = "dump") => dumped' = dumped ]_vars

=============================================================================
