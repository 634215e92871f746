--------------------------- MODULE IotJsonFormat ---------------------------
(***************************************************************************)
(* The numeric formatters and the string escaper of the streaming JSON    *)
(* encoder (src/src/api/json/iot_json_encode.c).  Text is a sequence of   *)
(* one-byte strings; a raw C string handed to the encoder is a sequence   *)
(* of the same kind.  The control bytes that have no TLA+ string escape   *)
(* are written by name ("BS" for '\b', "NUL" for '\0').                   *)
(*                                                                         *)
(* A real is modelled as an exact fraction num/den whose denominator is a *)
(* power of two: such values are exactly representable as a double, so   *)
(* the code's multiply-by-ten / truncate loop computes exactly what this  *)
(* module computes.                                                       *)
(***************************************************************************)
EXTENDS Integers, Sequences, SequencesExt

(* JSON_ENCODE_MAX_DECIMALS                                               *)
MaxDecimals == 6

DigitByte(d) == <<"0", "1", "2", "3", "4", "5", "6", "7", "8", "9">>[d + 1]

(* Number of decimal digits the loop 'while ( i > 0 ) { i /= 10; ... }'   *)
(* counts; zero for i = 0.                                                 *)
RECURSIVE NumDigits(_)
NumDigits(i) == IF i = 0 THEN 0 ELSE 1 + NumDigits(i \div 10)

(* iot_json_encode_intlen: printable characters of a magnitude i, with    *)
(* one more for a sign or for the lone '0' of zero.                        *)
IntLen(i, neg) == (IF neg \/ i = 0 THEN 1 ELSE 0) + NumDigits(i)

(* The digits the 'while ( pos_value > 0 )' loop writes, right to left:   *)
(* none for zero.                                                          *)
RECURSIVE DecDigits(_)
DecDigits(i) == IF i = 0 THEN <<>> ELSE DecDigits(i \div 10) \o <<DigitByte(i % 10)>>

(* The sign-or-zero byte both number writers emit before the digits:      *)
(* '-' for a negative value, '0' for a zero magnitude, else nothing.      *)
SignOrZero(i, neg) ==
  IF neg THEN <<"-">> ELSE IF i = 0 THEN <<"0">> ELSE <<>>

(* iot_json_encode_integer: the bytes written and the value_len passed to *)
(* iot_json_encode_key.                                                    *)
IntegerBytes(v) ==
  LET pos == IF v < 0 THEN -v ELSE v
  IN SignOrZero(pos, v < 0) \o DecDigits(pos)
IntegerLen(v) == IntLen(IF v < 0 THEN -v ELSE v, v < 0)

(* The do { frac *= 10.0; j = (int)frac; ... } while ( frac > 0.0 &&      *)
(* i < JSON_ENCODE_MAX_DECIMALS ) loop, frac being fr/den.                *)
RECURSIVE FracDigits(_, _, _)
FracDigits(fr, den, k) ==
  LET j    == (fr * 10) \div den
      rest == fr * 10 - j * den
  IN <<DigitByte(j)>> \o
       (IF rest > 0 /\ k + 1 < MaxDecimals THEN FracDigits(rest, den, k + 1) ELSE <<>>)

(* iot_json_encode_real on the value r.num / r.den.                        *)
RealMagnitude(r) == IF r.num < 0 THEN -r.num ELSE r.num
RealIntPart(r)   == RealMagnitude(r) \div r.den
RealBytes(r) ==
  SignOrZero(RealIntPart(r), r.num < 0) \o DecDigits(RealIntPart(r))
    \o <<".">> \o FracDigits(RealMagnitude(r) % r.den, r.den, 0)
RealLen(r) == IntLen(RealIntPart(r), r.num < 0) + MaxDecimals + 1

(* Bytes iot_json_encode_strlen and iot_json_encode_strncpy escape.       *)
EscapedBytes == {"\"", "\\", "BS", "\f", "\n", "\r", "\t"}

EscapeByte(c) ==
  CASE c = "BS" -> <<"\\", "b">>
    [] c = "\f" -> <<"\\", "f">>
    [] c = "\n" -> <<"\\", "n">>
    [] c = "\r" -> <<"\\", "r">>
    [] c = "\t" -> <<"\\", "t">>
    [] c \in {"\"", "\\"} -> <<"\\", c>>
    [] OTHER -> <<c>>

(* iot_json_encode_strlen: one byte per character, one more per escape.   *)
EncodeStrlen(s) ==
  Len(s) + Len(SelectSeq(s, LAMBDA c : c \in EscapedBytes))

(* iot_json_encode_strncpy with num = EncodeStrlen(s): the escaped copy.  *)
EncodeStrncpy(s) == FlattenSeq([k \in DOMAIN s |-> EscapeByte(s[k])])

=============================================================================
