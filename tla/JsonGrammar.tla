---------------------------- MODULE JsonGrammar ----------------------------
(***************************************************************************)
(* Reference definition of JSON text (RFC 8259), used by the properties   *)
(* of the encoder model.  A text is a sequence of one-byte strings; the   *)
(* recogniser is a pushdown automaton folded over the bytes.  It covers   *)
(* every token the encoder can emit: objects, arrays, strings with the    *)
(* two-character escapes, numbers with an optional fraction, true and     *)
(* false.  This module models no code: it is the yardstick.               *)
(***************************************************************************)
EXTENDS Integers, Sequences, SequencesExt

DigitBytes   == {"0", "1", "2", "3", "4", "5", "6", "7", "8", "9"}
NonZeroBytes == DigitBytes \ {"0"}
WsBytes      == {" ", "\n", "\t", "\r"}
(* Bytes that may not appear unescaped inside a JSON string.              *)
ControlBytes == {"\n", "\t", "\r", "\f", "BS", "NUL"}
(* Bytes that may follow a backslash inside a JSON string.                *)
EscapeLetters == {"\"", "\\", "/", "b", "f", "n", "r", "t"}

(* Automaton state: mode, stack of open containers, whether the string    *)
(* being read is a member name, and the rest of a literal being read.     *)
Start == [m |-> "val", stk |-> <<>>, key |-> FALSE, lit |-> <<>>]

Err(st) == [st EXCEPT !.m = "err"]
Goto(st, m) == [st EXCEPT !.m = m]

(* A byte read where a value must begin.                                  *)
BeginValue(st, c) ==
  CASE c = "{"          -> [st EXCEPT !.m = "keyOrEnd", !.stk = Append(@, "obj")]
    [] c = "["          -> [st EXCEPT !.m = "valOrEnd", !.stk = Append(@, "arr")]
    [] c = "\""         -> [st EXCEPT !.m = "str", !.key = FALSE]
    [] c = "-"          -> Goto(st, "numSign")
    [] c = "0"          -> Goto(st, "numZero")
    [] c \in NonZeroBytes -> Goto(st, "numInt")
    [] c = "t"          -> [st EXCEPT !.m = "lit", !.lit = <<"r", "u", "e">>]
    [] c = "f"          -> [st EXCEPT !.m = "lit", !.lit = <<"a", "l", "s", "e">>]
    [] OTHER            -> Err(st)

(* A byte read after a complete value: a separator or a closing token.    *)
AfterValue(st, c) ==
  CASE c \in WsBytes -> st
    [] st.stk # <<>> /\ c = "," ->
         Goto(st, IF Last(st.stk) = "arr" THEN "val" ELSE "key")
    [] st.stk # <<>> /\ c = "]" /\ Last(st.stk) = "arr" ->
         [st EXCEPT !.m = "after", !.stk = Front(@)]
    [] st.stk # <<>> /\ c = "}" /\ Last(st.stk) = "obj" ->
         [st EXCEPT !.m = "after", !.stk = Front(@)]
    [] OTHER -> Err(st)

Step(st, c) ==
  CASE st.m = "err" -> st
    [] st.m \in {"val", "valOrEnd"} ->
         IF c \in WsBytes THEN st
         ELSE IF st.m = "valOrEnd" /\ c = "]" THEN AfterValue(Goto(st, "after"), c)
         ELSE BeginValue(st, c)
    [] st.m \in {"key", "keyOrEnd"} ->
         (CASE c \in WsBytes -> st
            [] c = "\"" -> [st EXCEPT !.m = "str", !.key = TRUE]
            [] st.m = "keyOrEnd" /\ c = "}" -> AfterValue(Goto(st, "after"), c)
            [] OTHER -> Err(st))
    [] st.m = "colon" ->
         (CASE c \in WsBytes -> st
            [] c = ":" -> Goto(st, "val")
            [] OTHER -> Err(st))
    [] st.m = "after" -> AfterValue(st, c)
    [] st.m = "str" ->
         (CASE c = "\\" -> Goto(st, "strEsc")
            [] c = "\"" -> Goto(st, IF st.key THEN "colon" ELSE "after")
            [] c \in ControlBytes -> Err(st)
            [] OTHER -> st)
    [] st.m = "strEsc" -> IF c \in EscapeLetters THEN Goto(st, "str") ELSE Err(st)
    [] st.m = "lit" ->
         IF st.lit # <<>> /\ c = Head(st.lit)
         THEN [st EXCEPT !.lit = Tail(@), !.m = IF Tail(st.lit) = <<>> THEN "after" ELSE "lit"]
         ELSE Err(st)
    [] st.m = "numSign" ->
         (CASE c = "0" -> Goto(st, "numZero")
            [] c \in NonZeroBytes -> Goto(st, "numInt")
            [] OTHER -> Err(st))
    [] st.m = "numDot" -> IF c \in DigitBytes THEN Goto(st, "numFrac") ELSE Err(st)
    [] st.m \in {"numInt", "numZero", "numFrac"} ->
         (CASE c \in DigitBytes /\ st.m # "numZero" -> st
            [] c = "." /\ st.m # "numFrac" -> Goto(st, "numDot")
            [] OTHER -> AfterValue(Goto(st, "after"), c))

(* The automaton after reading the bytes t[i..] from state st.            *)
RECURSIVE RunFrom(_, _, _)
RunFrom(st, t, i) == IF i > Len(t) \/ st.m = "err" THEN st ELSE RunFrom(Step(st, t[i]), t, i + 1)

(* The automaton after reading text t.                                    *)
Run(t) == RunFrom(Start, t, 1)

(* t is one complete JSON text.                                           *)
IsJson(t) ==
  LET st == Run(t)
  IN /\ st.stk = <<>>
     /\ st.m \in {"after", "numInt", "numZero", "numFrac"}

=============================================================================
