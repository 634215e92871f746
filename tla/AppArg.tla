------------------------------- MODULE AppArg -------------------------------
(***************************************************************************)
(* The command-line helpers of src/src/utilities/app_arg.c.               *)
(*                                                                         *)
(* app_arg_parse walks argv once against a table of struct app_arg,       *)
(* counting hits and storing values through param_result; app_arg_count   *)
(* reads a hit count back.  app_arg_find / app_arg_find_next iterate      *)
(* over argv for one key, and app_arg_iterator_key / _value split the     *)
(* argument the iterator stands on.                                        *)
(*                                                                         *)
(* An argument is a C string, modelled as the tuple of its characters;    *)
(* NUL is the terminator the code reads at index Len(s)+1.  A read one    *)
(* further is past the end of the string: its byte is any of JunkChars.   *)
(***************************************************************************)
EXTENDS Naturals, Sequences, SequencesExt

CONSTANTS
  Chars,      \* the characters arguments are made of, "-" and "=" among them
  NUL,        \* the terminating '\0', and a table entry's absent ch
  NoName,     \* a NULL name or param
  Unset,      \* a *param_result or *pos the parser never wrote
  Args,       \* the app_arg table: <<[ch, name, req, param, result]>>
  Tokens,     \* the arguments argv[1..] may hold
  MaxArgs,    \* bound on argc - 1
  Queries,    \* [ch, name] pairs an iterator may be created with
  JunkChars,  \* bytes a read past a terminator may return
  SizeBits,   \* width of size_t in app_arg_usage, scaled
  IntBits,    \* width of int, scaled
  UsageCols,  \* the col values app_arg_usage may be called with
  UsagePoses  \* the pos strings it may be called with

ASSUME "-" \in Chars /\ "=" \in Chars /\ NUL \notin Chars

(* struct app_arg (app_arg.h): ch ('\0' when absent), name and param      *)
(* (NULL when absent), whether the argument is required, and whether it  *)
(* has a param_result pointer; param is display text.  desc only feeds   *)
(* app_arg_usage's text and hit is kept by the parse state, so neither   *)
(* is a field here.                                                       *)
AppArgEntry ==
  [ch : Chars \cup {NUL}, name : Seq(Chars) \cup {NoName}, req : BOOLEAN,
   param : Seq(STRING) \cup {NoName}, result : BOOLEAN]

(* struct app_arg_iterator: the ch and name iterated over and the index  *)
(* of the argument reached (APP_ARG_ITERATOR_INIT is ch '\0', NULL, 0).  *)
AppArgIterator == [q : [ch : Chars \cup {NUL}, name : Seq(Chars) \cup {NoName}],
                   idx : Nat]

ASSUME Args \in Seq(AppArgEntry) /\ Queries \subseteq [ch : Chars \cup {NUL}, name : Seq(Chars) \cup {NoName}]

VARIABLES
  argv,       \* argv[1..argc-1]; argv[0], the program name, is left out
  posPtr,     \* whether the caller passed a non-NULL pos
  ps,         \* app_arg_parse's locals and what it has written so far
  it,         \* one iterator and what the caller read through it
  usage       \* the caller's app_arg_usage call and what it printed

vars == <<argv, posPtr, ps, it, usage>>

N == Len(Args)
Argc == Len(argv) + 1

(* Character k of string s, its terminator included.                      *)
Char(s, k) == IF k <= Len(s) THEN s[k] ELSE NUL

(* The byte at k, where k may run past the terminator.                    *)
Byte(s, k, junk) ==
  IF k <= Len(s) + 1 THEN Char(s, k) ELSE junk

(* The string starting at k.                                              *)
From(s, k, junk) ==
  IF k <= Len(s) + 1 THEN SubSeq(s, k, Len(s)) ELSE <<junk>>

(* os_strncmp(s, t, n) == 0: both agree on their first n characters, or  *)
(* up to a terminator they share.                                         *)
StrnEq(s, t, n) ==
  \A j \in 1..n :
     (\A m \in 1..j - 1 : Char(s, m) # NUL) => Char(s, j) = Char(t, j)

(* Index of the first '=' in s, 0 when there is none (os_strchr).         *)
EqPos(s) == SelectInSeq(s, LAMBDA c : c = "=")

IsLong(s) == Char(s, 1) = "-" /\ Char(s, 2) = "-"

(* arg_id != NULL && *arg_id == '[': the value of this entry may be left *)
(* out.                                                                    *)
OptionalId(id) == id # NoName /\ Len(id) > 0 /\ id[1] = "["

-----------------------------------------------------------------------------
(***************************************************************************)
(* app_arg_parse                                                           *)
(***************************************************************************)

(* Where a points after entry e's key, once a = argv[i] + 1: a long name   *)
(* matched with os_strncmp over strlen(name), so any argument that starts  *)
(* with the name matches it, or the short ch.  0 when e does not match.   *)
KeyEnd(a, e) ==
  IF Char(a, 2) = "-"
  THEN IF e.name # NoName /\ StrnEq(SubSeq(a, 3, Len(a)), e.name, Len(e.name))
       THEN 3 + Len(e.name) ELSE 0
  ELSE IF Char(a, 2) = e.ch THEN 3 ELSE 0

(* The while loop over the table stops at the first entry that matches.   *)
FirstMatch(a) == SelectInSeq(Args, LAMBDA e : KeyEnd(a, e) > 0)

(* A pending value that is missing fails even when its param is "[..]". *)
TakeValueNoOptional(s, a, idx) ==
  CASE s.next # 0 /\ Char(a, 1) \in {"-", NUL} -> [s EXCEPT !.result = "FAILURE"]
    [] s.next # 0 -> [s EXCEPT !.val[s.next] = a, !.next = 0]
    [] Char(a, 1) # "-" -> [s EXCEPT !.posArg = idx]
    [] OTHER -> s

(* pos_arg taken after the loop index has moved on.                       *)
TakeValuePosOffByOne(s, a, idx) ==
  CASE s.next # 0 /\ Char(a, 1) \in {"-", NUL} ->
          IF OptionalId(s.argId) THEN [s EXCEPT !.next = 0]
                                 ELSE [s EXCEPT !.result = "FAILURE"]
    [] s.next # 0 -> [s EXCEPT !.val[s.next] = a, !.next = 0]
    [] Char(a, 1) # "-" -> [s EXCEPT !.posArg = idx + 1]
    [] OTHER -> s

(* The value half of one pass of the for loop: a pending param_result     *)
(* takes this argument, or is dropped when its param starts with '['; an *)
(* argument not starting with '-' is the first positional one.            *)
TakeValue(s, a, idx) ==
  CASE s.next # 0 /\ Char(a, 1) \in {"-", NUL} ->
          IF OptionalId(s.argId) THEN [s EXCEPT !.next = 0]
                                 ELSE [s EXCEPT !.result = "FAILURE"]
    [] s.next # 0 -> [s EXCEPT !.val[s.next] = a, !.next = 0]
    [] Char(a, 1) # "-" -> [s EXCEPT !.posArg = idx]
    [] OTHER -> s

(* The option half: the first matching entry gets a hit; with a           *)
(* param_result its value follows the key, after an optional '=', or is  *)
(* the next argument; without one, anything after the key is an error.    *)
TakeOption(s, a, junk) ==
  IF s.next # 0 \/ Char(a, 1) # "-" THEN s
  ELSE LET k == FirstMatch(a)
       IN IF k = 0 THEN [s EXCEPT !.result = "FAILURE"]
          ELSE LET e  == Args[k]
                   p0 == KeyEnd(a, e)
                   p  == IF Byte(a, p0, junk) = "=" THEN p0 + 1 ELSE p0
                   s1 == [s EXCEPT !.hit[k] = @ + 1,
                                   !.over = @ \/ p0 > Len(a) + 1]
               IN CASE e.result /\ Byte(a, p, junk) # NUL ->
                         [s1 EXCEPT !.val[k] = From(a, p, junk)]
                    [] e.result -> [s1 EXCEPT !.next = k, !.argId = e.param]
                    [] Byte(a, p0, junk) # NUL ->
                         [s1 EXCEPT !.result = "FAILURE"]
                    [] OTHER -> s1

ParseInit ==
  [i |-> 1, result |-> "SUCCESS", posArg |-> 0, next |-> 0,
   argId |-> NoName, hit |-> [k \in 1..N |-> 0],
   val |-> [k \in 1..N |-> Unset], over |-> FALSE, done |-> FALSE,
   pos |-> Unset]

LoopGoesOn(s) == s.i < Argc /\ s.posArg = 0 /\ s.result = "SUCCESS"

(* One pass of the for loop over argv.                                    *)
ParseStep ==
  /\ ~ps.done
  /\ LoopGoesOn(ps)
  /\ \E junk \in JunkChars :
       LET a == argv[ps.i]
       IN ps' = [TakeOption(TakeValue(ps, a, ps.i), a, junk)
                   EXCEPT !.i = @ + 1]
  /\ UNCHANGED <<argv, posPtr, it, usage>>

(* After the loop: a value still expected, then a required entry without  *)
(* a hit, then a positional argument the caller gave no pos for, fail.   *)
ParseEnd ==
  /\ ~ps.done
  /\ ~LoopGoesOn(ps)
  /\ LET r1 == IF ps.next # 0 /\ ~OptionalId(ps.argId)
               THEN "FAILURE" ELSE ps.result
         r2 == IF r1 = "SUCCESS" /\ \E k \in 1..N : ps.hit[k] = 0 /\ Args[k].req
               THEN "FAILURE" ELSE r1
         r3 == IF r2 = "SUCCESS" /\ ~posPtr /\ ps.posArg > 0
               THEN "FAILURE" ELSE r2
     IN ps' = [ps EXCEPT !.result = r3, !.done = TRUE,
                         !.pos = IF r2 = "SUCCESS" /\ posPtr THEN ps.posArg
                                 ELSE @]
  /\ UNCHANGED <<argv, posPtr, it, usage>>

(* app_arg_count: the hits of the first entry whose ch or name is given.  *)
Count(ch, name) ==
  LET k == SelectInSeq(Args, LAMBDA e :
             \/ ch # NUL /\ ch = e.ch
             \/ name # NoName /\ e.name # NoName /\ name = e.name)
  IN IF k = 0 THEN 0 ELSE ps.hit[k]

-----------------------------------------------------------------------------
(***************************************************************************)
(* The iterator                                                            *)
(***************************************************************************)

(* A "--" argument whose key part is body matches a query: with a name,   *)
(* os_strncmp over the key's length when the argument has an '=', over    *)
(* strlen(name) when not; with neither name nor ch, everything matches.   *)
LongHit(q, body) ==
  IF q.name # NoName
  THEN IF EqPos(body) > 0 THEN StrnEq(q.name, body, EqPos(body) - 1)
                          ELSE StrnEq(q.name, body, Len(q.name))
  ELSE q.ch = NUL

(* The while loop of app_arg_find_next from index cnt, with no_key_count  *)
(* nk counted from the call's start: a bare "--" ends the scan, so do two *)
(* arguments not starting with '-'.  The loop leaves cnt on the match.    *)
RECURSIVE FindLoop(_, _, _)
FindLoop(q, cnt, nk) ==
  IF cnt >= Argc \/ nk >= 2 THEN [idx |-> cnt, match |-> FALSE]
  ELSE LET c    == argv[cnt]
           body == SubSeq(c, 3, Len(c))
           m    == CASE IsLong(c) -> body # <<>> /\ LongHit(q, body)
                     [] Char(c, 1) = "-" ->
                          IF q.ch # NUL THEN Char(c, 2) = q.ch
                                        ELSE q.name = NoName
                     [] OTHER -> FALSE
           nk2  == CASE IsLong(c) /\ body = <<>> -> 2
                     [] Char(c, 1) = "-" -> nk
                     [] OTHER -> nk + 1
       IN IF m THEN [idx |-> cnt, match |-> TRUE]
          ELSE IF nk2 < 2 THEN FindLoop(q, cnt + 1, nk2)
          ELSE [idx |-> cnt, match |-> FALSE]

(* app_arg_iterator_key: the text before '=' of a "--" argument, or the   *)
(* character after a single '-' unless it is '=' or the end.              *)
IterKey(j) ==
  LET c == argv[j]  body == SubSeq(c, 3, Len(c))
  IN CASE IsLong(c) /\ EqPos(body) > 0 -> SubSeq(body, 1, EqPos(body) - 1)
       [] IsLong(c) -> body
       [] Char(c, 1) = "-" /\ Char(c, 2) \notin {NUL, "="} -> <<c[2]>>
       [] OTHER -> <<>>

(* A "--name" without '=' that never looks at the next argument.          *)
IterValueNoNext(j, junk) ==
  LET c    == argv[j]
      body == SubSeq(c, 3, Len(c))
      own  == CASE IsLong(c) /\ EqPos(body) > 0 -> From(body, EqPos(body) + 1, junk)
                [] IsLong(c) -> <<>>
                [] Byte(c, 3, junk) = "=" -> From(c, 4, junk)
                [] Byte(c, 3, junk) = NUL -> NoName
                [] OTHER -> From(c, 3, junk)
      nxt  == IF j + 1 < Argc /\ Char(argv[j + 1], 1) # "-"
              THEN argv[j + 1] ELSE NoName
      v    == CASE Char(c, 1) # "-" -> c
                [] own # NoName -> own
                [] OTHER -> nxt
  IN IF v = NoName THEN <<>> ELSE v

(* app_arg_iterator_value: after the '=' of a "--" argument; two past a   *)
(* single '-', skipping one '='; else the next argument unless it starts  *)
(* with '-'.  A lone "-" puts value_out past its terminator.  <<>> is the *)
(* 0 the function returns for no value.                                   *)
IterValue(j, junk) ==
  LET c    == argv[j]
      body == SubSeq(c, 3, Len(c))
      own  == CASE IsLong(c) /\ EqPos(body) > 0 -> From(body, EqPos(body) + 1, junk)
                [] IsLong(c) -> NoName
                [] Byte(c, 3, junk) = "=" -> From(c, 4, junk)
                [] Byte(c, 3, junk) = NUL -> NoName
                [] OTHER -> From(c, 3, junk)
      nxt  == IF j + 1 < Argc /\ Char(argv[j + 1], 1) # "-"
              THEN argv[j + 1] ELSE NoName
      v    == CASE Char(c, 1) # "-" -> c
                [] own # NoName -> own
                [] OTHER -> nxt
  IN IF v = NoName THEN <<>> ELSE v

(* A find_next that leaves iter->idx where the call started.             *)
FindNextStale(q, from) ==
  /\ Len(it.found) <= Len(argv)
  /\ \E junk \in JunkChars :
       LET r == FindLoop(q, from + 1, 0)
       IN it' = [it EXCEPT
                   !.q = q, !.idx = IF r.match THEN from ELSE r.idx,
                   !.state = IF r.match THEN "open" ELSE "end",
                   !.found = IF r.match
                             THEN Append(@, [idx   |-> r.idx,
                                             key   |-> IterKey(r.idx),
                                             value |-> IterValue(r.idx, junk)])
                             ELSE @,
                   !.over = @ \/ (r.match /\ argv[r.idx] = <<"-">>)]
  /\ UNCHANGED <<argv, posPtr, ps, usage>>

(* One call of app_arg_find_next (or of app_arg_find, from index 0),      *)
(* followed, on a match, by the caller reading the key and the value.    *)
(* A caller iterating over argc arguments makes at most argc such calls. *)
FindNext(q, from) ==
  /\ Len(it.found) <= Len(argv)
  /\ \E junk \in JunkChars :
       LET r == FindLoop(q, from + 1, 0)
       IN it' = [it EXCEPT
                   !.q = q, !.idx = r.idx,
                   !.state = IF r.match THEN "open" ELSE "end",
                   !.found = IF r.match
                             THEN Append(@, [idx   |-> r.idx,
                                             key   |-> IterKey(r.idx),
                                             value |-> IterValue(r.idx, junk)])
                             ELSE @,
                   !.over = @ \/ (r.match /\ argv[r.idx] = <<"-">>)]
  /\ UNCHANGED <<argv, posPtr, ps, usage>>

(* The iterator and the parser share no state, so a caller that iterates *)
(* after app_arg_parse returns stands for every order of the two.         *)
IterFind ==
  /\ ps.done
  /\ it.state = "idle"
  /\ usage = NoName
  /\ \E q \in Queries : FindNext(q, 0)

IterNext == it.state = "open" /\ FindNext(it.q, it.idx)

(***************************************************************************)
(* app_arg_usage only prints the help text; what can go wrong in it is   *)
(* its column arithmetic, which is modelled here.  size_t                 *)
(* and int are scaled to SizeBits and IntBits bits: a size_t that wraps   *)
(* lands just below 2^SizeBits and its (int) cast is a small negative     *)
(* number, as with 64 and 32 bits.  Widths are what printf prints: a      *)
(* negative precision is ignored, a negative width left-justifies.        *)
(***************************************************************************)
SizeT(x) == x % (2^SizeBits)
AsInt(x) == LET lo == x % (2^IntBits)
            IN  IF lo >= 2^(IntBits - 1) THEN lo - 2^IntBits ELSE lo
Abs(x) == IF x < 0 THEN -x ELSE x
StrLen(s) == IF s = NoName THEN 0 ELSE Len(s)

(* Characters printed by "%.*s" and by "%*.*s" for a string of length n. *)
PrecWidth(p, n) == IF AsInt(p) < 0 THEN n ELSE IF AsInt(p) < n THEN AsInt(p) ELSE n
FieldWidth(w, p, n) == LET k == PrecWidth(p, n)
                       IN  IF Abs(AsInt(w)) > k THEN Abs(AsInt(w)) ELSE k

(* Mutant: the id_len > strlen(param) clamp dropped. *)
UsageIdLenNoClamp(e, c) ==
  LET l1 == IF e.ch # NUL THEN SizeT(c - 3) ELSE c
      l2 == IF e.name # NoName THEN SizeT(l1 - (StrLen(e.name) + 3)) ELSE l1
      l3 == IF e.ch # NUL /\ e.name # NoName THEN SizeT(l2 - 2) \div 2 ELSE l2
  IN  IF e.param = NoName THEN 0 ELSE l3

(* id_len: the room for the param tag, from the decremented col c.       *)
UsageIdLen(e, c) ==
  LET l1 == IF e.ch # NUL THEN SizeT(c - 3) ELSE c
      l2 == IF e.name # NoName THEN SizeT(l1 - (StrLen(e.name) + 3)) ELSE l1
      l3 == IF e.ch # NUL /\ e.name # NoName THEN SizeT(l2 - 2) \div 2 ELSE l2
  IN  IF e.param = NoName THEN 0
      ELSE IF l3 > StrLen(e.param) THEN StrLen(e.param) ELSE l3

(* One option line up to its description: what the code adds to line_len *)
(* (len) and how many characters it prints (out), before the padding.    *)
UsageLine(e, c) ==
  LET id   == UsageIdLen(e, c)
      tag  == IF e.param # NoName THEN 1 + FieldWidth(id, id, StrLen(e.param)) ELSE 0
      tagL == IF e.param # NoName THEN id + 1 ELSE 0
      sLen == IF e.ch = NUL THEN 0
              ELSE SizeT(2 + tagL + (IF e.name # NoName THEN 2 ELSE 0))
      sOut == IF e.ch = NUL THEN 0
              ELSE 2 + tag + (IF e.name # NoName THEN 2 ELSE 0)
      m0   == SizeT(c - sLen - 2)
      mx   == IF e.param # NoName THEN SizeT(m0 - SizeT(id - 1)) ELSE m0
      nLen == IF e.name = NoName THEN 0
              ELSE SizeT((IF StrLen(e.name) < mx THEN StrLen(e.name) ELSE mx) + 2 + tagL)
      nOut == IF e.name = NoName THEN 0
              ELSE 2 + PrecWidth(mx, StrLen(e.name)) + tag
  IN  [len |-> SizeT(sLen + nLen), out |-> sOut + nOut]

(* The whole line before " desc": the padding "%*.*s" of line_len = c -   *)
(* line_len spaces when line_len < c.                                    *)
UsageCol(col) == IF col > 0 THEN col - 1 ELSE col

UsagePrefix(e, col) ==
  LET c   == UsageCol(col)
      ln  == UsageLine(e, c)
      pad == SizeT(c - ln.len)
  IN  ln.out + (IF ln.len < c THEN FieldWidth(pad, pad, 1) ELSE 0)

(* The positional argument: a trailing '+' (read at pos[pos_len - 1])    *)
(* marks it repeatable, a leading '[' optional and drops the brackets.   *)
(* The name shown and the "%-.*s%*s" header line before pos_desc.        *)
UsagePos(pos, col) ==
  LET last  == SizeT(Len(pos) - 1)
      multi == last < Len(pos) /\ pos[last + 1] = "+"
      l1    == IF multi THEN Len(pos) - 1 ELSE Len(pos)
      opt   == Len(pos) > 0 /\ pos[1] = "["
      body  == IF opt THEN Tail(pos) ELSE pos
      len   == IF opt THEN SizeT(l1 - 2) ELSE l1
      shown == PrecWidth(len, Len(body))
      w     == SizeT(col - len)
  IN  [read |-> last, shown |-> shown,
       out |-> shown + Abs(AsInt(w))]

(* Once app_arg_parse has returned, the caller may print the help text    *)
(* with app_arg_usage instead of reading options.  The call's effect is  *)
(* its output: per entry the option text and the whole line up to the    *)
(* description, and the positional header line with the index of pos it *)
(* reads.  col and pos are inputs, pos in one of the documented forms.   *)
Usage ==
  /\ ps.done
  /\ it.state = "idle"
  /\ usage = NoName
  /\ \E col \in UsageCols, pos \in UsagePoses :
       usage' = [col |-> col, pos |-> pos,
                 line |-> [k \in 1..N |-> UsageLine(Args[k], UsageCol(col)).out],
                 prefix |-> [k \in 1..N |-> UsagePrefix(Args[k], col)],
                 posLine |-> UsagePos(pos, col)]
  /\ UNCHANGED <<argv, posPtr, ps, it>>

-----------------------------------------------------------------------------

Init ==
  /\ argv \in SeqOf(Tokens, MaxArgs)
  /\ posPtr \in BOOLEAN
  /\ ps = ParseInit
  /\ it = [state |-> "idle", q |-> [ch |-> NUL, name |-> NoName], idx |-> 0,
           found |-> <<>>, over |-> FALSE]
  /\ usage = NoName

Next == ParseStep \/ ParseEnd \/ IterFind \/ IterNext \/ Usage

(* A call of app_arg_parse runs to its end, and a caller that has an      *)
(* iterator open keeps calling app_arg_find_next: nothing in either       *)
(* blocks, so each step stays enabled until it is taken.                  *)
Spec ==
  /\ Init /\ [][Next]_vars
  /\ WF_vars(ParseStep \/ ParseEnd)
  /\ WF_vars(IterNext)

-----------------------------------------------------------------------------
(***************************************************************************)
(* What the parser and the iterator are for, written from the argument     *)
(* syntax they accept: "--name", "--name=value", "-c", "-cvalue",          *)
(* "-c=value", a value in the next argument, and a first positional       *)
(* argument that ends the options.  A key matches a table entry or a      *)
(* query when it is equal to its name or ch.                               *)
(***************************************************************************)

(* An argument split into its key and its inline value (NoName: none).    *)
Split(t) ==
  LET body == SubSeq(t, 3, Len(t))
  IN IF IsLong(t)
     THEN IF EqPos(body) > 0
          THEN [key |-> SubSeq(body, 1, EqPos(body) - 1),
                inline |-> SubSeq(body, EqPos(body) + 1, Len(body))]
          ELSE [key |-> body, inline |-> NoName]
     ELSE [key |-> IF Char(t, 2) \in {NUL, "="} THEN <<>> ELSE <<t[2]>>,
           inline |-> CASE body = <<>> -> NoName
                        [] body[1] = "=" -> Tail(body)
                        [] OTHER -> body]

RefEntry(t) ==
  SelectInSeq(Args, LAMBDA e :
     IF IsLong(t) THEN e.name = Split(t).key
     ELSE Split(t).key # <<>> /\ Split(t).key = <<e.ch>>)

(* One argument of the reference parse; skipped says an optional value    *)
(* was pending and this argument is not it.                               *)
RefArg(s, t, j) ==
  LET k == RefEntry(t)
      v == Split(t).inline
      o == [s EXCEPT !.next = 0]
  IN CASE s.next # 0 /\ Char(t, 1) \notin {"-", NUL} ->
            [o EXCEPT !.val[s.next] = t]
       [] s.next # 0 /\ ~OptionalId(Args[s.next].param) ->
            [s EXCEPT !.result = "FAILURE"]
       [] t = <<>> -> IF s.next # 0 THEN o ELSE [o EXCEPT !.posArg = j]
       [] Char(t, 1) # "-" -> [o EXCEPT !.posArg = j]
       [] k = 0 -> [o EXCEPT !.result = "FAILURE"]
       [] Args[k].result /\ v \notin {NoName, <<>>} ->
            [o EXCEPT !.hit[k] = @ + 1, !.val[k] = v]
       [] Args[k].result -> [o EXCEPT !.hit[k] = @ + 1, !.next = k]
       [] v # NoName -> [o EXCEPT !.result = "FAILURE"]
       [] OTHER -> [o EXCEPT !.hit[k] = @ + 1]

RECURSIVE RefFrom(_, _)
RefFrom(j, s) ==
  IF j > Len(argv) \/ s.result # "SUCCESS" \/ s.posArg # 0 THEN s
  ELSE RefFrom(j + 1, RefArg(s, argv[j], j))

RefParse == RefFrom(1, ParseInit)

RefResult(s) ==
  IF \/ s.result = "FAILURE"
     \/ s.next # 0 /\ ~OptionalId(Args[s.next].param)
     \/ \E k \in 1..N : s.hit[k] = 0 /\ Args[k].req
     \/ ~posPtr /\ s.posArg > 0
  THEN "FAILURE" ELSE "SUCCESS"

(* Options end at a bare "--" or at the second of two arguments in a row  *)
(* that do not start with '-'.                                             *)
OptionsEnd ==
  LET IsOpt(t) == Char(t, 1) = "-"
      ends == {j \in 1..Len(argv) :
                 \/ argv[j] = <<"-", "-">>
                 \/ j > 1 /\ ~IsOpt(argv[j - 1]) /\ ~IsOpt(argv[j])}
  IN IF ends = {} THEN Len(argv) + 1 ELSE Min(ends)

RefHit(q, t) ==
  IF IsLong(t)
  THEN Split(t).key # <<>> /\
       IF q.name # NoName THEN Split(t).key = q.name ELSE q.ch = NUL
  ELSE /\ Char(t, 1) = "-"
       /\ IF q.ch # NUL THEN Char(t, 2) = q.ch ELSE q.name = NoName

(* Every argument before the end of the options that a query matches,     *)
(* with its key and its value (inline, or the next argument when that is *)
(* not an option).                                                         *)
RefFound(q) ==
  LET js == SelectSeq([j \in 1..OptionsEnd - 1 |-> j],
                      LAMBDA j : RefHit(q, argv[j]))
      Val(j) == LET v == Split(argv[j]).inline
                IN CASE v # NoName -> v
                     [] j < Len(argv) /\ Char(argv[j + 1], 1) # "-" -> argv[j + 1]
                     [] OTHER -> <<>>
  IN [n \in DOMAIN js |-> [idx |-> js[n], key |-> Split(argv[js[n]]).key,
                           value |-> Val(js[n])]]

-----------------------------------------------------------------------------
(***************************************************************************)
(* Properties                                                              *)
(***************************************************************************)

Str == Seq(Chars \cup JunkChars)

TypeOK ==
  /\ ps.i \in 1..Argc
  /\ ps.next \in 0..N
  /\ ps.hit \in [1..N -> 0..MaxArgs]
  /\ \A k \in 1..N : ps.val[k] = Unset \/ ps.val[k] \in Str
  /\ ps.posArg \in 0..Len(argv)
  /\ it.state \in {"idle", "open", "end"}
  /\ it.idx \in 0..Argc
  /\ [q |-> it.q, idx |-> it.idx] \in AppArgIterator
  /\ usage = NoName \/ (usage.col \in UsageCols /\ usage.pos \in UsagePoses)
  /\ \A n \in DOMAIN it.found :
        it.found[n].idx \in 1..Len(argv) /\ it.found[n].value \in Str

(* app_arg_parse reports success exactly when argv is well formed for the *)
(* table, and then app_arg_count, every param_result and *pos say what   *)
(* the arguments said: the hits of each entry, its value, the index of    *)
(* the first positional argument.                                          *)
ParseMatchesReference ==
  ps.done =>
    LET r == RefParse
    IN /\ ps.result = RefResult(r)
       /\ ps.result = "SUCCESS" =>
            /\ \A k \in 1..N : Count(Args[k].ch, Args[k].name) = r.hit[k]
            /\ ps.val = r.val
            /\ posPtr => ps.pos = r.posArg

(* The keys and values a caller reads through app_arg_find and            *)
(* app_arg_find_next are those of the arguments that match its query, in *)
(* argv order, and once app_arg_find_next returns NULL it has given them *)
(* all.                                                                    *)
IteratorFindsAll ==
  /\ IsPrefix(it.found, RefFound(it.q))
  /\ it.state = "end" => it.found = RefFound(it.q)

(* Neither the parser nor iterator_value reads past an argument's         *)
(* terminator.                                                             *)
NoReadPastArg == ~ps.over /\ ~it.over

(* app_arg_parse returns, and an iterator a caller keeps advancing        *)
(* reaches its end.                                                        *)
Terminates ==
  /\ <>ps.done
  /\ it.state = "open" ~> it.state = "end"


(* app_arg_usage lines its descriptions up at column col: each option     *)
(* line is padded to col - 1 characters and a space unless its own text  *)
(* is longer, the positional line to col when its name fits; an option  *)
(* line that fits is printed whole (every param tag and the long name    *)
(* untruncated, per the reference FullWidth); and pos is read only       *)
(* inside the string.  The size_t subtractions on col wrap for a small   *)
(* col, so this holds only if the wrapped values cancel out.             *)
FullWidth(e) ==
  LET tag == IF e.param # NoName THEN 1 + StrLen(e.param) ELSE 0
  IN  (IF e.ch # NUL THEN 2 + tag ELSE 0)
      + (IF e.name # NoName THEN 2 + StrLen(e.name) + tag ELSE 0)
      + (IF e.ch # NUL /\ e.name # NoName THEN 2 ELSE 0)

Wider(a, b) == IF a > b THEN a ELSE b

UsageAligned ==
  usage # NoName =>
    LET c == UsageCol(usage.col)
        u == usage.posLine
    IN  /\ \A k \in 1..N :
             /\ usage.prefix[k] = Wider(usage.line[k], c)
             /\ FullWidth(Args[k]) <= c => usage.line[k] = FullWidth(Args[k])
        /\ u.read < Len(usage.pos)
        /\ usage.col >= u.shown => u.out = usage.col

=============================================================================
