# TLA+ models of device-cloud-lib

This directory holds the TLA+ models of the repository's C sources, the TLC
configurations that check them, and `PROJECT.json`, which records:

- the components and the status of each;
- every run and the mutants that validate its properties;
- the map from each definition to the source lines it translates;
- the findings and the hazards.

## 1. The system

The repository is the device side of a device-to-cloud agent. Its core is
the streaming JSON encoder, `src/src/api/json/iot_json_encode.c`. The
encoder writes JSON straight into one byte buffer, which is either:

- *fixed*: a buffer supplied by the caller; or
- *dynamic*: a buffer grown with `iot_json_realloc`.

It tracks the open containers in a bit-packed word, `structs`:

- Each level takes 3 bits: bit 0 is an array, bit 1 an object, and bit 2
  an object the encoder opened itself (a *wrapper*).
- A wrapper opened for a keyed container shares its level with that
  container, giving group 6 (`{` then `{`) or 5 (`{` then `[`). So the
  popcount of `structs` is the number of unclosed brackets in the text.
  The code calls that popcount the "depth".
- It undoes work (`object_cancel`, `object_clear`) by scanning the written
  bytes backwards.

The other sources are the components that feed it:

- `src/src/api/iot_option.c`: a sorted option store.
- `src/src/utilities/app_arg.c`: the command-line parser.
- `src/src/device-manager/device_manager_ota.c`: the device manager's
  software update. It registers the `manifest(ota)` action and extracts an
  update package with libarchive. Then it runs the `iot-update` tool on the
  package.
- `src/device-cloud-lib-layer/cfg/deviceCloudManagerCfg.c`: a VxWorks
  `taskSpawn` configlette.

### Inventory of the encoder

State:

| code | meaning |
|---|---|
| `buf`, `cur` | the buffer and the cursor; `buf[0..cur)` is the text |
| `len` | the writable length the code believes in |
| the real allocation | `len + 1` after a key realloc, `len` after a struct_end realloc, `len` in fixed mode |
| `structs` | the bit-packed stack of open containers |
| `flags` | indent width, expand spacing, dynamic growth |

Operations:

| operation | what it does |
|---|---|
| `initialize` | fixed or dynamic; may fail on malloc |
| `terminate` | releases the encoder |
| `array_start`, `object_start` | `struct_start`, through `iot_json_encode_key` |
| `array_end`, `object_end` | `struct_end` |
| `bool`, `integer`, `real`, `string` | `iot_json_encode_key`, then the value bytes, then closing an auto-opened wrapper |
| `object_cancel`, `object_clear` | backward scans that rewind the cursor |
| `dump` | writes the closing tokens and a NUL after `cur`, without moving it |

How the parts interact:

- Every adder goes through `iot_json_encode_key`.
- `iot_json_encode_key` may call `struct_start` to open the root object or
  a wrapper.
- `struct_start` calls `iot_json_encode_key` for its own key.
- Adders call `struct_end` to close the wrapper again.
- `dump` relies on room that earlier calls reserved.

The hard behaviours, and the properties that make the encoder correct:

- **Text in step with the stack.** Every call must keep the bytes before
  `cur` in step with the structure stack. They must be a JSON prefix whose
  open containers are exactly the levels of `structs`.
- **Valid dump.** `dump` must return one JSON text.
- **Memory.** No byte may be written outside the allocation, `dump`'s
  closings and NUL included.
- **Atomic failure.** A failed call must change nothing. The one exception,
  by spec section 7, is an auto-opened object left open.
- **Repeatable dump.** `dump` must be repeatable.
- **Hard paths.** These are partial failure (a realloc failing between two
  writes of one call), the reservation arithmetic of the fixed buffer, the
  size_t `space` counter, and the undo scans over bytes that may contain
  keys and strings.

## 2. Modules

| module | models | state and actions |
|---|---|---|
| `JsonGrammar` | nothing (the yardstick) | A pushdown recogniser of RFC 8259 text. `IsJson(t)` is the reference. `Run(t).stk` gives the containers a prefix leaves open. |
| `IotJsonFormat` | `iot_json_encode_intlen`, the digit loops of `_integer` and `_real`, `_strlen`, `_strncpy` | Pure operators. A real is an exact dyadic fraction `num/den`, which the code's multiply-by-ten loop handles exactly as the model does. |
| `IotJsonEncode` | all of `iot_json_encode.c` outside `IOT_JSON_JANSSON` | Described below. |
| `MCIotJsonEncode` | | The constant sets (keys, values, call sets) for the cfgs. |
| `OptionMap` | the promise of `iot_option.c` | The abstract map from names (up to case) to values, at most `IOT_OPTION_MAX` of them, with `Set`, `Clear` and `Get`. |
| `IotOptions` | `iot_option.c`, heap build | Described below. |
| `MCIotOptions` | | The names, their `os_strncasecmp` order, and handle symmetry. |
| `AppArg` | `app_arg.c`: `app_arg_parse`, `app_arg_count`, `app_arg_find`, `app_arg_find_next`, `app_arg_iterator_key`, `app_arg_iterator_value` | Described below. |
| `MCAppArg` | | The argument tables, argument sets and iterator queries for the cfgs. |
| `DeviceManagerOta` | `device_manager_ota.c`: register, deregister, the `manifest(ota)` handler, `_install_execute`, `_extract_package`, `_extract_package_perform`, `_copy_data` | Described below. |
| `MCDeviceManagerOta` | | The package: one entry with data and one empty entry. |

`IotJsonEncode` in detail:

- **Variable `enc`.** It holds the text `txt` (= `buf[0..cur)`), `b0` (the
  byte at `buf[0]` while nothing is written), `len`, `alloc` and `structs`.
- **Other variables.** `live` is whether the encoder exists, `status` is
  the last result, `op` is the kind of the last step, and `dumped` is what
  the last dump returned.
- **Actions.** There is one action per public function: `Initialize`,
  `Terminate`, `ArrayStart`, `ObjectStart`, `ArrayEnd`, `ObjectEnd`,
  `AddBool`, `AddInteger`, `AddReal`, `AddString`, `ObjectCancel`,
  `ObjectClear` and `Dump`.
- **Internal helpers.** `iot_json_encode_key` is `EncodeKey` and `EmitKey`,
  `struct_start` is `StructStart`, and `struct_end` is `StructEnd` and
  `CloseBit`. They are operators from an encoder record to
  `[e, st(, added)]`, so a call's nested helpers are one atomic step, as in
  the single-threaded code.
- **Realloc and junk inputs.** Each realloc of a call has an outcome
  `ok[site]` chosen by the action. struct_end and dump read `*(cur - 1)`
  with no `cur > buf` test (unlike `iot_json_encode_key` at line 610), so
  there a read of `buf[-1]` returns a junk byte, either `?` or `{`.

`IotOptions` in detail:

- **Variables.** `opts` is `option[0 .. option_count)`, as records of
  `[name, val]`. A slot inserted but not yet named has `NoName`. `alloc`
  is the size of the last `os_realloc` of the array. `reach` is how far
  the last call's memmoves read or wrote. `lib` is `lib->options` and
  `live` is the set of stores allocated and not yet freed.
- **Find.** `iot_options_find` is the recursive `Search` (the binary
  search loop) plus `Find` (the one-slot look-ahead after it).
  `NameKey` stands for `os_strncasecmp` up to `IOT_NAME_MAX_LEN`:
  `"a"` and `"A"` share a key.
- **Set and clear.** `Set(name, v)` is `iot_options_set_data`, reached
  through every `_set_*` and, with `NullVal`, `_clear`. `SetData`
  translates it statement by statement: delete, the FULL assignment, the
  insert with its realloc, naming the slot, and the copy with its
  roll-back. The outcome of every allocation is an input.
- **Crash.** A comparison against a NULL name is undefined behaviour; the
  model takes it to crash, and `crashed` stops the store.
- **Library list.** `Allocate` and `Free` are `iot_options_allocate` and
  `iot_options_free` on `lib`. A failed allocate changes nothing. `Free`
  is the code's own steps:
  - it searches for the first slot holding the store;
  - it moves the slots after it down with `MemmoveDown`;
  - `FreeCount` is the count of slots moved, `options_count - i - 1`;
  - it drops the last slot, which is `--options_count`.
- **Refinement.** `AbstractMap` maps the array to `OptionMap`'s map, and
  `RefinesOptionMap` is `OptionMap`'s `Spec` under that mapping.

`AppArg` in detail:
- **Strings.** An argument is the tuple of its characters. `Char(s, k)`
  reads character k, and `NUL` at `Len(s)+1`. A read further than that is
  past the string: its byte is one of `JunkChars`, chosen with `\E`, and
  the `over` flag records it. `StrnEq` is `os_strncmp(...) == 0` and
  `EqPos` is `os_strchr(.., '=')`.
- **State.** The state is:
  - `argv`, chosen in `Init` from every vector of at most `MaxArgs` tokens;
  - `posPtr`, whether the caller passes `pos`;
  - `ps`, the parser's locals (`i`, `result`, `pos_arg`, `next_arg` as a
    table index, `arg_id`) and what it has written (`hit`, the
    `*param_result` values, `*pos`);
  - `it`, one iterator (query, `idx`), plus the keys and values the
    caller read at each match.
- **Parser actions.** `ParseStep` is one pass of the `for` loop. It is
  `TakeValue` (lines 274-290), then `TakeOption` (291-349, with the table
  scan `FirstMatch` and the key test `KeyEnd`). `ParseEnd` is lines
  350-389.
- **Iterator actions.** `IterFind` is `app_arg_find`. `IterNext` is
  `app_arg_find_next`: `FindLoop` is its loop, and `IterKey`/`IterValue`
  are the two readers. `ch` and `name`, kept by the parser only for error
  messages, are left out.
- **Reference.** `RefParse` and `RefFound` are a second, independent
  reading of the argument syntax. Keys match a name or ch exactly. Options
  end at `--` or at two non-option arguments in a row. The properties
  compare the code with them.
- **The `req` field.** `app_arg.c` reads `arg->req`, but the `struct
  app_arg` of `app_arg.h` has `int flags` instead. The model follows the
  `.c` file: `req` is a boolean per entry. `APP_ARG_FLAG_MULTI` and
  `APP_ARG_FLAG_PARAM_OPTIONAL` are never read; an optional value is
  recognised by a `param` that starts with `[`.
- **Structs.** `AppArgEntry` and `AppArgIterator` are the record sets of
  `struct app_arg` and `struct app_arg_iterator` (`app_arg.h`).
- **Usage.** The `Usage` action is one `app_arg_usage` call. It is enabled
  once the parse has returned, and only if no iterator has been opened: a
  caller prints the help text instead of reading its options. `col` and
  `pos` are inputs, and `pos` takes one of the four forms the header
  documents. The call's effect is its output, so `usage` records the
  output: for each entry, the option text (`UsageLine`) and the width up
  to the description (`UsagePrefix`); for `pos`, the header line
  (`UsagePos`). The helpers are as follows:
  - `UsageCol` is the `--col` of line 476.
  - `UsageIdLen` is the `id_len` computation (lines 493-509).
  - `UsageLine` is the option text and its `line_len` bookkeeping
    (510-553).
  - `UsagePrefix` is the padding (554-559).
  - `SizeT` and `AsInt` are `size_t` and `int` at scaled widths.
    `SizeBits = 12` and `IntBits = 8` stand for 64 and 32, because TLC
    integers are 32-bit. A wrapped `size_t` still lands just below
    `2^SizeBits`, and its `(int)` cast is still a small negative number.
  - `PrecWidth` and `FieldWidth` are printf's rules: a negative precision
    is ignored, and a negative width left-justifies.
  - `FullWidth` is an independent reference: the width of an option line
    printed whole.

`DeviceManagerOta` in detail:

- **What is explored.** The code is sequential. The model explores its
  environment: libarchive, the file system and `os_system_run_wait`. Each
  call into them returns any code the code tells apart. The libarchive
  codes keep their `archive.h` values (EOF 1, OK 0, WARN -20, FAILED -25,
  FATAL -30), because the code compares them with `<`.
- **Install steps.**
  - `InstallBegin` is the start of `install_execute` and the whole of
    `extract_package` up to the entry loop (`ExtractPackage`). The steps
    covered are the directory check, `getcwd`, the `chdir` into the
    package, `file_exists` and `archive_read_open_filename`. `saved` is
    what `cwd[]` holds: the directory `getcwd` returned, or garbage.
  - `ReadHeaderStop` and `ExtractEntry` are the two ways one pass of the
    `while` loop can go. `ReadHeaderStop` is a header read that returns
    EOF or an error. `ExtractEntry` writes the header, copies the data of
    a non-empty entry and finishes the entry.
  - `CopyData` is `copy_data`'s loop, a recursive operator over the
    block results. `Leave` is the loop's exit and the `chdir` back to
    `saved`. The loop is entered only when `getcwd` succeeded, so `saved`
    there is a real directory, the one extraction started in.
  - `InstallTool` is the rest of `install_execute`: the `iot-update`
    lookup, the copy, the command, the run and the delete of the copy.
- **Variables.**
  - `written` is what this install wrote of each entry: none, partial,
    full (data written but not finished) or done.
  - `ran` is the list of commands run. Each command is one of the fresh
    copy, a stale copy, the original, or garbage.
  - `copy` is a copy that an earlier call left on disk.
- **Uninitialised reads.** Two stack buffers are read uninitialised.
  - For a failed `getcwd`, the `chdir` into the package is skipped and
    the relative `file_exists` fails, so the result is `BAD_PARAMETER`.
    If `cwd[0]` is not NUL, line 445 then calls `chdir` on whatever
    `cwd[]` spells. That `chdir` fails, or lands in some `"other"`
    directory. The same `UninitByte` decides whether the first byte is
    NUL.
  - For `command_with_params`, the first byte is NUL or not. That
    outcome is the set `UninitByte`, which the constant `GarbageMayRun`
    bounds for both buffers.
- **Handler and action lifecycle.** `OtaRequest` is the handler. Its body
  is dead, so it returns `BAD_PARAMETER`. `Register` and `Deregister`
  maintain `manifest` and `live`, which counts the actions allocated and
  not freed.

The operators named `...NoQuotes`, `...ArrayOnly`, `...NoCeiling`,
`...Short`, and so on are the defective variants that validate the
properties. Each sits just before the definition it replaces.

## 3. Runs

The encoder runs use `MCIotJsonEncode`. The encoder word is scaled to
`Width = 9` bits, which gives 3 levels. This is the same ceiling arithmetic
as 64 bits / 21 levels. `OneDocument` keeps the caller to one root, as
every caller does. `AbandonOnNoMemory` is the caller contract of spec
section 7: after NO_MEMORY the caller only dumps or terminates. `MaxLen`
bounds the number of calls through `enc.len`.

### Passing runs

| run | configuration | properties |
|---|---|---|
| `emit_compact` | compact, dynamic, realloc reliable, all calls but undo, `MaxLen` 16 (475k states) | TypeOK, DumpIsJson, TextMatchesStack, InBounds |
| `undo_compact` | compact, dynamic, every call including cancel and clear, `MaxLen` 12 | DumpIdempotent |
| `fixed_indent` | indent 1, fixed 24-byte buffer, abandon on NO_MEMORY | TextMatchesStack, FailureIsAtomic |
| `indent_realloc` | indent 1 + expand, dynamic, every realloc and the malloc may fail, abandon on NO_MEMORY, `MaxLen` 24 | DumpIsJson, InBounds |

Each property is checked only where the code can break it:
- **FailureIsAtomic** is checked only in `fixed_indent`. There, NO_MEMORY
  can strike a call part-way through. In the other runs a realloc
  reliably succeeds, so a failed call returns at its entry guard before
  any change.
- **DumpIdempotent** is checked only in `undo_compact`. There, a
  cancel or clear rewind can leave the text empty with a buffer
  allocated, so dump's `buf[0]` write is reachable. In the other
  dynamic runs dump is a pure read.

The bounds are enough for these reasons:

- Every run reaches 3 nested levels, the depth ceiling (FULL), keyed and
  unkeyed items at every level, both kinds of wrapper, and every value
  kind.
- The fixed buffer is small enough that NO_MEMORY occurs at every call
  kind.
- One key (`"k"`) and the NULL key are enough: the code only tests a key
  for NULL and measures its escaped length.
- The string value `"\""` exercises escaping.

### Option store runs

The store runs use `MCIotOptions` with:

- `IOT_OPTION_MAX = 3`;
- five names in four key places;
- two values and three handles.

So a store can be full with a name left over, and the binary search meets
arrays of every length. With three handles, a store can be freed from the
front, the middle or the end of the library list.

NoNamelessOption and the store's InBounds are not checked by any run.
`options_set` never fails a name malloc and never deletes, so there the
two would restate single assignments. Each catches a defect under the
constants given under "Other defects". `CallVals` says whether the caller clears, and
`HeapVals` which values' copies may fail.

| run | expect | what it shows |
|---|---|---|
| `options_set` | pass | The run has no clears, and realloc may fail. The array stays sorted, and the store refines `OptionMap`. After any order of allocating and freeing stores, the library's list holds each live store exactly once (TypeOK, Sorted, LibListsLive, RefinesOptionMap). |
| `clear_returns_full` | violation | Clearing a stored option returns FULL (RefinesOptionMap). |

### Argument parser runs

The AppArg runs use `MCAppArg`. `app_args` uses this table:

- `-a`/`--al`, which takes a value;
- `-b`, required, with no value;
- `-c`/`--c`, whose value may be left out (`[v]`).

Its ten tokens cover the argument shapes:

- a long key, with and without `=value`;
- a short key, bare and with an attached value;
- an unexpected value on `-b`;
- `--c`;
- a plain argument, an empty argument, and `--`.

It takes every vector of up to three of those tokens: 1,111 vectors, each
with `pos` passed and not. Four iterator queries cover a ch and name
together, a ch only, a name only, and neither.

The iterator starts after the parse returns. The two share no state, so
that order stands for every order. A `Usage` call is the alternative to
the iterator after the parse (113k states, 27 s).

`Usage` takes `col` from {0, 1, 2, 4, 6, 8, 10, 12, 16, 24}:
- cols 0 to 8 make `id_len` and `max_name_len` wrap;
- cols 10 and 12 cut the param tags;
- cols 16 and 24 leave room for every line.

`MCUsagePoses` holds the positional forms the header documents: `F`,
`[F]`, `F+` and `[F]+`.

| run | expect | property | what it shows |
|---|---|---|---|
| `app_args` | pass | TypeOK, ParseMatchesReference, IteratorFindsAll, UsageAligned, Terminates | When every long argument spells a table name out in full, the parse result, hit counts, values and positional index agree with the reference parse. The iterator returns exactly the reference matches, with their keys and values. Both terminate. In the help text, each option's description starts at column `col`, or right after a longer option text, even where the `size_t` arithmetic wraps. Every option line that fits is printed whole, and `pos` is read only inside the string. |
| `app_lone_dash` | violation | NoReadPastArg | A lone `-` matches a long-only entry (`ch == '\0'`), and the parser reads past the argument's terminator. |

In `app_args`, every long argument spells a table name out in full. That
keeps the prefix match out of the run, so that the run checks everything
else. The iterator defect needs four arguments, and `app_args` stops at
three. Both defects are listed under "Other defects" below.

### OTA runs

The OTA runs use `MCDeviceManagerOta`. The package has a data entry of up
to one block and an empty entry (a directory). So both the `copy_data`
path and the size-0 path of the loop are taken. Every one of the three
codes below OK is possible at every library call.

`MaxCalls = 2` bounds two things:

- the install calls plus the OTA requests;
- the live actions.

Two installs are what it takes for an undeleted copy to become stale and
be run.

| run | expect | property | what it shows |
|---|---|---|---|
| `ota_faults` | pass | TypeOK, ExtractReportsEntries, ToolRunsOnPackage | Extraction reports SUCCESS only when every entry is written and finished. `iot-update` runs only on such a package. This holds with every library, directory, copy, delete and runner outcome, except two: the archive always opens, and the unwritten command buffer always starts with NUL (1,522 states). |
| `ota_bad_command` | violation | ToolRunsOnPackage | A failed extraction leaves `command_with_params` unwritten, and the code still runs it when its first byte is not NUL. The call returns that command's status. |

### Encoder violation runs

Each checks one property. `PROJECT.json` "findings" gives what each shows.

| run | property | what TLC finds |
|---|---|---|
| `cancel_first_member` | DumpIsJson | Cancelling an object that is the first member of its parent erases the parent's `{`; dump returns `}`. |
| `fixed_compact_overflow` | InBounds | Compact mode never reserves the outer closings; dump overflows a fixed buffer. |

### Other defects found while building the runs

TLC showed these with configurations this project no longer keeps as runs.
They are recorded as hazards in `PROJECT.json`; a hazard's note says
which configuration reaches it:

- **`object_clear` guard.** `object_clear` with an array innermost (ops
  `array_start`, `object_clear`) rewinds into the enclosing array.
  TextMatchesStack catches it.
- **Wrapper close in a fixed compact buffer.** `[[{"k":"\""` fills a fixed
  compact buffer of 12 bytes; struct_end then fails and still pops the
  wrapper. TextMatchesStack catches it.
- **Uninitialised `buf[0]`.** A fixed buffer's `buf[0]` is never
  initialised. A first dump returns `""` and a second returns NULL.
  DumpIdempotent catches it.
- **Freed store moved wrong.** With `FreeCountShort`, one slot fewer
  than `options_count - i - 1` is moved. Freeing the first of three
  stores then leaves the second one listed twice. LibListsLive catches
  it; this is the mutant of `options_set`.
- **Failed copy on update.** When the copy of a new value for a stored
  option fails, the option is removed. RefinesOptionMap catches it, with
  `HeapVals` non-empty.
- **Failed name malloc.** A failed name malloc leaves a nameless option
  slot. NoNamelessOption catches it, with `NameMallocMayFail`.
- **`array_end` pops on failure.** `array_end` whose realloc fails
  returns NO_MEMORY but still pops the array. FailureIsAtomic catches it,
  with `ReallocMayFail`.
- **Negative fraction.** `-0.5` is written `-.5`. DumpIsJson catches it,
  with -0.5 among `RealValues`.
- **Clear of an absent name.** Clearing an absent name inserts a nameless
  option slot. NoNamelessOption catches it, with `NullVal` among
  `CallVals`.
- **Delete overread.** The delete memmove reads one slot past the array.
  InBounds catches it, with `NullVal` among `CallVals`.
- **`chdir` to an uninitialised `cwd[]`** (`device_manager_ota.c:444`).
  Take `ota_bad_command.cfg` with `OpenMayFail = FALSE` and
  CwdRestored. A failed `getcwd` whose garbage `cwd[0]` is not NUL makes
  extraction `chdir` to another directory, and the device manager stays
  there. CwdRestored is checked by no run, because `ota_faults` has no
  garbage byte and so the property would hold by construction.
- **Short key matches a longer query** (`app_arg.c:98`). Take
  `app_args.cfg` with `Tokens <- MCShortKeyTokens`,
  `Queries <- MCLongQueries`, `MaxArgs = 1` and IteratorFindsAll. The
  query `--al` then returns the argument `--a=x`, because only the key's
  length of the name is compared.
- **Long-name prefix match** (`app_arg.c:302`). Take `app_lone_dash.cfg`
  with `Args <- MCPrefixArgs`, `Tokens <- MCPrefixTokens` and
  ParseMatchesReference. The parser then reads `--lv=x` as `--l` with the
  value `v=x`, because `--l` is listed first.
- **Iterator stops early** (`app_arg.c:118`). Take `app_lone_dash.cfg`
  with `Args <- MCArgs`, `Tokens <- MCSkipTokens`, `MaxArgs = 4` and
  IteratorFindsAll. Then `app_arg_find` with query `-c` over `x -a x -c`
  returns nothing: `no_key_count` counts the two non-adjacent values.
- **Archive open failure** (`device_manager_ota.c:475`). Take
  `ota_bad_command.cfg` with `GarbageMayRun = FALSE`. A failed
  `archive_read_open_filename` is only logged, and `result` stays SUCCESS.
  `iot-update` then runs on a package with nothing extracted, and the
  install returns SUCCESS. ToolRunsOnPackage and ExtractReportsEntries
  both catch it.
- **Empty positional name** (`app_arg.c:439`). Add `<<>>` to
  `MCUsagePoses`. `app_arg_usage` then reads `pos[pos_len - 1]`, where
  `pos_len - 1` has wrapped to `SIZE_MAX`: one byte before the string.
  UsageAligned catches it.
- **Positional line over-padded.** The positional header pads with `%*s`
  and `(int)(col - pos_len)`, with no `line_len < col` test like the one
  on the option lines. When `pos` is longer than `col`, the width is
  negative, and printf left-justifies `pos_len - col` spaces instead of
  printing none. For this reason UsageAligned checks the positional line
  only where its name fits.

- With realloc failures, the compact mode also overflows, for the same
  reservation reason as `fixed_compact_overflow`.
- After a keyed call fails and leaves its wrapper open, the next unkeyed
  call writes no key inside it. Spec section 7 makes the caller terminate
  in that case, and `AbandonOnNoMemory` models that.

## 4. Fairness

**Encoder and option store.** No fairness. Both are single-threaded and
synchronous (spec section 5). Their properties are safety invariants and
action properties over the caller's free choice of calls.

**`AppArg`.** Two weak-fairness conditions:

- `WF_vars(ParseStep \/ ParseEnd)`: one call of `app_arg_parse` runs its
  loop to the end. Nothing in it waits or blocks.
- `WF_vars(IterNext)`: a caller holding an open iterator keeps calling
  `app_arg_find_next` until it returns NULL. That is how the iterator is
  meant to be used.

`Usage` has no fairness condition, because whether a caller prints the
help text is its own choice.

`IterNext` is capped at `Len(argv) + 1` calls: one per possible match,
plus the final call that returns NULL. So a `find_next` that does not
advance shows up as a violation of `Terminates`. Starting an iterator is
the caller's choice and carries no fairness. A run stops once the parse
and the iterator are done, so `CHECK_DEADLOCK` is off for `AppArg`.

**`DeviceManagerOta`.** No fairness. Every property is an invariant, and
all the steps are calls the device manager may or may not make. A run
stops once `MaxCalls` installs and registrations are used up, so
`CHECK_DEADLOCK` is off.

## 5. Not modelled, and why

- **The jansson backend and the `IOT_STACK_ONLY` build.** The jansson
  backend delegates to a tree library, which is out of scope (spec
  section 1). The stack-only build only removes the realloc paths, which
  the fixed runs cover.
- **OTA, outside the model.** Several parts of `device_manager_ota.c`
  are not modelled:
  - path strings and buffer sizes, including the 1024-byte `cwd[]` that
    `getcwd` may fill with `PATH_MAX` bytes;
  - file ownership (the `chown` of an uninitialised path);
  - the metadata that `archive_write_close` applies;
  - the download, which is commented out in the source.
  The `cwd[]` size is a hazard with a note in `PROJECT.json`.
- **The configlette.** It is a single `taskSpawn` call.
- **`app_arg_usage` text.** The usage synopsis, the headings and the
  characters printed are left out. Its column arithmetic is modelled (see
  "`AppArg` in detail"). A `pos` of `"["` makes `pos_len -= 2` wrap. That
  is not one of the documented forms, so it is not among `MCUsagePoses`.
- **`test_support.h`.** It is test scaffolding.
- **Option store, outside `src/`.** `iot_common_data_copy` and
  `iot_common_arg_get` are outside `src/`. A copy may fail only for a heap
  value, and type conversion on get is not modelled. The `IOT_STACK_ONLY`
  build of the store is not modelled either.

## 6. Plan for the next sittings

1. **`IotJsonFormat` checks.** Compare `IntegerBytes` and `RealBytes`
   against a reference over bounded inputs: the parse-back value and the
   digit count. This includes the spec's "3.0 yields 3.000000" against the
   code's do-while loop, which stops at the first zero fraction.
2. **Brace-in-key run.** A violation run for the undo scans counting braces
   inside keys, using `MCBraceKeys`.
3. **`JsonDocument`.** An abstract document specification: a stack of
   frames with their start offsets, as in spec section 9. `IotJsonEncode`
   would be shown to refine it for the call sequences where the code is
   correct (no undo), with `INSTANCE ... WITH` and the abstract
   specification as a PROPERTY.
4. **Option store.** Tie each store's contents to its handle, so that
   `iot_options_free` of a store frees what that store holds.
5. **`AppArg`.** Add a property that the parser and the iterator agree on
   the value of each table entry.
6. **OTA.** Add a property on action ownership, comparing `live` with
   `manifest`, once the register callers outside `src/` are known. Then
   decide whether a warning from libarchive should be accepted.
