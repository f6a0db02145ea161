# clicker: a verification project

clicker is a mouse-oriented text editor in C for X11: a gap buffer per text, a
cursor beside it, a table of the inputs that are held, a loop that runs one
frame after another, and a small library, mr_utils, with strings, vectors, a
test runner, a tracker of allocations and a tool that trims source files. This
directory holds TLA+ models of the parts that have logic of their own, runs of
TLC on small instances, and proofs checked by TLAPS. Paths below are those of the repository; the program is in `src/`.

To run: `tlc -config Editor.cfg MCEditor.tla`, `tlapm EditorProofs.tla`.
`PROJECT.json` says for every run its module, cfg and properties, for every
definition the lines it models, and for every property one change of the model,
a plausible mistake in the code, that makes the property fail. The changed
operators stand in the modules before the right ones, as "A mistake".

## 1. The system

    X server ──events──▶ window_pol_event ──▶ clicker_keystate (inputs, position)
                                                      │  editor_simulate
                            editor_do_binds ◀─────────┤
                                   │                  └──▶ editor_buffer_text_input
                                   ▼                                   │
      cursor (row, col) ◀── commands of binds.c ──▶ buffers.c (gap buffers) ◀┘
                                                                       │
      render_frame reads all of it; editor_frame_start/_end pace the loop

The program has one thread. `main` repeats: note the time, read all the events
of X, simulate (requests, binds, text, blinking), render, sleep. The test
runner of mr_utils has one thread per core, and in a debug build the allocation
tracker is called by all of them. `spacers` is a program of its own: it reads
each file it is given into a vector of strings and writes them back over it.

| part | state | operations | module | status |
|---|---|---|---|---|
| gap buffers (`posix/buffers.c`) | `buffers[]`: mapping, `gap_start`, `gap_end` | create, load, insert, delete, move gap, grow, save, destroy | GapBuffer, Buffers, Document | modelled |
| text walks (`buffers.c`, `utils.c`) | none | seek, line, row length, rows, row and column to gap | Walk | modelled |
| commands and cursor (`binds.c`, `editor.c`) | `cursor.row`, `cursor.col` | arrows, click, text, backspace | Editor | partly |
| inputs and binds (`x11/window.c`, `editor.c`, `binds.c`) | `inputs[]`, mouse position, `is_running` | poll, add, consume, simulate, binds, text | Inputs | partly |
| buttons (`button.c`) | `registered_buttons` | register, purge, click | Buttons | modelled |
| frame clock (`posix/time.c`, `editor.c`) | `last_tick`, last toggle, visibility | frame start, blink, frame end, sleep | FrameClock | modelled |
| test runner (`mr_utils/src/mrt_test.c`) | shared counter, each group's cases and passes | fetch, run, append a case, log, join | TestRunner | partly |
| allocation tracker (`mr_utils/src/mrd_debug.c`) | `active_allocations[]`, next id | malloc, calloc, realloc, free, mmap, munmap | AllocTracker | partly |
| rendering (`render.c`, `x11/draw.c`) | cairo objects | draw the text, the cursor, the overlay | Render | partly: the walk over the text |
| vectors (`mr_utils/src/mrv_vectors.c`) | block, length, capacity | append, remove, filter, copy, cut | Vectors | partly |
| strings (`mr_utils/src/mrs_strings.c`) | block, length, capacity | set, push, concatenate, find, filter, trim | Strings | partly |
| tools (`mr_utils/tools`) | the file, the lines | `spacers`: write, check | Spacers | partly |
| window life cycle | X objects | init, free | | not modelled |
| arguments, errors, exit | `err_str` | messages | | not modelled |
| logger, tests | | | | not modelled |

### What makes each part correct, and what makes it hard

* **Gap buffers.** To its callers a buffer is a plain text with a point. The
  hard part is what happens at the edges: the gap that fills up and is remapped
  under a function that still holds the old pointer, a file that fits the page
  but not the text area, a failed `mmap` that is reported to nobody, gaps
  between the bytes of a character, two index spaces (with and without gap).
* **Cursor.** Row and column are kept beside the gap. Each command moves both
  by code of its own, with tabs that are wider than one column, characters
  longer than one byte and 16-bit coordinates. The two must say the same place.
* **Inputs.** Events of the user, X's auto-repeat and the frames of the program
  interleave. An entry must leave the table when it should: by a release, a
  bind or the insertion of its text. The table has 16 places, and taking an
  entry out moves the last one into its place.
* **Buttons.** The table is changed by the loop that walks over it.
* **Clock.** Times are pairs of seconds and nanoseconds; a borrow or a
  comparison that is wrong shows only when the second changes in a frame.
* **Test runner.** The counter is incremented under a mutex and read outside it,
  so that two workers may run one group, whose cases and passes have no mutex.
* **Allocation tracker.** It must mirror the C library, which hands out freed
  addresses again, with a table that can be full, and it is asked to free blocks
  that it was never told of.
* **Rendering.** The text is drawn in pieces, between tabs, row ends and the
  gap, with a column counted by the renderer itself. It must come to an end and
  put each character where the cursor's row and column say.
* **Strings and vectors.** Length, capacity and block must agree after any
  sequence of calls; a capacity that is larger than the block is a store outside
  of it, some calls later.
* **Spacers.** It rewrites a file in place and keeps no copy. Any step may fail
  or be the last one, and whether a file is good is decided twice, by different
  code, for writing and for checking.

`PROJECT.json` lists the hazards with their lines and the properties that
cover each.

## 2. Modules

* `GapBuffer`: one buffer as a record `size, gap_start, gap_end, text`, and as
  operators what the functions of `buffers.c` compute from it. `text` is a
  function on `0..MaxText(size)`, whose last byte is the terminator. Bytes are
  members of a set; `Cont` are the UTF-8 continuation bytes.
* `Texts`: sequences with a part replaced; shared by `Document` and `Buffers`.
* `Buffers` EXTENDS `GapBuffer`: the table and every call that changes it.
  `proc` is what becomes of the process and `stray` why memory was
  overwritten: after a store outside the memory a buffer owns, the process may
  fault or go on (`corrupt`), and the model follows it no further.
* `Document`: the abstract specification, a table of texts with a point. `Buffers`
  implements it with `docs = [id |-> DocOf(buffers[id])]`, where `DocOf` takes
  the gap out of the text.
* `Walk` (constant level): the loops over a buffer by characters, with what
  they read at the edge of the gap. `StopAt = Off(b)` means that the loop ran
  off the mapping. `PositionsAt`, `RowAt`, `ColAt` are the reference
  definitions on the plain text.
* `Render` (constant level) EXTENDS `Walk`: `Step` is one turn of the loop in
  `render_text_buffer`, with its piece from `start` to `ptr` that is drawn at
  column `x` and row `y`. `Drawn` is what a frame shows, a set of characters
  with their places; `Picture` is what the plain text should show.
* `Editor` EXTENDS `Buffers`, `Render`: one action per command, on the buffer
  that the program opens, with the cursor. It composes them: typing is
  `InsertUtf8` of `Buffers` and a step of the cursor, and each state can be
  drawn.
* `Inputs`: the queue of events, the keyboard, the table of inputs and the
  frame (`at`: 0 is polling, 1..8 the next bind, then the text). A key is its
  keysym and the text that comes with it. X is external: `Press`, `Release` and
  `RepeatKey` put events in the queue as X does (a repeat is a release and a press
  of a key that stays down).
* `Buttons`: the registry. A button has its id and a `birth` that only the
  model knows. `dead` is what `destroy_when` would answer.
* `FrameClock`: one action per function, and `Pass`, a nanosecond of time.
* `TestRunner`: one action per step of a worker between two points at which
  another may run. `Fetch` is the critical section, `Read` the read after it.
  `Run` calls the group's function, and each of its assertions (`Cases` gives
  them) loads and stores `pass_count` and the length of `cases` in steps of its
  own, since no mutex protects them; `Log` and `Verdict` load the two and compare.
  `Damage` is what two workers in one vector may do to the heap; the model stops
  there.
* `AllocTracker`: one action for the lock and lookup of a call, one for the C
  library's answer, one for the table and the unlock. `live` is what the C
  library holds at an address; `refused` remembers that an entry found no slot.
  `Getline` is an allocation inside of the C library, which the tracker does not
  see. `LogCommand` is the log of a call, which only some builds have.
* `Blocks` (constant level): blocks of the heap as sequences of cells that hold
  `Junk` until they are written, with `malloc`, `realloc` and stores.
* `Strings`, `Vectors` (constant level) EXTEND `Blocks`: each function of
  `mrs_strings.c` and `mrv_vectors.c` is an operator of its name that gives the
  string or vector it leaves. `bad` is set by a store outside of the block. In
  the same modules stand, as operators on plain sequences, what the calls should
  return (`CallsAgree`, `TrustingCallsAgree`, `AppendsAgree`, `RemovalsAgree`).
* `Spacers` EXTENDS `Strings`, `Vectors`: the tool `spacers`, one action per
  step of `main`, `write_file` and `check_file` between two calls of the system
  (`at` is the place). `files` is the disk, `out` what the stream has taken and
  the disk has not, `lines` the vector of strings. `Crash` may come at any
  step, and the tool is run again on what it left. `before` and `ignored` are
  history: the file as it was opened, and the failures the code passes over.
* `MC*` give the constants values. `*Proofs` hold the theorems about the module
  they are named after: `EditorProofs` first those about `GapBuffer` and
  `Buffers`, then those about `Walk`, `Render` and `Editor`, which rest on them;
  `SpacersProofs` those about `Blocks`, `Vectors`, `Strings` and `Spacers`.
  `Loops` has the lemmas they share on natural numbers and on loops.

A call that is refused (no free slot, size 0, nothing at the start of the text
to delete) changes nothing and is not a step.

## 3. Runs

| run | question | result |
|---|---|---|
| `BuffersGrowth` | one buffer that grows to a second page, callers that go by characters | `NulTerminated`, `CharIndexAgrees`, `OnCharBoundaries`, `CorruptOnlyByFile`, `DocumentSpec` hold |
| `BuffersTable` | two buffers, byte-wise calls too, failing `mmap`, growing files, short writes | `TypeOK`, `DocumentSpec` hold |
| `BuffersStale` | is the string stored to the new mapping? | **violated**: to the unmapped one |
| `Editor` | cursor, gap, walks and drawing with tabs, rows and two-byte characters | `WalksFindText`, `EditsText`, `StaysTogether`, `OnlyLostWalksLeave`, `RenderEnds`, `DrawsText` hold |
| `InputsTable` | every kind of key, a button and motion against the frames, on a table that fills up | `NoStuckCtrl`, `CommandsAreNotText`, `LettersArePreserved`, `CloseIsHonoured`, `TextsLeave` hold |
| `InputsFakeRelease` | a key released and pressed again between two polls | **violated**: Ctrl sticks |
| `RunnerWorkers` | workers under every interleaving, with the unlocked counts of a group | `NoMoreRunsThanGroups`, `WorkersGoForward`, `CountsFailures`, `Terminates` hold |
| `RunnerAtomic` | is the counter atomic, as its comment says? | **violated**: a group runs twice, another never |
| `ButtonsTable` | buttons that come, change and die | `IdsAreUnique`, `MostRecentRunsAtFirst`, `PurgeIsExact` hold |
| `FrameClock` | frames and toggles where the second changes | `FramesArePaced`, `TogglesInTime`, `TogglesApart` hold |
| `Allocations` | two threads that allocate, move and free, and a getline behind the tracker's back | `EntriesAreLive`, `NothingIsMissed`, `InspectFindsTheEntry`, `OnlyUnknownCrash` hold |
| `Spacers` | the tool on every short text, run twice, with failing memory, reads and writes and a process that is killed | `TextSurvives`, `SuccessIsTrimmed`, `CheckAgrees`, `StringCallsAgree`, `VectorCallsAgree` hold |

### Bounds, and why they are enough

* Buffers: a page of 4 bytes with a header of 1, so 3 bytes of text per page
  and 7 on two. Every branch (gap empty, string as long as the gap, longer;
  file that fits, that reaches into the header, that is cut) has an instance; a
  character has at most two bytes. In `BuffersTable`, `MaxPages = 1` keeps two
  buffers small, growth is the question of `BuffersGrowth`. `MaxFile` bounds
  what a save may leave in the file, not what may be loaded.
* Editor: 4 bytes of text and the growth of a page behind them, tabs two columns
  wide, `CoordRange = 9` for 2^16: no row of the instance is as long as that, so
  a coordinate wraps only where the code subtracts too much, as it would at
  2^16. The wrap of a row longer than 65535 columns is not reached.
  `ViewRows` are windows with room for a row, for two, and for all of them.
* Inputs: a table of 3, so that it fills, and 4 events of the user, a letter,
  Ctrl, an arrow, Backspace and `=`: the keys that the program treats
  differently. All but Ctrl repeat while they are held, so that an entry comes
  twice in a frame. `Hasty` allows a key to go down again while its release is still
  unread; `InputsTable` has it FALSE, and `InputsFakeRelease` shows what it does.
* Runner: 3 workers on 3 groups of one or two cases, two of which fail: workers
  overtake each other, one may get no more, and two or all three may be in one
  group at once. The error of the counter needs two workers.
* Buttons: a table of 3 and 4 registrations, so that it is filled, purged and
  filled again. Clock: seconds of 10 ns and 3 of them, a frame of 5 and a delay
  of 7, so both borrow. Tracker: 3 slots and 3 addresses, 5 entries in a run:
  enough to move a block twice, reuse an address and fill the table.
* Spacers: every text of up to three characters out of two visible ones, space,
  tab and newline, and two of four: they have empty lines in front, between and
  at the end, trailing space on any line and a last line without its newline. A
  vector that starts with room for one line (1024 in the code) grows with the
  second. Two runs: one may be killed or fail, the other finds what it left, or
  checks what it did. A write takes any number of characters.

### Fairness

Only two runs have liveness properties. In `Inputs` the main loop is weakly
fair: `main` runs it without waiting for the user (`window_pol_event` reads what
is there, the sleep ends). Nothing is assumed of the user or the X server. In
`TestRunner` each thread and each join is weakly fair: the operating system
schedules every thread that can run; no group's function is assumed to be fast,
only to return. Nothing is assumed of the logging mutex: it is taken as often as
groups are run, so who waits for it gets it.

## 4. Proofs

All hold for every value of the constants that the ASSUMEs allow. Every safety
property that a run checks is a theorem.

* `EditorProofs!TypeCorrect`: `Spec => []TypeOK`. `TypeOK` is inductive; its
  heart is that each operator of `GapBuffer` gives a gap buffer
  (`BlankIsGapBuffer`, `StoreSplices`, `GrowKeepsContent` ...).
* `Terminated`: the byte behind the text area stays `NUL`, **if a fresh mapping
  is zeroed** (`FreshByte = NUL`). That is so in a release build. In a debug
  build `mrd_mmap` fills mappings with 0xCD, and a loaded file's terminator is
  that byte. The invariant is inductive with `TypeOK`: no store of a call that
  fits reaches the terminator, and `Grow` leaves it to the mapping, its own
  `'\0'` lands one past the end (`buffers.c:426`).
* `LookupsAgree`: `CharIndexAgrees` follows from `TypeOK` alone, for any gap.
  Each lookup has its own two loops, before and behind the gap. One returns the
  offset at which it stops (`ByteIdxIsStart`), the other counts the bytes it
  leaves behind (`LogicalIdxIs`), where each loop goes on from what the one before
  had (`ByteLoopGoesOn`, `LogicalLoopGoesOn`). `Logical` keeps the order of
  offsets (`LogicalKeepsOrder`), so the characters before an offset are those
  before its place in the text, and both are the same place (`IndexesAgree`).
* `CharCallersAreSafe` and `OnlyFilesCorrupt`: under `CharCallers` (no byte-wise
  calls, memory is granted, inputs and files start with a character) gaps stay
  between characters, and only a file that does not fit corrupts.
  `OnCharBoundaries` alone is not inductive, since a load depends on the file;
  `CharInv` adds that the file starts with a character, which a save keeps
  because the text does. That a deletion never runs below the text rests on it:
  a text that is not empty starts with a character.
* `ImplementsDocument`: `Spec => DocumentSpec`. Each call maps to one action of
  `Document` or to a stutter (moves for growth, refused calls). It rests on
  lemmas on the content: `MoveGap` and `Grow` keep it,
  `Store` splices the string in at the point, `CutBack` takes out what is
  before it.
* `FrameClockProofs`: `Paced`, `InTime`, `Apart` from one invariant,
  `ClockInv`: toggle ≤ tick ≤ now, and a sleep long enough. With nonlinear
  arithmetic kept in lemmas: the pairs are ordered as their instants are
  (`OrderIsOfInstants`), the borrow is exact (`DeltaIsExact`). Assumed: the
  delay is not zero, which is so in `editor_init`.
* `AllocTrackerProofs`: `EntriesAlwaysLive`, `NothingEverMissed`,
  `InspectAlwaysFinds` and `OnlyUnknownEverCrashes`, for any number of threads,
  addresses, slots and entries. None of the properties is inductive, since
  between the lock and the unlock the table and the C library differ. The
  invariant says by how much: by the one call whose thread holds the mutex.
  `CallInv` keeps what the call found and what the C library holds of its
  addresses; `EntryInv` allows one entry of a block that is given back
  (`GivenBack`), `MissInv` one block without an entry (`Got`), and `IdInv` says
  that no slot before an active one has its id, with the ids that start at 0 like
  those of the slots never written. `AddKeeps` is the heart: the entry goes to
  the first free slot, with an id above all the others. Assumed is only that
  the callers pass a live block of the kind, handed out by the tracker or by
  getline, or NULL. A block of getline has no entry: an active entry is of a block
  that the tracker handed out and that is still there (`EntryInv`), so no release
  of an untracked block marks a stale entry of the same address and returns.
* `TestRunnerProofs`, for any number of cores and groups. `GoForward`: a worker
  never gets an index again or one before it. The invariant `Behind`: a worker's
  index is behind the counter, and from its own fetch on by two. The run
  `RunnerAtomic` shows that the same is not so of the workers together.
  `NoMoreRuns` rests on `RunInv`: each run done or to come has an increment of
  its own, among the first `NumGroups`. `FailuresAreCounted` rests on `CountInv`:
  each run is logged or about to be, and each failing log is in `err_count` or in
  the total of a worker still to be joined; and on `GroupInv`: as long as a group
  was called once, its `pass_count` and `cases` say what the one worker in it has
  done so far, and when that has logged, the verdict is that of its cases. It
  holds beside any number of groups that are run twice. Sums are cardinalities of
  sets of pairs, so that no proof needs a recursion.

* `EditorProofs`, for any page, alphabet, inputs and range of a coordinate.
  `EditorTypeCorrect` needs that the walks are there and end: `VisitedIs` says
  that a walk stays in the mapping or stops right behind it, since each turn
  goes on by a byte at least (`SeekIs`), misled or not. `EditsOnlyText` takes the
  steps of `ImplementsDocument` for typing and Backspace; all other commands
  only move the gap (`GoToKeeps`). `RenderAlwaysEnds` rests on `HasRoom`: while
  the editor runs the gap is not empty, since an insertion that would fill it
  grows it first (`buffers.c:361`). Assumed: the system grants memory, without
  which the growth fails silently and the renderer may go round for ever.
* `EditorProofs`, what the walks find. `Stops` are the starts of the characters
  and the end of the text, and `Plain` says that nothing misleads a walk: the gap
  lies between characters, its first byte is no continuation, and the terminator
  is there. Then the offsets that a walk takes are the stops, each once and in
  order (`SeekFinds`, `WalkTakesStops`), and taking the gap out maps them one to
  one, in order, onto the places between the characters of the text
  (`StopIsBoundary`, `BoundaryIsStop`, `StopsKeepOrder`). So rows and columns
  counted on the way are those of the text (`RowsAgree`, `ColumnsAgree`), which
  gives `WalksAlwaysFind`. The invariant is `PageInv`: the editor never leaves its
  first page, since it does not survive the growth (finding 1), so the terminator
  stays where `Blank` put it.
* `OnlyLostWalks`: from a cursor that has the gap with it every command goes to
  a row that is there and not beyond its end (`GoesInText`), since `Clip`, the
  guards of Left and Right and the bounds of a click see to it and the 16 bits
  only ever make a coordinate smaller (`NarrowIs`). A walk to such a place runs
  off the mapping only in the last row and inside a tab (`OnlyTabsAreMissed`).
* `CursorStaysWithGap`: typing moves the cursor by the width of the character
  and Backspace by that of the one it takes out, and the row and column of the
  text move by the same (`OneChar`, `TypingTogether`, `ErasingTogether`). Assumed:
  `OneCharInputs`, an input has one character, and `TabSpaces * MaxText(PageSize)
  < CoordRange`. The second is so of the program: 8 columns times less than 4096
  bytes. The first holds for keys; an input method that commits two characters
  with one event moves the cursor by one and the gap by two (`editor.c:38-56`).
* `DrawsTheText`: the renderer has drawn, at the start of each of its pieces, the
  characters before it at their places, and knows the place of the piece
  (`Draws`); a turn keeps that (`StepDraws`), a piece has no tab and no row end in
  it and lies on one side of the gap, so its characters stand side by side
  (`PieceIs`), and when the loop has ended it is what the text shows (`DrawnIs`).
  The invariant `DrawInv` adds to `PageInv` that the gap is not empty and the
  text has no `'\0'`, at which a piece would end. Assumed: memory is granted, and
  no input has a `'\0'`; an input is a string of C, and so ends there.
* `ButtonsProofs`, for any table, ids and boxes: `TypeCorrect`, `IdsUnique`,
  `MostRecent`, `PurgeExact`. The purge is a loop over a table that it changes;
  its invariant is `PurgedAbove`: above the place it has come to there is no
  dead button, below all is as it was, none of the others is lost and none came.
  What a click runs follows from `ByBirth`: as long as nothing was purged, a
  later place is a later birth.

* `InputsProofs`, for any keys, texts, size of the table and number of events.
  `TypeCorrect` is `InputsInv`. `LettersKept`: the entries are counted by what they
  are, `Count(s, X)`, and a removal that moves the last entry into the free place
  takes out one and keeps the rest (`CountOthers`). `CommandsNotText`: a frame
  passes the bind of Backspace once, which takes out one entry of it if there is
  one, and the text comes after. `CtrlDoesNotStick` rests on `CtrlInv`: in the
  queue the presses and releases of a Ctrl key alternate and end with what the
  key is now (`Follows`), and the table has no more Ctrls than the program has to
  take for held (`Seen`: held, or the release unread, and the press read).
  Assumed: `~Hasty`, without which the run `InputsFakeRelease` is the
  counterexample, and that Ctrl does not repeat, as X has it for modifiers.

* `SpacersProofs`, for any bytes, files of any length, command lines, first
  capacity of the vector and number of runs. (A file with a `'\0'` is outside of
  what `Strings` models, see 6, and so of what is proved.) Assumed is `SpacersAssumption`, no
  more than the types of the constants: reads, writes and memory may fail and the
  process be killed as in the runs.
  * `SpacersTypes`: `TypeInv` says that the lines in memory are whole, each string
    with its terminator in its block (`Fine`) and the vector in its own (`Fit`).
    A step keeps it because each call does, and those lemmas are on any string
    or vector: `AppendIs`, `RefitIs`, `InitIs`, `PushIs`, `TrimIs`. From it follow
    `SpacersVectorCallsAgree` and `SpacersStringCallsAgree`, by `AppendsAgreeIs`,
    `RemovalsAgreeIs`, `WholeAgree` and `TrustingAgree`: what the calls promise holds
    of **every** vector that fits its block and every whole string, not only of
    those that the tool makes. A string's capacity may be more than its block
    has, after `mrs_strndup` and `mrs_pushstr`. Of the calls that trust it,
    `mrs_setstr` and `mrs_strcat`, it is proved in which case exactly they store
    past the end, and that they do what they should in all others.
  * `SpacersTextSurvives` and `SpacersSuccessIsTrimmed`: neither is inductive, since
    both look at the file alone and what is written next comes from memory. The
    invariant is `TextInv`. While the file is read, the lines in memory are its
    lines up to `rd` (`ReadingInv`, `HasLines`). While it is written
    (`WritingInv`), the lines still to come are as they were read, and of those
    that are done each visible character was handed to the stream, in order
    and not behind its own place (`Moved`): so a store only reaches places whose
    text was moved before, however much of the stream the disk has. What was
    handed over is the trimmed text up to the line (`Puts`). A line is trimmed by
    itself and the definition speaks of the whole text; they meet in `LineStays`
    and `PickedGrows`, which count the places that stay by their rank. A tool
    that pushed longer lines than it read, or cut the file before it flushed,
    would break `Moved`.
  * `SpacersCheckAgrees`: `Looked` says what `check_file` knows of the lines up to
    `rd`, a space before their ends or an empty line last. `TrimmedIsClean` says
    that a trimmed text has neither, `CleanIsTrimmed` that a text with neither is
    its own trimmed text. Tabs are in the way, since `check_file` looks for a space only
    in front of a newline (`spacers.c:114`) and `write_file` strips tabs too; the
    property names what is left.

The theorem on induction takes a predicate that the provers cannot instantiate.
`Loops` has the same by a least counterexample, in a *set* of numbers:
`EveryTurn` is the induction and `TurnsExist` says that a recursive function,
which is what the models have for a loop, has a value after each turn.

Only model-checked: liveness (`CloseIsHonoured`, `TextsLeave`, `Terminates`),
which is out of the prover's reach. A `CtrlInv` without the assumptions does not
hold, so what Ctrl does in a hasty hand is checked by the run alone.

Two changes of the models came from proofs. What `Strings` and `Spacers` promise
was stated with `SelectSeq`, a recursion of the library that the provers cannot
expand; `Picked` says the same with the rank of a place. And `Scaled` of `Vectors`
was a CASE of which two arms held for the scaling `DOUBLE` from capacity 0, one
of them with a capacity of 0, where the code goes to 1 (`mrv_vectors.c:100`): TLC
took the first arm and never saw it, the proof did not go through.

## 5. What the models show of the code

Three runs end in a counterexample, recorded under "findings":

1. `buffer_insert_utf8` keeps the pointer it looked up before the gap is
   expanded and stores the string to the unmapped buffer.
2. A key that is released and pressed again between two polls is taken for an
   auto-repeat; Ctrl then stays in the table and no text is inserted any more.
3. `atomic_fetch_increment_group_idx` reads after the unlock; groups run twice
   or not at all. The two that run a group change its counts without a lock, so
   that it may be logged as failed though its cases pass, or as passed though one
   fails, and then the number returned is not that of failed groups
   (`mrt_test.h:17`); `CountsFailures` says what is left.

Others are visible in the models, as conditions that the properties name:

* A file longer than the text area and not longer than the mapping makes
  `gap_end` wrap and overwrites the header (`CorruptOnlyByFile`).
* A failed `mmap` in the expansion is silent; the insertion goes on over the
  text (`InsertAscii`, `InsertUtf8` with FALSE in `MmapOutcomes`).
* A save does not truncate the file (`SaveToFile`).
* Backspace at the start of a row leaves the cursor at the end of the joined
  row and the gap where the rows met (the exception in `StaysTogether`).
* A continuation byte left behind in the gap misleads the walks (`Clean`).
* The bind of Backspace uses up one entry of the key in a frame. If the key
  repeated, or was pressed twice, since the last frame, there is a second entry,
  and its text, the control character, is inserted (`editor.c:33`, `:168`;
  `CommandsAreNotText` says that nothing else of it is).
* Of three letters typed within one frame the last is inserted second:
  `LettersArePreserved` counts letters and does not order them.
* After a purge the youngest button is no longer the last in the table, so
  `MostRecentRunsAtFirst` promises internal.h:471 only before.
* With an empty gap the renderer would stay at `gap_start` for ever
  (`render.c:157`). The insertions leave a byte of gap, so it ends
  (`RenderEnds`); only a failed expansion (`BuffersTable`, with FALSE in
  `MmapOutcomes`) can fill the gap, in a run that does not draw.
* A walk that is misled by a byte in the gap draws bytes of the gap: `DrawsText`
  asks for a clean buffer.
* The tracker keeps a slot for each move of a block and a free gives back one
  of them: a block moved twice costs a slot until its old address is freed
  again. Blocks of a full table are not tracked and crash the tracker when they
  are freed. In a debug build `free` in `spacers.c` is the tracker's, and the lines
  it gives are getline's: the first free of one ends the program
  (`OnlyUnknownCrash`). A calloc is recorded with the size of one member.
* `mrs_pushstr` cuts the block to the text and keeps the capacity, and
  `mrs_strndup` takes over the capacity of its source, so that it no longer is
  the number of characters allocated, as `mrs_strings.h` has it: `mrs_setstr` and
  `mrs_strcat` of more than the block has, and no more than the capacity, store
  outside of the block (`TrustingCallsAgree` states it, and the strings of the
  run come to it; the tool itself makes no such call). A string of `mrs_create` is terminated at its
  capacity, not at its length 0.
* A vector of capacity 1 does not grow by half (`mrv_vectors.c:95`), and
  `mrv_realloc_to_fit` of an empty one leaves a pointer to a freed block (`:130`).
  The callers start at 64 items or more, and only the tests call the second.
* A `spacers` that is killed between the write and `ftruncate` leaves the old
  rest of the file behind the new text. What was in the file is all there, part
  of it twice; the next run takes it for text.
* `spacers` loses text where it ignores a failure: an `mrs_init` or `mrv_append`
  without memory, a `getline` that ends in an error, an `fflush` that fails
  before the file is cut. `ignored` names them, and `TextSurvives` and
  `SuccessIsTrimmed` exempt them.
* The check of `spacers` takes no notice of trailing tabs and of a missing last
  newline, and it complains of a space that is the last but one character of a
  last line without a newline: `CheckAgrees` is stated where the two agree. A file
  that cannot be opened or an unknown option does not change the exit code.

## 6. Not modelled

Colours, the cursor's rectangle, the overlay and the surfaces of `render.c` and
`x11/draw.c`, and the window's life cycle: calls into cairo and X in a fixed
order, without decisions. A start row of the view other than 0, which nothing
sets. The request to resize only sets `resize_required`, which nothing resets.
Arguments and messages; the logger; the input method's filter and the shift
level of keysyms; the bind for debugging; the exit of a debug build when the
table of inputs is full; the text size; the check that a click lies in the
frame, which only drops clicks; the single-threaded test run, the text of its cases, and a runner without
memory. Of `mrd_debug.c`
backtraces, snippets and the cache of offsets, and a realloc to size 0, which
`mrv_realloc_to_fit` makes of an empty vector and nothing but a test could
(Vectors has what becomes of the vector). Of the strings a `'\0'` in the text
and the use after a free; of the vectors `mrv_qsort`, which is the C library's.
Of `spacers` the vectors of its arguments, and a vector of lines that has no
first block (`spacers.c:144`). `gf_profiling.c` writes timestamps from the
compiler's hooks and keeps no state that a decision depends on.

## 7. Plan

Done, in this order: `GapBuffer`, `Buffers` with `Document`, `Walk` and
`Editor`, `Inputs`, `TestRunner`, `Buttons`, `FrameClock`, `AllocTracker`; the
proofs about `GapBuffer`, `Buffers` and `FrameClock`; `Render` in the run
`Editor`; `Blocks`, `Strings`, `Vectors` and `Spacers`; the proofs about
`AllocTracker`, `TestRunner`, `Editor` and `Buttons`; those about the character
index, `Inputs`, what the walks find, the cursor and the screen; those about
`Strings`, `Vectors` and `Spacers`.

To extend the models: the frame of `Inputs` with the commands of `Editor` in the
place of `typed`.

To prove more: that `Spacers` implements a specification that has the file
alone, with a text that is moved step by step.
