------------------------------ MODULE Spacers -------------------------------
(***************************************************************************)
(* src/src/mr_utils/tools/spacers.c, the tool that takes trailing space    *)
(* out of source files, in place: it reads a file line by line into a      *)
(* vector of strings, writes the lines over the file from its start and    *)
(* cuts off the rest.  The C library and the system under it are modelled  *)
(* with their failures: allocations, reads, writes, and a process that is  *)
(* killed between any two steps.                                           *)
(***************************************************************************)
EXTENDS Strings, Vectors

CONSTANTS
    Bytes,          \* what a file is made of
    Starts,         \* what the files can hold at first: name -> text
    Commands,       \* the command lines: sequences of options and file names
    LinesCapacity,  \* the first capacity of the vector of lines, 1024
    MaxRuns         \* how often the tool is run

ASSUME SpacersAssumption ==
    /\ \A start \in Starts : \A file \in DOMAIN start : start[file] \in Seq(Bytes)
    /\ Commands \subseteq Seq(STRING)
    /\ LinesCapacity \in Nat
    /\ MaxRuns \in Nat

VARIABLES
    files,     \* name -> what is on the disk
    runs,      \* how many times the tool was started
    is_check,  \* the option to look only
    paths,     \* file_paths
    i,         \* the file of process_files it is at, from 1
    at,        \* the place in process_files, write_file or check_file
    rd,        \* how much of the file getline has returned
    lines,     \* the vector of lines
    k,         \* how many of them are handed to fwrite
    pos,       \* the offset in the file
    out,       \* what fwrite has taken and the disk has not
    err,       \* what write_file or check_file returns
    last_line_is_empty,
    before,    \* history: what the file held when it was opened
    ignored,   \* history: failures since then that the code does not look at
    trimmed    \* history: the files that the last run over them trimmed

file_vars == <<files, before, ignored, trimmed>>
line_vars == <<lines, rd, k>>
stream_vars == <<pos, out>>
arg_vars == <<runs, is_check, paths>>

vars == <<file_vars, line_vars, stream_vars, arg_vars, i, at, err,
          last_line_is_empty>>

Empty == mrv_init(LinesCapacity)

Init ==
    /\ files \in Starts
    /\ runs = 0
    /\ is_check = FALSE
    /\ paths = <<>>
    /\ i = 0
    /\ at = "exit"
    /\ rd = 0 /\ k = 0 /\ pos = 0
    /\ lines = Empty
    /\ out = <<>>
    /\ err = "OK"
    /\ last_line_is_empty = FALSE
    /\ before = <<>>
    /\ ignored = {}
    /\ trimmed = {}

-----------------------------------------------------------------------------
(* The command line *)

CheckOptions == {"-c", "--check"}
LogOptions   == {"-h", "--help", "-v", "--version"}

IsFile(arg) == arg \in DOMAIN files

IsOption(arg) == arg \in CheckOptions \cup LogOptions

\* The options are read up to the first that is none.
Understood(args) == \A n \in DOMAIN args : IsFile(args[n]) \/ IsOption(args[n])

Start ==
    /\ at = "exit"
    /\ runs < MaxRuns
    /\ runs' = runs + 1
    /\ \E args \in Commands :
          /\ paths' = IF Understood(args)
                       THEN Picked(args, {n \in DOMAIN args : IsFile(args[n])})
                       ELSE <<>>
          /\ is_check' = \E n \in DOMAIN args : args[n] \in CheckOptions
    /\ i' = 1
    /\ at' = "open"
    /\ UNCHANGED <<file_vars, line_vars, stream_vars, err, last_line_is_empty>>

-----------------------------------------------------------------------------
(* process_files *)

name == paths[i]

\* What the process had is gone; what stdio had not written too.
Release ==
    /\ lines' = Empty
    /\ rd' = 0 /\ k' = 0 /\ pos' = 0
    /\ out' = <<>>
    /\ last_line_is_empty' = FALSE

Open ==
    /\ at = "open"
    /\ i <= Len(paths)
    /\ at' = IF is_check THEN "check" ELSE "read"
    /\ before' = files[name]
    /\ ignored' = {}
    /\ err' = "OK"
    /\ trimmed' = IF is_check THEN trimmed ELSE trimmed \ {name}
    /\ UNCHANGED <<files, line_vars, stream_vars, arg_vars, i,
                   last_line_is_empty>>

\* fopen fails, and the next file is looked at.
CannotOpen ==
    /\ at = "open"
    /\ i <= Len(paths)
    /\ i' = i + 1
    /\ UNCHANGED <<file_vars, line_vars, stream_vars, arg_vars, at, err,
                   last_line_is_empty>>

NoMoreFiles ==
    /\ at = "open"
    /\ i > Len(paths)
    /\ at' = "exit"
    /\ UNCHANGED <<file_vars, line_vars, stream_vars, arg_vars, i, err,
                   last_line_is_empty>>

-----------------------------------------------------------------------------
(* Lines *)

\* getline: the rest of the file up to a newline, and with it.
LineAt(text, start) ==
    LET ends == {n \in (start + 1)..Len(text) :
                    text[n] = Newline \/ n = Len(text)}
    IN  SubSeq(text, start + 1, CHOOSE n \in ends : \A e \in ends : n <= e)

Line == LineAt(files[name], rd)

\* A failure that the code goes on after.
Ignoring(call, granted) ==
    ignored' = IF granted THEN ignored ELSE ignored \cup {call}

\* getline returns -1 at the end, and for an error or without memory.
GetlineFails ==
    \E granted \in BOOLEAN :
        /\ granted => rd = Len(files[name])
        /\ Ignoring("getline", granted)

ReadLine ==
    /\ at = "read"
    /\ rd < Len(files[name])
    /\ rd' = rd + Len(Line)
    /\ \E given, room \in BOOLEAN :
          LET str == mrs_trim_trailing_whitespace(
                        mrs_init(Len(Line), Line, given))
              longer == mrv_append(lines, str, "INCREMENT", room)
          IN  /\ lines' = longer
              /\ ignored' = ignored
                    \cup (IF given THEN {} ELSE {"mrs_init"})
                    \cup (IF longer # lines THEN {} ELSE {"mrv_append"})
    /\ UNCHANGED <<files, before, trimmed, k, stream_vars, arg_vars, i, at,
                   err, last_line_is_empty>>

\* A mistake: one empty line is taken off the end.
StripOne(vec) ==
    IF vec.len > 0 /\ mrv_get_last(vec).len = 0 THEN mrv_pop(vec) ELSE vec

\* The empty lines at the end are freed.
Strip(vec) ==
    LET rest[n \in 0..vec.len] ==
            IF n > 0 /\ mrv_get_idx(vec, n - 1).len = 0 THEN rest[n - 1] ELSE n
    IN  [vec EXCEPT !.len = rest[vec.len]]

\* The end of the reading, up to rewind.
EndRead ==
    /\ at = "read"
    /\ GetlineFails
    /\ lines' = Strip(lines)
    /\ pos' = 0
    /\ at' = "write"
    /\ UNCHANGED <<files, before, trimmed, rd, k, out, arg_vars, i, err,
                   last_line_is_empty>>

\* A mistake: the last character, the newline, is looked at.
EndsInNoSpace(line) == Len(line) > 1 /\ line[Len(line)] = Space

\* The last character but one, for a line that ends in a newline.
EndsInSpace(line) == Len(line) > 1 /\ line[Len(line) - 1] = Space

CheckLine ==
    /\ at = "check"
    /\ rd < Len(files[name])
    /\ rd' = rd + Len(Line)
    /\ IF EndsInSpace(Line)
       THEN err' = "ERR" /\ at' = "close" /\ UNCHANGED last_line_is_empty
       ELSE /\ last_line_is_empty' = (Line = <<Newline>>)
            /\ UNCHANGED <<err, at>>
    /\ UNCHANGED <<file_vars, lines, k, stream_vars, arg_vars, i>>

EndCheck ==
    /\ at = "check"
    /\ GetlineFails
    /\ err' = IF last_line_is_empty THEN "ERR" ELSE "OK"
    /\ at' = "close"
    /\ UNCHANGED <<files, before, trimmed, line_vars, stream_vars, arg_vars, i,
                   last_line_is_empty>>

-----------------------------------------------------------------------------
(* Writing *)

\* A mistake: the file is cut before it is written, not after.
OverCut(file, offset, text) == SubSeq(file, 1, offset) \o text

\* text is stored over the file from an offset on.
Over(file, offset, text) ==
    SubSeq(file, 1, offset) \o text
        \o SubSeq(file, offset + Len(text) + 1, Len(file))

\* The first n characters of what stdio holds go to the disk.
WriteOut(n) ==
    /\ files' = [files EXCEPT ![name] = Over(@, pos, SubSeq(out, 1, n))]
    /\ pos' = pos + n
    /\ out' = SubSeq(out, n + 1, Len(out))

\* write_line_to_file.  A line that gets no newline is written without it.
WriteLine ==
    /\ at = "write"
    /\ k < lines.len
    /\ k' = k + 1
    /\ \E granted \in BOOLEAN :
          LET str == mrs_pushstr(mrv_get_idx(lines, k), <<Newline>>, granted)
          IN  /\ lines' = [lines EXCEPT !.arr[k + 1] = str]
              /\ out' = out \o Text(str)
              /\ Ignoring("mrs_pushstr", granted)
    /\ UNCHANGED <<files, before, trimmed, rd, pos, arg_vars, i, at, err,
                   last_line_is_empty>>

\* stdio writes out when its buffer is full, and a write may be short.
Drain ==
    /\ at \in {"write", "flush", "close"}
    /\ \E n \in 1..Len(out) : WriteOut(n)
    /\ UNCHANGED <<before, ignored, trimmed, line_vars, arg_vars, i, at, err,
                   last_line_is_empty>>

\* fwrite takes less than the line and write_file gives up.
ShortWrite ==
    /\ at = "write"
    /\ k < lines.len
    /\ \E n \in 0..mrv_get_idx(lines, k).len :
          out' = out \o SubSeq(Text(mrv_get_idx(lines, k)), 1, n)
    /\ lines' = Empty
    /\ err' = "ERR"
    /\ at' = "close"
    /\ UNCHANGED <<file_vars, rd, k, pos, arg_vars, i, last_line_is_empty>>

EndWrite ==
    /\ at = "write"
    /\ k = lines.len
    /\ at' = "flush"
    /\ UNCHANGED <<file_vars, line_vars, stream_vars, arg_vars, i, err,
                   last_line_is_empty>>

\* fflush, whose result is not looked at.
Flush ==
    /\ at = "flush"
    /\ at' = "truncate"
    /\ \E granted \in BOOLEAN :
          /\ Ignoring("fflush", granted)
          /\ IF granted THEN WriteOut(Len(out))
             ELSE out # <<>> /\ UNCHANGED <<files, stream_vars>>
    /\ UNCHANGED <<before, trimmed, line_vars, arg_vars, i, err,
                   last_line_is_empty>>

\* ftell: the offset, with what stdio still holds.
ftell == pos + Len(out)

\* ftruncate cuts, or fills with zeros.
Cut(file, n) == [j \in 1..n |-> IF j <= Len(file) THEN file[j] ELSE Nul]

Truncate ==
    /\ at = "truncate"
    /\ \/ files' = [files EXCEPT ![name] = Cut(@, ftell)] /\ UNCHANGED err
       \/ UNCHANGED files /\ err' = "ERR"
    /\ at' = "close"
    /\ lines' = Empty
    /\ UNCHANGED <<before, ignored, trimmed, rd, k, stream_vars, arg_vars, i,
                   last_line_is_empty>>

\* fclose, which drops what it cannot write, and exit(1) or the next file.
Close ==
    /\ at = "close"
    /\ at' = IF err = "OK" THEN "open" ELSE "exit"
    /\ i' = IF err = "OK" THEN i + 1 ELSE i
    /\ trimmed' = IF err = "OK" /\ ~is_check /\ ignored = {}
                  THEN trimmed \cup {name} ELSE trimmed
    /\ Release
    /\ UNCHANGED <<files, before, ignored, arg_vars, err>>

\* The process is killed.
Crash ==
    /\ at # "exit"
    /\ at' = "exit"
    /\ Release
    /\ UNCHANGED <<file_vars, arg_vars, i, err>>

Next ==
    \/ Start \/ Open \/ CannotOpen \/ NoMoreFiles
    \/ ReadLine \/ EndRead \/ CheckLine \/ EndCheck
    \/ WriteLine \/ Drain \/ ShortWrite \/ EndWrite \/ Flush \/ Truncate
    \/ Close \/ Crash

Spec == Init /\ [][Next]_vars

-----------------------------------------------------------------------------
(* What the tool promises *)

Visible(text) == Without(text, {Newline, Tab, Space})

\* a is in b with its order, and b may have more.
IsSubsequence(a, b) ==
    LET met[n \in 0..Len(b)] ==
            IF n = 0 THEN 0
            ELSE LET m == met[n - 1]
                 IN  IF m < Len(a) /\ a[m + 1] = b[n] THEN m + 1 ELSE m
    IN  met[Len(b)] = Len(a)

\* The characters to stay: those that are visible or have a visible one behind
\* them in the line, and the newlines with a visible one anywhere behind them.
\* One newline ends the text.
Stays(text) ==
    {n \in 1..Len(text) :
        \E v \in n..Len(text) :
            /\ ~isspace(text[v])
            /\ text[n] = Newline \/ \A b \in n..v : text[b] # Newline}

Trimmed(text) ==
    IF Stays(text) = {} THEN <<>> ELSE Append(Picked(text, Stays(text)), Newline)

Processing == at \notin {"exit", "open"}

\* The file is rewritten in place and no copy is kept: wherever the process is
\* killed or a write stops short, no visible character of what was opened is
\* lost (what was moved up may be there twice).  Four failures that the code
\* ignores are the exception; a newline that could not be appended is not.
TextSurvives ==
    (Processing /\ ignored \subseteq {"mrs_pushstr"}) =>
        IsSubsequence(Visible(before), Visible(files[name]))

\* Where write_file returns OK the file holds the trimmed text, no more and no
\* less, unless it has ignored a failure.
SuccessIsTrimmed ==
    (at = "close" /\ err = "OK" /\ ~is_check /\ ignored = {}) =>
        files[name] = Trimmed(before)

EndsInNewline(text) == text # <<>> => text[Len(text)] = Newline

HasTab(text) == \E n \in DOMAIN text : text[n] = Tab

\* check_file and write_file are two programs for one question.  What a run
\* has trimmed is not complained about later; of a text that ends in a newline
\* a complaint means that trimming changes it, and without tabs silence means
\* that it does not.
CheckAgrees ==
    (at = "close" /\ is_check /\ ignored = {}) =>
        LET text == files[name]
            complaint == err = "ERR"
        IN  /\ name \in trimmed => ~complaint
            /\ EndsInNewline(text) /\ complaint => Trimmed(text) # text
            /\ EndsInNewline(text) /\ ~complaint /\ ~HasTab(text)
                  => Trimmed(text) = text

\* After a line was read, and after one was pushed.
LinesMoved == at = "read" \/ (at = "write" /\ out # <<>>)

Lines == {s \in {lines.arr[n] : n \in 1..lines.len} : s.value # Null}

\* The strings as the tool makes them, trimmed below their capacity or with a
\* newline pushed: every call of mrs_strings.c on them, or on two of them,
\* returns what its text should be, terminated and within its block, but for
\* those that trust the capacity.  mrs_pushstr has cut the block of a trimmed
\* line and left its capacity: of such a line a mrs_setstr or mrs_strcat of
\* more than the block has and no more than the capacity stores past the end.
StringCallsAgree ==
    LinesMoved =>
        \A s, t \in Lines :
            CallsAgree(s, t, {Space, Newline}) /\ TrustingCallsAgree(s, t)

\* The vector of lines as it grows, with appends refused: it stays within its
\* block, and so do the calls of mrv_vectors.c on it, which keep the items they
\* should, each two appends with a realloc_to_fit between included.
VectorCallsAgree ==
    LinesMoved =>
        /\ ~lines.bad
        /\ \A s \in Lines : AppendsAgree(lines, s)
        /\ RemovalsAgree(lines)

=============================================================================
