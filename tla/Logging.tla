------------------------------ MODULE Logging ------------------------------
(***************************************************************************)
(* What is logged and what becomes of it: the log calls of the threads,    *)
(* which append records to one memory file per thread, and the loggers of  *)
(* the parent (YAML, TAP, key-value), which turn the files of one run into *)
(* lines of the log file and of the standard output.                       *)
(***************************************************************************)
EXTENDS PrintResults, SequencesExt

CONSTANTS
  Slice, Thread, thread_range, \* the children and their threads
  Config,                      \* the configurations, with bounds: runs, calls, callers
  DataSize, Difference         \* bounds: sizes of logged data; sizes of buffers and offsets

ASSUME OwnerAssumption ==
  /\ IsFiniteSet(Slice) /\ IsFiniteSet(Thread)
  /\ Slice = 0..(Cardinality(Slice) - 1)
  /\ Thread = 0..(Cardinality(Thread) - 1)
  /\ thread_range \in [Slice -> SUBSET Thread]
  /\ \A t \in Thread : \E s \in Slice : t \in thread_range[s]

\* --max-logdata is at least 1, and what differs is a byte of the buffers.
ASSUME SizeAssumption ==
  /\ \A c \in Config : c.max_logdata \in Nat \ {0}
  /\ DataSize \subseteq Nat
  /\ \A d \in Difference : d[1] \in Nat /\ d[2] \in -1..d[1] - 1

\* Owners of a memory file have the numbers of thread_data(): negative for the
\* main threads.
Main(s)    == -s - 1
Owner      == {Main(s) : s \in Slice} \cup Thread
SliceOf(o) == IF o < 0 THEN -o - 1 ELSE CHOOSE s \in Slice : o \in thread_range[s]

\* for_each_main_thread(), then for_each_test_thread().
InOrder == [i \in 1..Cardinality(Slice) |-> -i] \o [i \in 1..Cardinality(Thread) |-> i - 1]

VARIABLES
  cfg,             \* the configuration: never changes
  run, stage,      \* number of the run; [Slice -> Stage] of its children
  result,          \* [Slice -> TestResult \cup {Unset}]
  thread_state,    \* [Thread -> ...]
  flag,            \* [Owner -> Flag]: fail_time
  log,             \* [Owner -> Seq(records)]: the memory files
  messages_logged, data_bytes_logged, \* [Owner -> Nat]
  child_stderr,    \* something was written to the children's stderr
  calls,           \* log calls so far
  phase,           \* "idle", "running", "invalid", "closed"
  header,          \* the static state of print_tests_header()
  warned,          \* the static warning_printed
  printed,         \* the result printed last
  failed,          \* some run has failed
  file, stdout     \* lines printed for this run

memory     == <<flag, log, messages_logged, data_bytes_logged, child_stderr>>
child_vars == <<stage, result, thread_state>>
lines      == <<header, warned, file, stdout>>
program    == <<run, phase, printed, failed>>
log_vars   == <<cfg, program, child_vars, memory, calls, lines>>

-----------------------------------------------------------------------------
\* LogLevelVerbosity and status_level()
Quiet == 0
LevelOf == [E |-> Quiet, W |-> 1, I |-> 2]
LevelMax == 127

\* A record of a memory file; cut: the child died while writing it.
Record(o, type, level) ==
  [type |-> type, level |-> level, owner |-> o, run |-> run, n |-> Len(log[o]) + 1,
   start |-> 0, len |-> 0, cut |-> FALSE]
Cut(r) == [r EXCEPT !.cut = TRUE]
HasCut(l) == \E i \in DOMAIN l : l[i].cut

\* Sizes: all payloads are taken to be equally long.
HeaderBytes  == 6
PayloadBytes == 4
BytesOf(l) ==
  LET cut == Cardinality({i \in DOMAIN l : l[i].cut})
  IN cut + (HeaderBytes + PayloadBytes) * (Len(l) - cut)

NoOutput == cfg.format = "no_output"
Full(o)  == messages_logged[o] >= cfg.max_messages

\* log_message_for_thread()
Appended(o, records) ==
  /\ log' = [log EXCEPT ![o] = @ \o records]
  /\ messages_logged' = [messages_logged EXCEPT ![o] = @ + Len(records)]
Dropped == UNCHANGED <<log, messages_logged>>

Marked(o, letter) ==
  flag' = IF letter = "E" THEN [flag EXCEPT ![o] = MarkFailed(@)] ELSE flag

\* Bound: the children start, and then run one after the other: no two of them
\* write to the same memory, so their interleavings make no difference.
Turn(s) ==
  IF stage[s] = "start" THEN \A q \in Slice : q < s => stage[q] # "start"
  ELSE \A q \in Slice : stage[q] # "start" /\ (q < s => stage[q] = "ended")

\* Who can log: the main thread in test_init() and test_cleanup(), the others in
\* test_run().
ThreadsDone(s) == \A t \in thread_range[s] : thread_state[t] \notin {"not_started", "running"}
CanLog(o) ==
  IF o < 0 THEN \/ stage[SliceOf(o)] = "init"
                \/ stage[SliceOf(o)] = "threads" /\ ThreadsDone(SliceOf(o))
           ELSE stage[SliceOf(o)] = "threads" /\ thread_state[o] = "running"

Call(o) ==
  /\ CanLog(o) /\ Turn(SliceOf(o)) /\ SliceOf(o) \in cfg.callers
  /\ calls < cfg.calls
  /\ calls' = calls + 1
  /\ UNCHANGED <<cfg, program, child_vars, child_stderr, lines>>

\* log_message_preformatted(): the limit is for everything but errors.
Preformatted(to, letter) ==
  IF NoOutput \/ (LevelOf[letter] # Quiet /\ Full(to))
  THEN Dropped
  ELSE Appended(to, <<Record(to, "user", LevelOf[letter])>>)

\* log_message(); the failure callback is in TestAttempt.
LogMessage(o, letter) ==
  /\ Call(o)
  /\ Marked(o, letter)
  /\ Preformatted(o, letter)
  /\ UNCHANGED data_bytes_logged

\* log_platform_message(): marks the caller, logs to the main thread.
LogPlatformMessage(o, letter) ==
  /\ Call(o)
  /\ Marked(o, letter)
  /\ Preformatted(Main(SliceOf(o)), letter)
  /\ UNCHANGED data_bytes_logged

SkipRecord(o) == Record(o, "skip", 1)

\* log_skip(): no limit.
LogSkip(o) ==
  /\ Call(o)
  /\ flag' = [flag EXCEPT ![o] = MarkSkipped(@)]
  /\ IF NoOutput THEN Dropped ELSE Appended(o, <<SkipRecord(o)>>)
  /\ UNCHANGED data_bytes_logged

\* log_yaml(): the limit is for errors too.  Without values, the overload with a
\* map logs twice.
LogYaml(o, letter, values) ==
  /\ Call(o)
  /\ Marked(o, letter)
  /\ LET yaml  == Record(o, "yaml", LevelOf[letter])
         again == [yaml EXCEPT !.n = @ + 1]
     IN IF NoOutput \/ Full(o) THEN Dropped
        ELSE Appended(o, IF values \/ messages_logged[o] + 1 >= cfg.max_messages
                         THEN <<yaml>> ELSE <<yaml, again>>)
  /\ UNCHANGED data_bytes_logged

DataRecord(o, start, len) ==
  [Record(o, "data", 2) EXCEPT !.start = start, !.len = len]

\* log_data(): the bytes are counted before they are compared with the limit, and
\* also if nothing is logged because of them.
LogData(o, size) ==
  /\ Call(o)
  /\ UNCHANGED flag
  /\ IF NoOutput \/ Full(o) THEN UNCHANGED data_bytes_logged /\ Dropped
     ELSE /\ data_bytes_logged' = [data_bytes_logged EXCEPT ![o] = @ + size]
          /\ IF data_bytes_logged[o] > cfg.max_logdata
             THEN Dropped ELSE Appended(o, <<DataRecord(o, 0, size)>>)

\* logging_report_mismatched_data(): the number of bytes of each buffer to show;
\* the difference is one of unsigned numbers, so it is huge if the limit has
\* already been exceeded.
WindowLength(size, old_total) ==
  IF old_total <= cfg.max_logdata /\ cfg.max_logdata - old_total < 2 * size
  THEN (cfg.max_logdata - old_total) \div 2
  ELSE size

\* Faulty: always the beginning.
WindowAtStart(size, offset, len) == 0

WindowStart(size, offset, len) ==
  IF offset < len THEN 0
  ELSE IF offset >= size - len THEN size - len
  ELSE offset - (len \div 2)

\* The two buffers, unless memcmp_offset() finds no difference: offset < 0.
MismatchRecord(o, size, offset) ==
  [Record(o, "mismatch", Quiet) EXCEPT !.start = offset, !.len = size]

ShownData(o, size, offset) ==
  LET len  == WindowLength(size, data_bytes_logged[o])
      data == DataRecord(o, WindowStart(size, offset, len), len)
  IN  <<[data EXCEPT !.n = @ + 1], [data EXCEPT !.n = @ + 2]>>

ReportMismatchedData(o, size, offset) ==
  /\ Call(o)
  /\ Marked(o, "E")
  /\ \/ NoOutput /\ Dropped /\ UNCHANGED data_bytes_logged
     \/ /\ ~NoOutput /\ offset < 0
        /\ Appended(o, <<MismatchRecord(o, size, offset)>>)
        /\ UNCHANGED data_bytes_logged
     \/ /\ ~NoOutput /\ offset >= 0
        /\ data_bytes_logged' = [data_bytes_logged EXCEPT ![o] = @ + 2 * size]
        /\ Appended(o, <<MismatchRecord(o, size, offset)>> \o ShownData(o, size, offset))

\* log_thread_context(): only as the first message of a test thread.
LogThreadContext(o) ==
  /\ Call(o)
  /\ o >= 0 /\ log[o] = <<>>
  /\ IF NoOutput THEN Dropped ELSE Appended(o, <<Record(o, "context", 1)>>)
  /\ UNCHANGED <<flag, data_bytes_logged>>

\* logging_mark_knob_used(): only in test_init().
MarkKnobUsed(o) ==
  /\ Call(o)
  /\ o < 0 /\ stage[SliceOf(o)] = "init"
  /\ IF NoOutput \/ ~cfg.log_test_knobs THEN Dropped ELSE Appended(o, <<Record(o, "knob", 1)>>)
  /\ UNCHANGED <<flag, data_bytes_logged>>

\* The child's stderr is a memory file too (logging_init_child_preexec()).
WriteToStderr ==
  /\ \E s \in Slice : stage[s] \in {"init", "threads"}
  /\ calls < cfg.calls
  /\ calls' = calls + 1
  /\ child_stderr' = TRUE
  /\ UNCHANGED <<cfg, program, child_vars, flag, log, messages_logged, data_bytes_logged, lines>>

-----------------------------------------------------------------------------
(***************************************************************************)
(* The children of a run, as far as they matter here (see TestAttempt).    *)
(***************************************************************************)
Running == phase = "running"

Child(s, from) == Running /\ stage[s] = from /\ Turn(s)
Elsewhere == UNCHANGED <<cfg, program, lines>>

\* init_per_thread_data(): counters and marks, not the memory files.
StartChild(s) ==
  /\ Child(s, "start")
  /\ stage' = [stage EXCEPT ![s] = "init"]
  /\ LET own == {Main(s)} \cup thread_range[s]
     IN /\ flag' = [o \in Owner |-> IF o \in own THEN "clean" ELSE flag[o]]
        /\ messages_logged' = [o \in Owner |-> IF o \in own THEN 0 ELSE messages_logged[o]]
        /\ data_bytes_logged' = [o \in Owner |-> IF o \in own THEN 0 ELSE data_bytes_logged[o]]
  /\ thread_state' = [t \in Thread |-> IF t \in thread_range[s] THEN "not_started" ELSE thread_state[t]]
  /\ UNCHANGED <<result, log, child_stderr>> /\ UNCHANGED calls /\ Elsewhere

Ends(s, r) ==
  /\ stage' = [stage EXCEPT ![s] = "ended"]
  /\ result' = [result EXCEPT ![s] = r]

\* test_init() passed: the threads start.
InitPasses(s) ==
  /\ Child(s, "init") /\ flag[Main(s)] = "clean"
  /\ stage' = [stage EXCEPT ![s] = "threads"]
  /\ thread_state' = [t \in Thread |-> IF t \in thread_range[s] THEN "running" ELSE thread_state[t]]
  /\ UNCHANGED <<result, memory>> /\ UNCHANGED calls /\ Elsewhere

\* It failed, with a message of the test or with one of the framework.
InitFails(s) ==
  /\ Child(s, "init")
  /\ Ends(s, Failed)
  /\ Marked(Main(s), "E")
  /\ \/ flag[Main(s)] = "failed" /\ Dropped
     \/ Preformatted(Main(s), "E")
  /\ UNCHANGED <<thread_state, data_bytes_logged, child_stderr>> /\ UNCHANGED calls /\ Elsewhere

\* It skipped: EXIT_SKIP with or without a message of the test, or an OS error.
InitSkips(s) ==
  /\ Child(s, "init")
  /\ Ends(s, Skipped)
  /\ \/ Dropped /\ UNCHANGED flag
     \/ /\ flag' = [flag EXCEPT ![Main(s)] = MarkSkipped(@)]
        /\ IF NoOutput THEN Dropped ELSE Appended(Main(s), <<SkipRecord(Main(s))>>)
  /\ UNCHANGED <<thread_state, data_bytes_logged, child_stderr>> /\ UNCHANGED calls /\ Elsewhere

\* The end of thread_runner() for a test_run() that returns "success", "failure"
\* or "skip".
EndThread(t, ret) ==
  /\ Child(SliceOf(t), "threads") /\ thread_state[t] = "running"
  /\ LET state == IF flag[t] = "failed" THEN "failed"
                  ELSE IF flag[t] = "skipped" \/ ret = "skip" THEN "skipped"
                  ELSE IF ret = "success" THEN "succeeded" ELSE "failed"
     IN /\ thread_state' = [thread_state EXCEPT ![t] = state]
        /\ flag' = [flag EXCEPT ![t] = IF state = "succeeded" THEN @ ELSE state]
  /\ UNCHANGED <<stage, result, log, messages_logged, data_bytes_logged, child_stderr>> /\ UNCHANGED calls /\ Elsewhere

\* The end of run_one_test_inner(): test_cleanup() fails, skips (which is
\* always logged, whatever the test has logged), or passes.
Finishes(s) ==
  /\ Child(s, "threads") /\ ThreadsDone(s)
  /\ \/ /\ Ends(s, Failed)
        /\ UNCHANGED <<flag, log, messages_logged>>
     \/ /\ flag[Main(s)] # "failed"
        /\ Ends(s, Skipped)
        /\ flag' = [flag EXCEPT ![Main(s)] = MarkSkipped(@)]
        /\ IF NoOutput THEN Dropped ELSE Appended(Main(s), <<SkipRecord(Main(s))>>)
     \/ /\ flag[Main(s)] = "clean"
        /\ Ends(s, Passed)
        /\ UNCHANGED <<flag, log, messages_logged>>
  /\ UNCHANGED <<thread_state, data_bytes_logged, child_stderr>> /\ UNCHANGED calls /\ Elsewhere

\* The child dies on its own, possibly within a log call: after the count, or in
\* the middle of the record.
Dies(s, r) ==
  /\ Running /\ stage[s] # "ended" /\ Turn(s)
  /\ r = OperatingSystemError => stage[s] = "start"
  /\ Ends(s, r)
  /\ \/ Dropped /\ UNCHANGED calls
     \/ \E o \in {Main(s)} \cup thread_range[s] :
          /\ CanLog(o) /\ ~NoOutput
          /\ calls < cfg.calls /\ calls' = calls + 1
          /\ \/ /\ messages_logged' = [messages_logged EXCEPT ![o] = @ + 1]
                /\ UNCHANGED log
             \/ Appended(o, <<Cut(Record(o, "user", 1))>>)
  /\ UNCHANGED <<thread_state, flag, data_bytes_logged, child_stderr>> /\ Elsewhere

\* A crash of a test thread, which the parent reports: print_signal_info() in
\* the thread, the backtrace (debug level) in the main thread.
Crashes(t) ==
  /\ Child(SliceOf(t), "threads") /\ thread_state[t] = "running"
  /\ Ends(SliceOf(t), CoreDumped)
  /\ Marked(t, "E")
  /\ LET main == Main(SliceOf(t))
         backtrace == IF Full(main) THEN <<>> ELSE <<Record(main, "user", 2)>>
         signal    == <<Record(t, "user", Quiet)>>
     IN IF NoOutput THEN Dropped
        ELSE /\ log' = [log EXCEPT ![t] = @ \o signal, ![main] = @ \o backtrace]
             /\ messages_logged' = [messages_logged EXCEPT ![t] = @ + 1, ![main] = @ + Len(backtrace)]
  /\ UNCHANGED <<thread_state, data_bytes_logged, child_stderr>> /\ UNCHANGED calls /\ Elsewhere

\* terminate_children(): an error in the name of the child's main thread, then
\* the signal, which can hit it in the middle of a record as well.
TimesOut(s) ==
  /\ Running /\ stage[s] # "ended" /\ Turn(s)
  /\ Ends(s, TimedOut)
  /\ Marked(Main(s), "E")
  /\ LET main == IF NoOutput THEN <<>> ELSE <<Record(Main(s), "user", Quiet)>>
         AppendCut(t) == [log EXCEPT ![Main(s)] = @ \o main, ![t] = @ \o <<Cut(Record(t, "user", 1))>>]
         CountCut(t)  == [messages_logged EXCEPT ![Main(s)] = @ + Len(main), ![t] = @ + 1]
     IN \/ Appended(Main(s), main) /\ UNCHANGED calls
        \/ \E t \in thread_range[s] :
             /\ CanLog(t) /\ ~NoOutput
             /\ calls < cfg.calls /\ calls' = calls + 1
             /\ log' = AppendCut(t)
             /\ messages_logged' = CountCut(t)
  /\ UNCHANGED <<thread_state, data_bytes_logged, child_stderr>> /\ Elsewhere

-----------------------------------------------------------------------------
(***************************************************************************)
(* The loggers of the parent.  A line of the output is its kind, with the  *)
(* owner and the number of a record where it has them; its text is left    *)
(* out.                                                                    *)
(***************************************************************************)
Line(is)         == [is |-> is, owner |-> 0, run |-> 0, n |-> 0]
OwnerLine(is, o) == [Line(is) EXCEPT !.owner = o]
MessageLine(r)   == [is |-> "msg", owner |-> r.owner, run |-> r.run, n |-> r.n]
ResultLine(r)    == [Line("result") EXCEPT !.n = r]

\* file_log_fd # real_stdout_fd; otherwise everything is in "file".  With
\* no_output, the file is /dev/null.
TwoFiles == cfg.sink # "stdout"

\* logging_printf() of a sequence of <<level, line>>
ToFile(items)   == [i \in DOMAIN items |-> items[i][2]]
ToStdout(items) ==
  IF TwoFiles THEN ToFile(SelectSeq(items, LAMBDA i : i[1] <= cfg.verbosity)) ELSE <<>>
LinesAt(level, kinds) == [i \in DOMAIN kinds |-> <<level, Line(kinds[i])>>]

\* print_tests_header()
QuietAt(mode) == mode = "AtStart" /\ cfg.verbosity = 0 /\ TwoFiles
HeaderAfter(mode) ==
  IF header = "Both" THEN "Both" ELSE IF QuietAt(mode) THEN "LogFileOnly" ELSE "Both"
HeaderInFile == IF header = "NoHeader" THEN <<Line("tests")>> ELSE <<>>
HeaderOnStdout(mode) ==
  IF header # "Both" /\ TwoFiles /\ ~QuietAt(mode) THEN <<Line("tests")>> ELSE <<>>

\* loglevel(), should_print_fail_info(), want_slice_resource_usage()
LogLevel(r) ==
  IF r = Passed \/ (r = Skipped /\ ~cfg.fatal_skips) THEN 1 ELSE Quiet
ShouldPrintFailInfo(r) == r \notin {Skipped, Passed, Interrupted}
WantResourceUsage(s) ==
  \/ cfg.verbosity >= 3
  \/ result[s] \in {Killed, CoreDumped, OutOfMemory, TimedOut, Interrupted}

\* What is left of a memory file for LogMessagesFile's iterator: the records
\* before one that is cut; records behind it fill it up with their bytes, so it
\* may be taken for a complete one.
Readable(l, filled) ==
  LET cut == SelectInSeq(l, LAMBDA r : r.cut)
  IN IF cut = 0 THEN l
     ELSE IF filled /\ cut < Len(l) THEN SubSeq(l, 1, cut) ELSE SubSeq(l, 1, cut - 1)

\* What a logger works on: the result, whether the skip is one of test_init(),
\* the marks, the readable records and the file sizes by owner.
Report(r, flags, logs, counts, filled) ==
  [result |-> r,
   skipInMainThread |-> MostSerious({result[s] : s \in Slice}) = Skipped,
   flag    |-> flags,
   records |-> [o \in Owner |-> IF counts[o] = 0 THEN <<>> ELSE Readable(logs[o], filled)],
   bytes   |-> [o \in Owner |-> IF counts[o] = 0 THEN 0 ELSE BytesOf(logs[o])]]

\* get_skip_message(-1): FIXME: multiple main threads
SkipMessages(p) == SelectSeq(p.records[Main(0)], LAMBDA r : r.type = "skip")
SkipReason(p) ==
  IF ~p.skipInMainThread THEN <<"Runtime">>
  ELSE IF SkipMessages(p) # <<>> THEN <<"skip-reason">> ELSE <<"Unknown">>

HasType(p, o, type) == \E i \in DOMAIN p.records[o] : p.records[o][i].type = type

Printed(p, r, level) ==
  /\ r.level <= level
  /\ r.type = "skip" => ~p.skipInMainThread
MessageLines(p, l, level) ==
  LET printed_ones == SelectSeq(l, LAMBDA r : r.type # "knob" /\ Printed(p, r, level))
  IN [i \in DOMAIN printed_ones |-> MessageLine(printed_ones[i])]

\* lowest_level <= verbosity.  Faulty: off by one.
MessagesBelow(p, o) ==
  \E i \in DOMAIN p.records[o] :
    p.records[o][i].type \notin {"knob", "context"} /\ p.records[o][i].level < cfg.verbosity

HasMessages(p, o) ==
  \E i \in DOMAIN p.records[o] :
    p.records[o][i].type \notin {"knob", "context"} /\ p.records[o][i].level <= cfg.verbosity

\* doprint() of all three loggers: what goes to the log file and to stdout.
WantPrint(p, o) == p.flag[o] = "failed" \/ cfg.verbosity >= 3

ThreadLines(in_file, on_stdout) == [file |-> in_file, stdout |-> on_stdout]

OnStdout(p, o, want, head, messages) ==
  IF ~TwoFiles THEN <<>>
  ELSE (IF want \/ HasMessages(p, o) THEN head ELSE <<>>)
       \o (IF HasMessages(p, o) THEN messages ELSE <<>>)

AllThreads(Block(_)) ==
  LET blocks == [i \in DOMAIN InOrder |-> Block(InOrder[i])]
  IN ThreadLines(FlattenSeq([i \in DOMAIN InOrder |-> blocks[i].file]),
                 FlattenSeq([i \in DOMAIN InOrder |-> blocks[i].stdout]))

ChildStderr  == IF child_stderr THEN <<Line("stderr")>> ELSE <<>>
StderrOnStdout == IF TwoFiles /\ cfg.verbosity > 0 THEN ChildStderr ELSE <<>>

-----------------------------------------------------------------------------
\* YamlLogger.  Faulty: "- test" at every verbosity.
TestLineAlways(r) == LogLevel(r) = Quiet /\ TwoFiles

\* logging_init() has printed "- test" to stdout, or has left it to
\* print_result_line().
TestLineMissing(r) == LogLevel(r) = Quiet /\ TwoFiles /\ cfg.verbosity < 1
LateTestLine(r) ==
  IF TestLineMissing(r) THEN HeaderOnStdout("OnFirstFail") \o <<Line("test")>> ELSE <<>>
LateHeader(r) == IF TestLineMissing(r) THEN HeaderAfter("OnFirstFail") ELSE header

YamlFixed(p) ==
  LET r == p.result
      details == IF r = Skipped THEN SkipReason(p)
                 ELSE IF r \in {Killed, CoreDumped, OutOfMemory, OperatingSystemError}
                 THEN <<"result-details">> ELSE <<>>
  IN <<<<LogLevel(r), ResultLine(r)>>>>
     \o LinesAt(LogLevel(r), details)
     \o LinesAt(Quiet, IF ShouldPrintFailInfo(r) THEN <<"fail">> ELSE <<>>)
     \o LinesAt(1, <<"time-at-end", "test-runtime">>)
     \o LinesAt(1, IF cfg.log_test_knobs /\ HasType(p, Main(0), "knob") THEN <<"test-options">> ELSE <<>>)

\* print_one_thread_messages()
YamlMessages(p, o, level) ==
  LET l       == p.records[o]
      context == l # <<>> /\ Head(l).type = "context"
      rest    == IF context THEN Tail(l) ELSE l
  IN (IF context THEN <<OwnerLine("context", o)>> ELSE <<>>)
     \o (IF rest # <<>> THEN <<OwnerLine("messages", o)>> ELSE <<>>)
     \o MessageLines(p, rest, level)

\* The size of the skip reason already printed counts for nothing, for want of
\* the header's bytes.
YamlThread(p, o) ==
  LET reason == p.result = Skipped /\ SkipReason(p) = <<"skip-reason">>
      min_size == IF o < 0 /\ ~WantPrint(p, o) /\ reason THEN PayloadBytes + 2 ELSE 0
      want == WantPrint(p, o) \/ (o < 0 /\ WantResourceUsage(SliceOf(o)))
      head == <<OwnerLine("thread", o)>>
  IN IF p.bytes[o] <= min_size /\ ~want THEN ThreadLines(<<>>, <<>>)
     ELSE ThreadLines(head \o YamlMessages(p, o, LevelMax),
                      OnStdout(p, o, want, head, YamlMessages(p, o, cfg.verbosity)))

\* maybe_print_messages_header()
WithHeader(kind, l) == IF l = <<>> THEN <<>> ELSE <<Line(kind)>> \o l

YamlPrint(p) ==
  LET fixed   == YamlFixed(p)
      Block(o) == YamlThread(p, o)
      threads == AllThreads(Block)
  IN ThreadLines(
       ToFile(fixed) \o WithHeader("threads", threads.file) \o ChildStderr,
       LateTestLine(p.result) \o ToStdout(fixed) \o WithHeader("threads", threads.stdout)
         \o StderrOnStdout)

-----------------------------------------------------------------------------
\* TapFormatLogger and KeyValuePairLogger: print_one_thread_messages_tdata(); the
\* warning is printed once per program, to both files, at the first knob.
TdataMessages(p, o, level) == MessageLines(p, p.records[o], level)
Warns(p, o) ==
  /\ ~warned /\ HasType(p, o, "knob")
  /\ \A q \in Owner : q < 0 /\ q > o => ~HasType(p, q, "knob")
Warning(p, o) == IF Warns(p, o) THEN <<Line("knob-warning")>> ELSE <<>>
WarnedAfter(p) == warned \/ \E o \in Owner : HasType(p, o, "knob")

TdataThread(p, o, head, head_in_file, head_on_stdout) ==
  IF p.bytes[o] = 0 /\ ~WantPrint(p, o) THEN ThreadLines(<<>>, <<>>)
  ELSE ThreadLines(
         head \o Warning(p, o) \o TdataMessages(p, o, LevelMax) \o head_in_file,
         (IF TwoFiles THEN Warning(p, o) ELSE <<>>)
           \o OnStdout(p, o, WantPrint(p, o), head_on_stdout, TdataMessages(p, o, cfg.verbosity)))

TapThread(p, o) ==
  LET head == <<OwnerLine("thread", o)>> IN TdataThread(p, o, head, <<>>, head)

\* maybe_print_yaml_marker() and the terminator
WithMarker(p, l) ==
  LET first == SelectInSeq(l, LAMBDA x : x.is # "knob-warning")
      fail  == IF ShouldPrintFailInfo(p.result) THEN <<Line("fail")>> ELSE <<>>
  IN IF first = 0 THEN l
     ELSE SubSeq(l, 1, first - 1) \o <<Line("marker")>> \o fail
            \o SubSeq(l, first, Len(l)) \o <<Line("terminator")>>

TapPrint(p) ==
  LET line    == <<<<LogLevel(p.result), ResultLine(p.result)>>>>
      Block(o) == TapThread(p, o)
      threads == AllThreads(Block)
      stderr  == IF cfg.verbosity >= 1 THEN ChildStderr ELSE <<>>
  IN ThreadLines(ToFile(line) \o WithMarker(p, threads.file \o stderr),
                 ToStdout(line) \o WithMarker(p, threads.stdout \o StderrOnStdout))

\* The header of a main thread goes to the log file, whatever the file is.
KeyValueThread(p, o) ==
  LET head   == <<OwnerLine("thread", o)>>
      repeat == OnStdout(p, o, WantPrint(p, o), head, <<>>)
  IN IF o < 0 THEN TdataThread(p, o, head, repeat, <<>>) ELSE TdataThread(p, o, head, <<>>, head)

KeyValuePrint(p) ==
  LET fixed == <<<<Quiet, ResultLine(p.result)>>>>
               \o LinesAt(Quiet, IF p.result = Skipped THEN SkipReason(p) ELSE <<>>)
               \o LinesAt(1, <<"pass_count">>)
               \o LinesAt(1, IF ShouldPrintFailInfo(p.result) THEN <<"fail">> ELSE <<>>)
      Block(o) == KeyValueThread(p, o)
      threads == AllThreads(Block)
  IN ThreadLines(ToFile(fixed) \o threads.file \o ChildStderr,
                 ToStdout(fixed) \o threads.stdout \o StderrOnStdout)

\* logging_print_results()
PrintedLines(p) ==
  CASE cfg.format = "yaml"      -> YamlPrint(p)
    [] cfg.format = "tap"       -> TapPrint(p)
    [] cfg.format = "key_value" -> KeyValuePrint(p)
    [] cfg.format = "no_output" -> ThreadLines(<<>>, <<>>)

-----------------------------------------------------------------------------
\* AbstractLogger's constructor: the stuck threads get an error message.
Stuck == IF MostSerious({result[s] : s \in Slice}) = TimedOut
         THEN {t \in Thread : thread_state[t] = "running"} ELSE {}
StuckMessage(stuck, o) == IF o \in stuck /\ ~NoOutput THEN <<Record(o, "user", Quiet)>> ELSE <<>>

AllFlags  == LET stuck == Stuck IN [o \in Owner |-> IF o \in stuck THEN MarkFailed(flag[o]) ELSE flag[o]]
AllLogs   == LET stuck == Stuck IN [o \in Owner |-> log[o] \o StuckMessage(stuck, o)]
AllCounts == LET stuck == Stuck IN [o \in Owner |-> messages_logged[o] + Len(StuckMessage(stuck, o))]

ThisResult ==
  PrintedResult(result, [s \in Slice |-> flag[Main(s)]], [t \in Thread |-> flag[t]], thread_state)

\* munmap_and_truncate_log().  Faulty: only the counter is reset.
CounterReset(l, count) == l

Truncated(l, count) == IF count # 0 THEN <<>> ELSE l

StderrIsReset == ~NoOutput /\ (cfg.format = "tap" => cfg.verbosity >= 1)

\* The parent has waited for all children: logging_print_results() and the end of
\* run_one_test_once().
PrintRun ==
  /\ Running
  /\ \A s \in Slice : stage[s] = "ended"
  /\ \E filled \in IF \E o \in Owner : HasCut(log[o]) THEN BOOLEAN ELSE {FALSE} :
       LET p   == Report(ThisResult, AllFlags, AllLogs, AllCounts, filled)
           new == PrintedLines(p)
       IN /\ file'   = file \o new.file
          /\ stdout' = stdout \o new.stdout
          /\ header' = IF cfg.format = "yaml" THEN LateHeader(ThisResult) ELSE header
          /\ warned' = IF cfg.format \in {"tap", "key_value"} THEN WarnedAfter(p) ELSE warned
  /\ flag' = AllFlags
  /\ LET logs == AllLogs  counts == AllCounts
     IN /\ log' = [o \in Owner |-> IF NoOutput THEN log[o] ELSE Truncated(logs[o], counts[o])]
        /\ messages_logged' = [o \in Owner |-> IF logs[o] = <<>> THEN counts[o] ELSE 0]
  /\ child_stderr' = (child_stderr /\ ~StderrIsReset)
  /\ printed' = ThisResult
  /\ failed'  = (failed \/ RunOnceResult(ThisResult, cfg.ignore_os_errors) \notin {Passed, Skipped})
  /\ phase'   = IF EndsProgram(ThisResult, cfg.ignore_os_errors) THEN "invalid" ELSE "idle"
  /\ UNCHANGED <<cfg, run, child_vars, data_bytes_logged, calls>>

\* logging_init(): the output of earlier runs is forgotten, except its headers.
Headers(l) == SelectSeq(l, LAMBDA x : x.is = "tests")
StartRun ==
  /\ phase = "idle" /\ run < cfg.runs
  /\ run' = run + 1
  /\ phase' = "running"
  /\ stage'  = [s \in Slice |-> "start"]
  /\ result' = [s \in Slice |-> Unset]
  /\ IF cfg.format = "yaml"
     THEN LET test == <<<<1, Line("test")>>>>
          IN /\ header' = HeaderAfter("AtStart")
             /\ file'   = Headers(file) \o HeaderInFile \o ToFile(test)
             /\ stdout' = Headers(stdout) \o HeaderOnStdout("AtStart") \o ToStdout(test)
     ELSE file' = <<>> /\ stdout' = <<>> /\ UNCHANGED header
  /\ printed' = Unset
  /\ UNCHANGED <<cfg, failed, thread_state, memory, calls, warned>>

\* logging_close_global(): a log file with a name of the program's own is
\* removed if all is well.  "invalid" is EXIT_INVALID of run_one_test_once().
Close ==
  /\ phase \in {"idle", "invalid"} /\ run > 0
  /\ phase' = "closed"
  /\ LET success == phase = "idle" /\ ~failed
         name == IF ~success /\ TwoFiles /\ ~NoOutput THEN <<Line("log_file")>> ELSE <<>>
         exit == <<<<Quiet, Line("exit")>>>>
     IN /\ stdout' = stdout \o name \o ToStdout(exit)
        /\ file'   = IF success /\ cfg.sink = "default" THEN <<>> ELSE file \o ToFile(exit)
  /\ UNCHANGED <<cfg, run, printed, failed, child_vars, memory, calls, header, warned>>

LogInit ==
  /\ cfg \in Config
  /\ run = 0 /\ phase = "idle" /\ printed = Unset /\ failed = FALSE
  /\ stage = [s \in Slice |-> "ended"]
  /\ result = [s \in Slice |-> Unset]
  /\ thread_state = [t \in Thread |-> "not_started"]
  /\ flag = [o \in Owner |-> "clean"]
  /\ log = [o \in Owner |-> <<>>]
  /\ messages_logged = [o \in Owner |-> 0]
  /\ data_bytes_logged = [o \in Owner |-> 0]
  /\ child_stderr = FALSE /\ calls = 0
  /\ header = "NoHeader" /\ warned = FALSE
  /\ file = <<>> /\ stdout = <<>>

LogCall ==
  \E o \in Owner :
    \/ \E letter \in {"E", "W", "I"} : LogMessage(o, letter)
    \/ \E letter \in {"E", "W"} : LogPlatformMessage(o, letter)
    \/ LogSkip(o)
    \/ \E letter \in {"E", "I"} : LogYaml(o, letter, letter = "E")
    \/ \E size \in DataSize : LogData(o, size)
    \/ \E d \in Difference : ReportMismatchedData(o, d[1], d[2])
    \/ LogThreadContext(o)
    \/ MarkKnobUsed(o)

\* Bound: two ways of dying on its own.
ChildStep ==
  \/ \E s \in Slice :
       \/ StartChild(s) \/ InitPasses(s) \/ InitFails(s) \/ InitSkips(s) \/ Finishes(s)
       \/ \E r \in {Killed, OperatingSystemError} : Dies(s, r)
       \/ TimesOut(s)
  \/ \E t \in Thread :
       \/ \E ret \in {"success", "failure", "skip"} : EndThread(t, ret)
       \/ Crashes(t)

Closed == phase = "closed" /\ UNCHANGED log_vars

LogNext == StartRun \/ LogCall \/ WriteToStderr \/ ChildStep \/ PrintRun \/ Close \/ Closed

LogSpec == LogInit /\ [][LogNext]_log_vars

-----------------------------------------------------------------------------
(***************************************************************************)
(* Properties.                                                             *)
(***************************************************************************)
\* Depth of a line in the nesting of the YAML and TAP formats, and the kind of
\* the line it has to be nested in.
Depth == [yaml |-> [tests |-> 0, test |-> 1, thread |-> 3, context |-> 4, messages |-> 4, msg |-> 5],
          tap  |-> [result |-> 0, marker |-> 1, thread |-> 2, context |-> 3, msg |-> 3,
                    terminator |-> 1, stderr |-> 2, fail |-> 2]]
DepthOf(l) == IF l.is \in DOMAIN Depth[cfg.format] THEN Depth[cfg.format][l.is] ELSE 2
ParentOf == [yaml |-> [test |-> "tests", thread |-> "threads", context |-> "thread",
                       messages |-> "thread", msg |-> "messages"],
             tap  |-> [thread |-> "marker", fail |-> "marker", stderr |-> "marker", msg |-> "thread"]]
ParentKind(l) ==
  IF l.is \in DOMAIN ParentOf[cfg.format] THEN ParentOf[cfg.format][l.is]
  ELSE IF cfg.format = "yaml" THEN "test" ELSE "none"

\* Lines that stand on their own, and those of which there may be several in one
\* place.
AtTop(l)   == l.is \in {"tests", "marker", "terminator"} \/ (l.is = "result" /\ cfg.format = "tap")
Repeats(l) == l.is \in {"test", "thread", "msg"}

Nested(output) ==
  LET body  == SelectSeq(output, LAMBDA l : l.is \notin {"knob-warning", "exit", "log_file"})
      depth == [i \in DOMAIN body |-> DepthOf(body[i])]
      Encloses(j, i) == \A k \in (j + 1)..i : depth[k] > depth[j]
  IN /\ \A i \in DOMAIN body : ~AtTop(body[i]) =>
          \E j \in 1..(i - 1) :
            /\ body[j].is = ParentKind(body[i])
            /\ body[i].is \in {"context", "messages", "msg"} => body[j].owner = body[i].owner
            /\ Encloses(j, i)
     /\ \A i \in DOMAIN body : \A j \in (i + 1)..Len(body) :
          body[i].is = body[j].is /\ (Repeats(body[i]) => body[i] = body[j] /\ body[i].is # "test")
            => \E k \in (i + 1)..(j - 1) : depth[k] < depth[i]

\* Each of the two outputs is well-formed, whatever the order in which the
\* static and per-run headers became necessary on it: every line stands under
\* the header it belongs to, under the right thread, and every header and key
\* comes once, and every test has one result (print_tests_header(), the two
\* printers of "- test", maybe_print_messages_header(),
\* maybe_print_yaml_marker()).
WellNested ==
  phase # "closed" /\ cfg.format \in {"yaml", "tap"} =>
    \A output \in {file, stdout} :
      /\ Nested(output)
      /\ phase # "running" =>
           \A i \in DOMAIN output :
             output[i].is = "test" => i < Len(output) /\ output[i + 1].is = "result"

\* What the log file has to show of a run: complete records which no cut one
\* precedes, knobs and the skip messages of a skipped test_init() aside.
ToShow(l) ==
  LET skipped == MostSerious({result[s] : s \in Slice}) = Skipped
  IN SelectSeq(Readable(l, FALSE),
               LAMBDA r : r.type # "knob" /\ (cfg.format = "yaml" => r.type # "context")
                          /\ (r.type = "skip" => ~skipped))
Shown(output, o) == SelectSeq(output, LAMBDA l : l.is = "msg" /\ l.owner = o)

\* The records of a run, also those of children that died, are all in the log
\* file, in order, once, and nothing of another run is: counters, files and
\* marks are reset by different processes at different times.
MessagesArePrinted ==
  [][~NoOutput /\ phase = "running" /\ phase' # "running" =>
       \A o \in Owner :
         LET shown == Shown(file', o)
             show  == ToShow(AllLogs[o])
         IN /\ \A i \in DOMAIN shown : shown[i].run = run
            /\ Len(shown) - Len(show) \in (IF HasCut(log[o]) THEN 0..1 ELSE {0})
            /\ \A i \in DOMAIN show : shown[i] = MessageLine(show[i])]_log_vars

\* With a log file and without -v, the standard output says nothing of a test
\* that passes or skips, but of one that fails the result and every error message:
\* the lowest level in a file decides whether it is printed at all.
StdoutTellsFailures ==
  [][phase = "running" /\ phase' # "running"
       /\ TwoFiles /\ cfg.verbosity = 0 /\ cfg.format \in {"yaml", "tap"} =>
       LET new == SelectSeq(stdout', LAMBDA l : l.is \notin {"tests", "knob-warning"})
       IN IF LogLevel(printed') = Quiet
          THEN /\ \E i \in DOMAIN new : new[i] = ResultLine(printed')
               /\ \A o \in Owner :
                    LET show == ToShow(AllLogs[o]) IN
                    \A i \in DOMAIN show :
                      show[i].level = Quiet => \E j \in DOMAIN new : new[j] = MessageLine(show[i])
               /\ \A o \in Owner : flag'[o] = "failed" => \E i \in DOMAIN new : new[i] = OwnerLine("thread", o)
          ELSE new = <<>>]_log_vars

\* The window of data shown for a mismatch that was found lies within the buffer
\* and contains the byte that differs, whatever the limit has left of it
\* (logging_report_mismatched_data()).
MismatchShowsOffset ==
  \A o \in Owner : \A i \in DOMAIN log[o] :
    LET r == log[o][i] IN
    r.type = "mismatch" /\ r.start >= 0 =>
      /\ i + 1 \in DOMAIN log[o] /\ log[o][i + 1].type = "data"
      /\ LET data == log[o][i + 1] IN
         /\ data.start \in 0..(r.len - data.len)
         /\ data.len > 0 => r.start \in data.start..(data.start + data.len - 1)
=============================================================================
