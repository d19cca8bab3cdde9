------------------------------- MODULE Options -------------------------------
(***************************************************************************)
(* The command line, sandstone_opts.cpp: collect_args() fills a map with    *)
(* one entry per option, parse_args() makes the configuration of it.  An    *)
(* option of the command line is a record [opt, arg]; options are named by  *)
(* their letter or the enumerator without "_option".  Numbers stand for     *)
(* themselves, other arguments are strings, names of tests are records.     *)
(***************************************************************************)
EXTENDS Knobs, TLC, SequencesExt

CONSTANTS
  device_count,         \* CPUs found before the options are parsed
  HasBuiltinTestList,   \* how the program was built
  MaxRetestCount        \* bits of a PerThreadFailures entry

ASSUME OptionsAssumption ==
  /\ device_count \in Nat \ {0}
  /\ HasBuiltinTestList \in BOOLEAN
  /\ MaxRetestCount \in Nat

INT_MAX    == 2147483647
NotANumber == -INT_MAX      \* an argument strtoll() does not consume entirely
NoArg      == NotANumber + 1 \* optarg is null
forever    == INT_MAX       \* MonotonicTimePoint::max()
epoch      == -1            \* MonotonicTimePoint(), long before the program starts

EXIT_SUCCESS == 0
EX_USAGE     == 64

TEST_QUALITY_SKIP == -1
TEST_QUALITY_BETA == 0
TEST_QUALITY_PROD == 2

-----------------------------------------------------------------------------
(***************************************************************************)
(* collect_args().                                                         *)
(***************************************************************************)
VectorOptions  == {"disable", "e", "O", "ulog", "deviceset"}
BooleanOptions == {"ignore_mce_errors", "ignore_os_errors", "strict_runtime", "fatal_skips",
                   "force_test_time", "F", "ud_on_failure", "test_tests", "test_list_randomize",
                   "selftest", "include_optional", "ignore_unknown_tests"}
TimeOptions    == {"t", "test_delay", "timeout", "timeout_kill"}
ValueOptions   == TimeOptions \cup
                  {"f", "n", "o", "s", "inject_idle", "on_crash", "on_hang", "retest_on_failure",
                   "total_retest_on_failure", "test_list_file", "temperature_threshold",
                   "max_logdata", "max_messages", "max_test_count", "reschedule", "thread_ratio",
                   "syslog_runtime", "quality"}
Deprecated     == {"longer_runtime", "max_concurrent_threads", "mem_sample_time",
                   "mem_samples_per_log", "no_mem_sampling", "no_triage", "schedule_by",
                   "shortened_runtime", "triage", "weighted_testrun"}

\* Options that exclude each other; _group remembers which of them is active.
ActionOptions   == {"l", "raw_list_test_ids", "raw_list_tests", "raw_list_groups",
                    "raw_list_group_members", "dump_cpu_info", "version", "is_debug", "h"}
DurationOptions == {"T", "one_sec", "thirty_sec", "two_min", "five_min", "service"}
MaxCoresOptions == {"max_cores_per_slice", "no_slicing"}
LoopOptions     == {"quick_run", "max_test_loop_count"}
FormatOptions   == {"output_format", "Y"}

Groups == ("_action"         :> ActionOptions) @@ ("_duration"       :> DurationOptions)
       @@ ("_max_cores"      :> MaxCoresOptions) @@ ("_max_loop_count" :> LoopOptions)
       @@ ("_format"         :> FormatOptions)

GroupOf(opt) == CHOOSE g \in DOMAIN Groups : opt \in Groups[g]

contains(map, o)              == o \in DOMAIN map
insert_or_assign(map, o, v)   == (o :> v) @@ map
emplace(map, o, v)            == map @@ (o :> v)
ValueOr(map, o, default)      == IF contains(map, o) THEN map[o] ELSE default
add_to_map_as_vec(map, o, v)  == insert_or_assign(map, o, Append(ValueOr(map, o, <<>>), v))

\* Of a repeated -T the first time stays; -Y without indent does not reset one.
AddMember(map, o) ==
  CASE o.opt \in {"raw_list_group_members", "max_cores_per_slice", "max_test_loop_count",
                  "output_format"}       -> insert_or_assign(map, o.opt, o.arg)
    [] o.opt = "Y" /\ o.arg # NoArg      -> insert_or_assign(map, o.opt, o.arg)
    [] OTHER                             -> emplace(map, o.opt, o.arg)

\* Faulty: the first option of a group stays active.
SetActiveOnce(map, o) == emplace(map, GroupOf(o.opt), o.opt)

SetActive(map, o) == insert_or_assign(map, GroupOf(o.opt), o.opt)

Collect(map, o) ==
  CASE o.opt \in VectorOptions   -> add_to_map_as_vec(map, o.opt, o.arg)
    [] o.opt \in BooleanOptions  -> emplace(map, o.opt, TRUE)
    [] o.opt \in ValueOptions    -> insert_or_assign(map, o.opt, o.arg)
    [] o.opt = "use_builtin_test_list" -> insert_or_assign(map, o.opt, o.arg)
    [] o.opt = "alpha"           -> insert_or_assign(map, "quality", TEST_QUALITY_SKIP)
    [] o.opt = "beta"            -> insert_or_assign(map, "quality", TEST_QUALITY_BETA)
    [] o.opt = "q"               -> emplace(map, "q", TRUE)
    [] o.opt = "v"               -> insert_or_assign(map, "v", ValueOr(map, "v", 0) + 1)
    [] o.opt \in Deprecated      -> map
    [] OTHER                     -> AddMember(SetActive(map, o), o)

IsKnown(o) ==
  \/ o.opt \in VectorOptions \cup BooleanOptions \cup ValueOptions \cup Deprecated
               \cup {"alpha", "beta", "q", "v"} \cup UNION {Groups[g] : g \in DOMAIN Groups}
  \/ o.opt = "use_builtin_test_list" /\ HasBuiltinTestList

collect_args(cmdline) == FoldLeft(Collect, <<>>, cmdline)

-----------------------------------------------------------------------------
(***************************************************************************)
(* Numbers and other arguments with a range.                               *)
(***************************************************************************)
Within(min, max)     == [min |-> min, max |-> max, saturate |-> FALSE]
Saturating(min, max) == [min |-> min, max |-> max, saturate |-> TRUE]

IntOptions ==
     ("quality"                 :> Saturating(TEST_QUALITY_SKIP, TEST_QUALITY_PROD))
  @@ ("n"                       :> Saturating(1, device_count))
  @@ ("Y"                       :> Within(0, 160))
  @@ ("max_cores_per_slice"     :> Within(-1, INT_MAX))
  @@ ("retest_on_failure"       :> Saturating(0, MaxRetestCount))
  @@ ("temperature_threshold"   :> Saturating(0, 160000))
  @@ ("total_retest_on_failure" :> Within(-1, INT_MAX))
  @@ ("max_logdata"             :> Saturating(0, INT_MAX))
  @@ ("max_messages"            :> Saturating(-1, INT_MAX))
  @@ ("max_test_count"          :> Within(0, INT_MAX))
  @@ ("max_test_loop_count"     :> Within(0, INT_MAX))
  @@ ("inject_idle"             :> Saturating(0, 50))

\* ParseIntArgument refuses what is no number, and what is out of range unless
\* the option saturates.
IsInt(o, v) ==
  /\ v # NotANumber
  /\ IntOptions[o].saturate \/ (IntOptions[o].min <= v /\ v <= IntOptions[o].max)

ParseInt(o, v) ==
  IF v < IntOptions[o].min THEN IntOptions[o].min
  ELSE IF v > IntOptions[o].max THEN IntOptions[o].max ELSE v

IntOr(map, o, default)    == IF contains(map, o) THEN ParseInt(o, map[o]) ELSE default
Unlimited(v, limit)       == IF v <= 0 THEN limit ELSE v

\* A negative number of threads, or a fraction, here in per cent.
validate_thread_ratio(v) ==
  v # NotANumber /\ \/ v < 0 /\ v >= -(device_count - 1)
                    \/ 0 < v /\ v <= 100

ForkModes       == ("no" :> "no_fork") @@ ("no-fork" :> "no_fork") @@ ("exec" :> "exec_each_test")
                @@ ("yes" :> "fork_each_test") @@ ("each-test" :> "fork_each_test")
RescheduleModes == {"none", "queue", "barrier", "random"}
OutputFormats   == {"key-value", "tap", "yaml"}

-----------------------------------------------------------------------------
(***************************************************************************)
(* parse_args().                                                           *)
(***************************************************************************)
\* Only the active option of a group has its argument looked at.
IsActive(map, o) ==
  \A g \in DOMAIN Groups : o \in Groups[g] => map[g] = o

BadNumber(map) ==
  \E o \in DOMAIN IntOptions \cap DOMAIN map :
    /\ IsActive(map, o)
    /\ o = "Y" => map[o] # NoArg
    /\ ~IsInt(o, map[o])

BadWord(map) ==
  \/ contains(map, "f") /\ map["f"] \notin DOMAIN ForkModes
  \/ contains(map, "thread_ratio") /\ ~validate_thread_ratio(map["thread_ratio"])
  \/ contains(map, "reschedule") /\ map["reschedule"] \notin RescheduleModes
  \/ contains(map, "O") /\ \E i \in DOMAIN map["O"] : ~WellFormed(map["O"][i])
  \/ ValueOr(map, "_format", "Y") = "output_format" /\ map["output_format"] \notin OutputFormats

ActionOf(map) ==
  CASE map["_action"] \in {"is_debug", "h"}             -> "exit"
    [] map["_action"] = "raw_list_group_members"        -> "list_group"
    [] map["_action"] \in {"dump_cpu_info", "version"}  -> map["_action"]
    [] OTHER                                            -> "list_tests"

Verbosity(map) == IF contains(map, "q") THEN 0 ELSE ValueOr(map, "v", -1)

\* Needed by the actions that only print, too.
BeforeEndpoints(map) ==
  [verbosity         |-> Verbosity(map),
   requested_quality |-> IntOr(map, "quality", TEST_QUALITY_PROD),
   include_optional  |-> contains(map, "include_optional"),
   deviceset         |-> ValueOr(map, "deviceset", <<>>),
   is_selftest       |-> contains(map, "selftest")]

Seconds == ("one_sec" :> 1) @@ ("thirty_sec" :> 30) @@ ("two_min" :> 120) @@ ("five_min" :> 300)

\* When the program should end, after its start.
EndTime(map) ==
  IF ~contains(map, "_duration") THEN epoch
  ELSE CASE map["_duration"] = "T"       -> map["T"]
         [] map["_duration"] = "service" -> forever
         [] OTHER                        -> 1000 * Seconds[map["_duration"]]

Flags(map) ==
  [fatal_errors            |-> contains(map, "F"),
   ignore_unknown_tests    |-> contains(map, "ignore_unknown_tests"),
   randomize               |-> contains(map, "test_list_randomize"),
   force_test_time         |-> contains(map, "force_test_time"),
   fatal_skips             |-> contains(map, "fatal_skips"),
   ignore_mce_errors       |-> contains(map, "ignore_mce_errors"),
   ignore_os_errors        |-> contains(map, "ignore_os_errors"),
   use_strict_runtime      |-> contains(map, "strict_runtime"),
   ud_on_failure           |-> contains(map, "ud_on_failure"),
   test_tests              |-> contains(map, "test_tests"),
   service_background_scan |-> contains(map, "_duration") /\ map["_duration"] = "service"]

Times(map) ==
  [endtime             |-> EndTime(map),
   test_time           |-> ValueOr(map, "t", 0),
   max_test_time       |-> ValueOr(map, "timeout", 0),
   timeout_to_kill     |-> ValueOr(map, "timeout_kill", 20000),
   delay_between_tests |-> ValueOr(map, "test_delay",
                             IF ValueOr(map, "_max_loop_count", "none") = "quick_run" THEN 0 ELSE 5)]

Selection(map) ==
  [enabled_tests          |-> FlattenSeq(ValueOr(map, "e", <<>>)),      \* split at commas
   disabled_tests         |-> FlattenSeq(ValueOr(map, "disable", <<>>)),
   test_list_file_path    |-> ValueOr(map, "test_list_file", <<>>),
   builtin_test_list_name |-> ValueOr(map, "use_builtin_test_list", "")]

Devices(map) ==
  [device_count        |-> IntOr(map, "n", device_count),
   thread_ratio        |-> ValueOr(map, "thread_ratio", 100),
   max_cores_per_slice |-> IF ~contains(map, "_max_cores") THEN 0
                           ELSE IF map["_max_cores"] = "no_slicing" THEN -1
                           ELSE ParseInt("max_cores_per_slice", map["max_cores_per_slice"]),
   fork_mode           |-> ForkModes[ValueOr(map, "f", "yes")],
   reschedule_mode     |-> ValueOr(map, "reschedule", "unset"),
   inject_idle         |-> IntOr(map, "inject_idle", 0),
   temperature         |-> IntOr(map, "temperature_threshold", -1)]

Limits(map) ==
  [retest_count        |-> IntOr(map, "retest_on_failure", 10),
   total_retest_count  |-> IntOr(map, "total_retest_on_failure", -2),
   max_test_count      |-> IntOr(map, "max_test_count", INT_MAX),
   max_test_loop_count |-> IF ~contains(map, "_max_loop_count") THEN 0
                           ELSE IF map["_max_loop_count"] = "quick_run" THEN 1
                           ELSE Unlimited(ParseInt("max_test_loop_count", map["max_test_loop_count"]), INT_MAX),
   max_logdata_per_thread  |-> Unlimited(IntOr(map, "max_logdata", 128), INT_MAX),
   max_messages_per_thread |-> Unlimited(IntOr(map, "max_messages", 5), INT_MAX)]

Logging(map) ==
  [output_format      |-> IF ~contains(map, "_format") THEN "default"
                          ELSE IF map["_format"] = "Y" THEN "yaml" ELSE map["output_format"],
   output_yaml_indent |-> IF ValueOr(map, "_format", "none") # "Y" THEN 0
                          ELSE IF map["Y"] = NoArg THEN 0 ELSE map["Y"],
   log_test_knobs     |-> contains(map, "O"),
   test_knobs         |-> set_knobs(ValueOr(map, "O", <<>>)),
   file_log_path      |-> ValueOr(map, "o", ""),
   on_crash_arg       |-> ValueOr(map, "on_crash", ""),
   on_hang_arg        |-> ValueOr(map, "on_hang", ""),
   seed               |-> ValueOr(map, "s", "")]

Usage == [ret |-> EX_USAGE, action |-> "run"]

parse_args(map) ==
  IF contains(map, "quality") /\ ~IsInt("quality", map["quality"]) THEN Usage
  ELSE IF contains(map, "_action")
  THEN [ret |-> EXIT_SUCCESS, action |-> ActionOf(map)] @@ BeforeEndpoints(map)
  ELSE IF BadNumber(map) \/ BadWord(map) THEN Usage
  ELSE [ret |-> EXIT_SUCCESS, action |-> "run"] @@ BeforeEndpoints(map) @@ Times(map) @@ Flags(map)
         @@ Selection(map) @@ Devices(map) @@ Limits(map) @@ Logging(map)

\* The map is made once, and the configuration of it.
parse_cmdline(cmdline) ==
  IF \A i \in DOMAIN cmdline : IsKnown(cmdline[i])
  THEN CHOOSE made \in {parse_args(map) : map \in {collect_args(cmdline)}} : TRUE
  ELSE Usage
=============================================================================
