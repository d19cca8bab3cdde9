------------------------------ MODULE MCProgram ------------------------------
EXTENDS Program

CONSTANTS a, b, c, z, s, mce

MCRegular   == <<a, b, c, z>>
MCSelftests == <<s>>
MCBuiltin   == <<b>>
MCQuality   == (c :> TEST_QUALITY_BETA) @@ (z :> TEST_QUALITY_SKIP)
               @@ [t \in {a, b, s, mce} |-> TEST_QUALITY_PROD]
MCOptional  == {b}
MCId        == (a :> <<"t">>) @@ (b :> <<"t", "t">>) @@ (c :> <<"c">>) @@ (z :> <<"z">>) @@ (s :> <<"s">>)
               @@ (mce :> <<"m">>)
MCGroups    == [t \in {a, b, c, z, s, mce} |-> IF t \in {a, b} THEN {"g"} ELSE {}]

O(opt, arg) == [opt |-> opt, arg |-> arg]

\* What the program does.
RunOptions ==
  {O("T", 1), O("T", 2), O("T", forever), O("service", NoArg), O("strict_runtime", NoArg),
   O("test_list_randomize", NoArg), O("e", <<Id(a), Group("g")>>), O("e", <<Glob({a, c, z}), Unknown>>),
   O("e", <<Id(z)>>), O("disable", <<Id(a)>>), O("disable", <<Glob({a, b, c, z})>>), O("disable", <<Id(mce)>>),
   O("test_list_file", <<<<Id(a), Id(c), Id(a)>>>>), O("use_builtin_test_list", "auto"),
   O("include_optional", NoArg), O("beta", NoArg), O("ignore_unknown_tests", NoArg), O("selftest", NoArg),
   O("F", NoArg), O("fatal_skips", NoArg), O("max_test_count", 1), O("ignore_mce_errors", NoArg), O("f", "exec")}

\* What only shows in the configuration, or ends the program at once.
OtherOptions ==
  {O("one_sec", NoArg), O("l", NoArg), O("raw_list_group_members", "g"), O("version", NoArg),
   O("quick_run", NoArg), O("max_test_loop_count", 0), O("max_test_loop_count", 3), O("no_slicing", NoArg),
   O("max_cores_per_slice", -2), O("max_cores_per_slice", 4), O("output_format", "tap"), O("output_format", "xml"),
   O("Y", NoArg), O("Y", 161), O("n", 9), O("quality", NotANumber), O("alpha", NoArg), O("thread_ratio", -2), O("q", NoArg), O("v", NoArg),
   O("test_delay", 0), O("deviceset", "p0"), O("no_option", NoArg)}

\* Knobs, of two tests of which one's ID begins with the other's and of none, a name
\* with a dot in it, and integers of four bits at the edges of both types.
X == <<"x">>
XX == <<"x", ".", "x">>
MCKnobNames == {X, XX}
Num(n)    == [is |-> "integer", n |-> n]
Decimal   == [is |-> "decimal", n |-> 3]
Text      == [is |-> "text", n |-> 0]
MCKnobDefault == Num(5)

Words(w)  == O("O", [words |-> w])
Edges     == {Num(n) : n \in {-16, -9, -8, -1, 7, 8, 15, 16}} \cup {Decimal, Text}
Keys      == {X, XX, TestKey(MCId[a], X), TestKey(MCId[b], X), TestKey(MCId[a], XX)}
SomeKnobs == {Words(<<k, v>>) : k \in Keys, v \in {Num(7), Text}}
KnobLists ==
  {<<Words(<<k, v>>)>> : k \in {X, TestKey(MCId[a], X)}, v \in Edges}
  \cup {<<k, l>> : k, l \in SomeKnobs}
  \cup {<<Words(<<X>>)>>, <<Words(<<X, Num(7)>>), Words(<<X, <<>>>>)>>, <<Words(<<X, Text, Text>>)>>}
KnobLines ==
  {<<O("f", mode), O("e", <<Id(t)>>), O("max_test_count", 1)>> \o l :
     mode \in {"no", "yes", "exec"}, t \in {a, b}, l \in KnobLists}

Service == O("service", NoArg)
Forever == O("T", forever)

MCCommandLines ==
  {<<>>} \cup {<<o>> : o \in RunOptions} \cup {<<o, p>> : o, p \in RunOptions \ {Service, Forever}}
  \cup {<<o, Service>> : o \in {O("T", 1), O("F", NoArg), O("ignore_mce_errors", NoArg), O("disable", <<Id(a)>>)}}
  \cup {<<Forever, p>> : p \in {O("test_list_randomize", NoArg), O("F", NoArg), O("beta", NoArg)}}
  \cup {<<o, O("max_test_count", 0), p>> : o \in OtherOptions \cup {O("T", 1), Service}, p \in OtherOptions}
  \cup {<<O("test_list_randomize", NoArg), O("include_optional", NoArg), O("T", 2)>>}
  \cup KnobLines
=============================================================================
