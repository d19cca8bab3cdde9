--------------------------------- MODULE Knobs ---------------------------------
(***************************************************************************)
(* Test knobs, test_knobs.cpp: the pairs of -O KNOB=VALUE, which of them the  *)
(* program gives to the child it executes for a test, and what a test reads   *)
(* of them, as an integer of its own type, a number or a string.             *)
(* Keys and test IDs are sequences of characters.  A value is a record        *)
(* [is, n]: "integer" is text that is all an integer, n; "decimal" is text    *)
(* that only strtod() reads to its end; "text" is any other.  An argument of  *)
(* -O is [words], what split() makes of it at each "=".                      *)
(***************************************************************************)
EXTENDS Integers, Sequences, SequencesExt

CONSTANT Width   \* of the integers that are read; 64 in the code

ASSUME WidthAssumption == Width \in Nat \ {0}

Dot == "."

-----------------------------------------------------------------------------
(***************************************************************************)
(* TestKnobSingleton.                                                      *)
(***************************************************************************)
Entry(k, v) == [key |-> k, value |-> v]

\* find_key(): the first entry with the key, or 0.
find_key(entries, key) == SelectInSeq(entries, LAMBDA e : e.key = key)

set_knob(entries, e) ==
  LET i == find_key(entries, e.key)
  IN IF i = 0 THEN Append(entries, e) ELSE [entries EXCEPT ![i].value = e.value]

Present(entries, key)  == find_key(entries, key) # 0
get_knob(entries, key) == entries[find_key(entries, key)].value

\* set_knob_from_key_value_string(): exactly one "=", with something on both sides.
WellFormed(o) == Len(o.words) = 2 /\ \A i \in 1..2 : o.words[i] # <<>>

set_knobs(args) ==
  FoldLeft(set_knob, <<>>, [i \in DOMAIN args |-> Entry(args[i].words[1], args[i].words[2])])

\* The place of the first dot, from 0; npos is -1.
DotPos(key) == SelectInSeq(key, LAMBDA c : c = Dot) - 1

\* Faulty: the dot is not looked for at the end of the ID.
PassedByPrefix(key, id) == DotPos(key) = -1 \/ IsPrefix(id, key)

Passed(key, id) == DotPos(key) = -1 \/ (DotPos(key) = Len(id) /\ IsPrefix(id, key))

\* append_knob_argv() and load_test_knob_args(): keys and values take turns.
append_knob_argv(entries, id) ==
  LET passed == SelectSeq(entries, LAMBDA e : Passed(e.key, id))
  IN FlattenSeq([i \in DOMAIN passed |-> <<passed[i].key, passed[i].value>>])
load_test_knob_args(args) ==
  FoldLeft(set_knob, <<>>, [i \in 1..(Len(args) \div 2) |-> Entry(args[2 * i - 1], args[2 * i])])

\* The knobs of the process that runs a test: a forked child has the program's,
\* one that is executed gets them by its command line.
KnobsOf(entries, fork_mode, id) ==
  IF fork_mode = "exec_each_test" THEN load_test_knob_args(append_knob_argv(entries, id)) ELSE entries

-----------------------------------------------------------------------------
(***************************************************************************)
(* What a test reads.                                                      *)
(***************************************************************************)
\* TestKeyWrapper, and the key of a knob of no test.
TestKey(id, name)          == id \o <<Dot>> \o name
KeyRead(of_test, id, name) == IF of_test THEN TestKey(id, name) ELSE name

Integer == {"int", "uint"}
Modulus == 2 ^ Width
Abs(n)  == IF n < 0 THEN -n ELSE n

\* strtoull(): a sign is taken, what does not fit becomes the largest number,
\* and errno is not looked at.
strtoull(n) == IF Abs(n) > Modulus - 1 THEN Modulus - 1 ELSE n % Modulus

\* Int(value) for the two types of integers.
Convert(type, n) ==
  LET u == strtoull(n) IN IF type = "int" /\ u >= Modulus \div 2 THEN u - Modulus ELSE u

\* Whether the reader takes the text: all of it has to be a number.
Taken(type, v) ==
  \/ type = "string"
  \/ type = "double" /\ v.is \in {"integer", "decimal"}
  \/ type \in Integer /\ v.is = "integer"

\* knob_value_integer(), knob_value_double() and the one for strings: the value
\* and the origin that is logged.
KnobValue(entries, type, key, default) ==
  IF Present(entries, key) /\ Taken(type, get_knob(entries, key))
  THEN LET v == get_knob(entries, key)
       IN [value |-> IF type \in Integer THEN [v EXCEPT !.n = Convert(type, @)] ELSE v,
           origin |-> "Options"]
  ELSE [value |-> default, origin |-> "Defaulted"]
=============================================================================
