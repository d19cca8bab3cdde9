----------------------------- MODULE RandomEngine -----------------------------
(***************************************************************************)
(* The random engines of random.cpp.  A state of an engine is what it was   *)
(* seeded with and how many numbers it has drawn since; the numbers are not  *)
(* computed.  The parent, and each child, has one state for its main thread  *)
(* (the "global" engine, of thread -1) and one for each test thread.         *)
(***************************************************************************)
EXTENDS Integers, Sequences

EngineType == {"Constant", "LCG", "AES"}

\* What an engine is seeded with: random bytes, a state given after the name,
\* or the zero that a minstd_rand gets from a text that is no number.
Origin == {"random", "given", "zero"}

State == [engine : EngineType, origin : Origin, drawn : Nat]

EX_USAGE == 64
EX_IOERR == 74

\* Neither a constant nor a linear congruential engine at 0 ever moves.
Stuck(s) == s.engine = "Constant" \/ (s.engine = "LCG" /\ s.origin = "zero")

\* A call of the engine's operator(), n times.
Move(s, n) == IF Stuck(s) THEN s ELSE [s EXCEPT !.drawn = @ + n]

\* How many numbers of the engine a request takes: generate32() and so on.
RequestsLCG == [int |-> 1, r32 |-> 2, r48 |-> 2, r64 |-> 3, r128 |-> 6]
RequestsAES == [int |-> 1, r32 |-> 1, r48 |-> 1, r64 |-> 1, r128 |-> 1]
Draws(engine, request) ==
  CASE engine = "LCG" -> RequestsLCG[request]
    [] engine = "AES" -> RequestsAES[request]
    [] OTHER          -> 0

generate(s, request) == Move(s, Draws(s.engine, request))

\* frandomf_scale() and frandom_scale(): 24 bits of 32, or 53 of 64.
RequestOf == [rand |-> "int", random |-> "int", lrand48 |-> "int", mrand48 |-> "r32",
              drand48 |-> "r64", frandomf |-> "r32", frandom |-> "r64", random_device |-> "r32"]
RandomFunction(s, f) == generate(s, RequestOf[f])

\* What a sequence of calls does.
Calls(s, fs) ==
  LET after[k \in 0..Len(fs)] == IF k = 0 THEN s ELSE RandomFunction(after[k - 1], fs[k])
  IN after[Len(fs)]

random_advance_seed(s) == RandomFunction(s, "rand")

\* mixin_from_device_info(): scramble() of core and package, and two bits of
\* the number of the hardware thread.
mixin_from_device_info(info) == <<info.core, info.package, info.thread % 4>>

\* seedThread(): the global state, or for an LCG its next number, XOR the mixin;
\* the global engine itself is not moved.
seedThread(global, mixin) ==
  [global |-> IF global.engine = "LCG" THEN Move(global, 1) ELSE global, mixin |-> mixin]

random_init_thread(global, info) == seedThread(global, mixin_from_device_info(info))

\* memset_random(): the requests it makes for n bytes, the last block of 128
\* bits being put at the end, over what is there.
memset_random(s, n) ==
  LET blocks == (n + 15) \div 16
      again[k \in 0..blocks] == IF k = 0 THEN s ELSE generate(again[k - 1], "r128")
  IN CASE n <= 4 -> generate(s, "r32")
       [] n \in 5..8 -> generate(s, "r64")
       [] OTHER -> again[blocks]

\* The places of the blocks of memset_random(): they are within the buffer of n
\* bytes and cover it.
Blocks(n) ==
  IF n <= 16 THEN {0..(n - 1)}
  ELSE {(16 * k)..(16 * k + 15) : k \in 0..((n - 1) \div 16 - 1)} \cup {(n - 16)..(n - 1)}

\* set_random_bits() picks bit positions from a shrinking list: picks are the
\* numbers drawn, modulo the length of the list.
SwapOut(list, i) == [j \in 1..(Len(list) - 1) |-> IF j = i THEN list[Len(list)] ELSE list[j]]
set_random_bits(num_bits_to_set, bitwidth, picks) ==
  LET pick[k \in 0..num_bits_to_set] ==
        IF k = 0 THEN [list |-> [i \in 1..bitwidth |-> i - 1], bits |-> {}]
        ELSE LET before == pick[k - 1]
                 idx    == (picks[k] % Len(before.list)) + 1
             IN [list |-> SwapOut(before.list, idx), bits |-> before.bits \cup {before.list[idx]}]
  IN IF num_bits_to_set >= bitwidth THEN 0..(bitwidth - 1) ELSE pick[num_bits_to_set].bits

-----------------------------------------------------------------------------
(***************************************************************************)
(* Seeds as texts: what random_format_seed() prints, "LCG:560936296", and   *)
(* what -s or the last argument of a child may be.                          *)
(***************************************************************************)
NoSeed       == [kind |-> "none"]
HelpSeed     == [kind |-> "help"]        \* also "list"
UnknownSeed  == [kind |-> "unknown"]     \* no engine's name and no file
FileSeed(long_enough) == [kind |-> "file", long_enough |-> long_enough]
EngineSeed(engine) == [kind |-> "engine", engine |-> engine]          \* a name only
StateSeed(s) == [kind |-> "state", state |-> s]                       \* with a state

random_format_seed(s) == StateSeed(s)

Exit(code)    == [exit |-> code]
Seeded(s)     == [state |-> s]
Exits(r)      == "exit" \in DOMAIN r
Fresh(engine) == [engine |-> engine, origin |-> "random", drawn |-> 0]

engineFromName(engine, haveAes) == engine \in {"Constant", "LCG"} \/ (engine = "AES" /\ haveAes)

\* The results random_init_global() may have; without the name of an engine a
\* random byte chooses it.  What reloadGlobalState() reads is the state printed.
random_init_global(seed, haveAes) ==
  CASE seed.kind = "help"    -> {Exit(0)}
    [] seed.kind = "unknown" -> {Exit(EX_USAGE)}
    [] seed.kind = "file" /\ ~seed.long_enough -> {Exit(EX_IOERR)}
    [] seed.kind = "none" \/ (seed.kind = "file" /\ seed.long_enough) ->
         {Seeded(Fresh(e)) : e \in IF haveAes THEN {"LCG", "AES"} ELSE {"LCG"}}
    [] seed.kind = "engine" -> IF engineFromName(seed.engine, haveAes)
                               THEN {Seeded(Fresh(seed.engine))} ELSE {Exit(EX_USAGE)}
    [] seed.kind = "state"  -> IF engineFromName(seed.state.engine, haveAes)
                               THEN {Seeded(seed.state)} ELSE {Exit(EX_USAGE)}
=============================================================================
