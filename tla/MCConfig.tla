------------------------------ MODULE MCConfig -------------------------------
(***************************************************************************)
(* Config for TLC: files of up to three lines.                             *)
(***************************************************************************)
EXTENDS Config

\* Numbers around every test: not positive, no power of two, too small, too large.
SampleLines ==
    {Numeric("num-cpu", n) : n \in {0, 8}}
    \cup {Numeric("delays-per-exec", n) : n \in {-1, 0}}
    \cup {Numeric("min-ins", 200), Numeric("max-ins", 10)}
    \cup {Numeric("max-overall-mem", n) : n \in {64, 100, 131072}}
    \cup {Numeric("mem-per-frame", n) : n \in {8, 64, 100, 256}}
    \cup {Numeric("min-mem-per-proc", n) : n \in {8192, 8193}}
    \cup {Numeric("max-mem-per-proc", n) : n \in {64, 131072}}
    \cup {Numeric("mem-per-proc", 32768)}
    \cup {Worded("scheduler", "rr"), Worded("scheduler", "sjf"), Worded("num-cpu", "four")}

ShortFiles == UNION {[1..n -> SampleLines] : n \in 0..3}
=============================================================================
