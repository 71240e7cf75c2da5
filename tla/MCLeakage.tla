----------------------------- MODULE MCLeakage ------------------------------
EXTENDS Leakage, TLC

CONSTANT NaN        \* a value that is not a number

(* Declarations.  Two scopes; the register m of dut and its port of tb are *)
(* the same net, as simulators declare them.                               *)
Open(name) == [token |-> "scope", name |-> name]
Up == [token |-> "upscope"]
Var(ident, name, width, type) ==
    [token |-> "var", ident |-> ident, name |-> name, width |-> width, type |-> type]
Tick(ns, parts) == [token |-> "timescale", scale |-> [ns |-> ns, parts |-> parts]]

Top(type) ==
    <<Open("tb"), Var("!", "clk", 1, "reg"), Var("m", "m", 2, "wire"),
      Open("dut"), Var("m", "m", 2, "wire"), Var("b", "busy", 1, type), Up,
      Var("r", "rst_n", 1, "reg"), Up, Var("g", "gain", 2, "real")>>
mcPathOrder ==
    <<<<"clk">>, <<"gain">>, <<"tb", "clk">>, <<"tb", "dut", "busy">>, <<"tb", "dut", "m">>,
      <<"tb", "m">>, <<"tb", "rst_n">>>>

(* The body: a value is written as short as it may be.                     *)
At(t) == [line |-> "stamp", time |-> t]
Bit(ident, symbol) ==
    [line |-> "scalar", ident |-> ident, text |-> <<symbol>>, value |-> <<symbol>>]
Bits(ident, text, value) ==
    [line |-> "vector", ident |-> ident, text |-> text, value |-> value]
Gain == [line |-> "real", ident |-> "g", text |-> <<"r", "1", ".", "5">>,
         value |-> <<"r", "1", ".", "5">>]
Plain(line) == [line |-> line]
low == Bit("!", "0")
high == Bit("!", "1")
m00 == Bits("m", <<"0">>, <<"0", "0">>)
m01 == Bits("m", <<"1">>, <<"0", "1">>)
m10 == Bits("m", <<"1", "0">>, <<"1", "0">>)
mXX == Bits("m", <<"x">>, <<"x", "x">>)

arguments ==
    [clock |-> <<"clk">>, reset |-> << >>, busy |-> << >>, modulus |-> << >>,
     fault |-> << >>, reset_active_high |-> FALSE, kem_modulus |-> 1,
     dsa_modulus |-> 2, default_active_state |-> "dma", scopes |-> {},
     excludes |-> {}, weights |-> << >>, count_aliases |-> FALSE,
     hardware_id |-> "rtl", operation |-> "modmul"]

(* Activity: a register of two names changes at and between the edges.     *)
Fixed(script) == [i \in DOMAIN script |->
                     IF "line" \in DOMAIN script[i] THEN {script[i]} ELSE script[i].may]
Opt(lines) == [may |-> lines \cup {Plain("blank")}]
activity ==
    {[header |-> <<Tick(1, 1)>> \o Top("reg"), ending |-> "closed", options |-> o,
      script |-> Fixed(<<Opt({low}), Opt({m00}), At(1), high, Opt({m01, mXX}),
                         At(2), low, Opt({m00}), At(3), high, Opt({m10}),
                         At(20), Opt({low}), At(21), high>>)] :
        o \in {arguments,
               [arguments EXCEPT !.count_aliases = TRUE,
                                 !.excludes = {<<"tb", "rst_n">>}],
               [arguments EXCEPT !.scopes = {<<"tb", "dut">>},
                  !.weights = <<[paths |-> {<<"tb", "dut", "m">>}, factor |-> 2],
                                [paths |-> {<<"tb", "m">>}, factor |-> 3]>>]}}

(* States: the control nets change at the edges and between them.          *)
states ==
    {[header |-> <<Tick(1, 1)>> \o Top("reg"),
      ending |-> "closed", options |-> [arguments EXCEPT !.busy = <<"busy">>, !.reset = <<"rst_n">>,
                       !.modulus = <<"tb", "m">>, !.fault = fault],
      script |-> Fixed(<<Opt({Bit("r", "0")}), Opt({Bit("b", "1")}), low, At(1), high,
                         Opt({m01, mXX}), At(2), low, [may |-> {Bit("r", "1")}],
                         Opt({m10, m00}), Opt({Bit("b", "1"), Bit("b", "0")}), At(3),
                         high>>)] :
        fault \in {<< >>, <<"tb", "dut", "busy">>}}

(* Dumps of any records in any order: comments, noise, steps back.         *)
noise ==
    {[header |-> <<Tick(1, 1)>> \o Top("reg"), ending |-> "closed", options |-> arguments,
      script |-> [i \in 1 .. 6 |->
                     {low, high, Bit("!", "x"), Bit("u", "1"), Gain, At(i \div 2), At(1),
                      Bits("u", <<"1">>, <<"1">>), Plain("garbage"),
                      Plain("$comment"), Plain("$end")}]]}

(* Clocks: the tick may be absent, unknown, a part of a nanosecond, slow.  *)
clocks ==
    {[header |-> tick \o Top("reg"), ending |-> "closed", options |-> arguments,
      script |-> <<{low}, {At(1), At(2)}, {high}, {At(2), At(3)}, {low}, {At(3), At(20)},
                   {high}, {At(20)}, {low}, {At(21)}, {high}>>] :
        tick \in {<< >>, <<Tick(1, 0)>>, <<Tick(10, 1)>>, <<Tick(1, 2)>>,
                  <<Tick(100000000, 1)>>}}

(* Names: absent, ambiguous or excluded signals, nothing left to count.    *)
names ==
    {[header |-> h, ending |-> "closed", options |-> [arguments EXCEPT ![s] = spec, !.excludes = e],
      script |-> <<{At(1)}, {high}, {At(2)}, {low}, {At(3)}, {high}>>] :
        h \in {<<Tick(1, 1)>>, <<Tick(1, 1)>> \o Top("string"),
               <<Tick(1, 1)>> \o Top("reg") \o <<Var("c", "clk", 1, "reg")>>},
        s \in {"clock", "busy"},
        spec \in {<< >>, <<"clk">>, <<"tb", "clk">>, <<"tb">>},
        e \in {{}, {<<"tb", "m">>}, {<<"tb", "m">>, <<"tb", "dut", "m">>,
                    <<"tb", "rst_n">>, <<"clk">>}}}

(* Headers and command lines: no end, a $var of too few fields, a last     *)
(* declaration without its $end, a name that is empty; a slow clock or not.*)
Malformed == [token |-> "malformed"]
Unclosed == [token |-> "unclosed"]
headers ==
    {[header |-> <<Tick(tick, 1)>> \o h, ending |-> e, options |-> o,
      script |-> <<{At(1)}, {high}, {At(2)}, {low}, {At(21)}, {high, Plain("garbage")}>>] :
        tick \in {1, 100000000},
        h \in {Top("reg"), Top("reg") \o <<Unclosed>>, <<Malformed>> \o Top("reg"),
               <<Malformed>> \o Top("reg") \o <<Unclosed>>, <<Unclosed>>},
        e \in {"closed", "missing", "unterminated"},
        o \in {arguments, [arguments EXCEPT !.hardware_id = ""],
               [arguments EXCEPT !.operation = ""]}}

mcSimulations == activity \cup states \cup noise \cup clocks \cup names \cup headers
mcTimes == {0, 1, 2, 3, 20, 21}

(* The assessment: file 1 is the trace that is converted; the sets are     *)
(* directories, files or globs, and a file may be named twice.             *)
Trace(s) == [kind |-> "trace", series |-> s]
mcDisks ==
    {(2 :> Trace(<<0, 2>>) @@ 3 :> second @@ 4 :> third) :
        second \in {Trace(<<4, 2>>), Trace(<<0, NaN, 1>>), [kind |-> "no_series"]},
        third \in {Trace(<<5, 2>>), Trace(<<4, 2>>), [kind |-> "not_json"]}}
Files(p) == [kind |-> "glob", paths |-> p]
mcCommands ==
    {[fixed |-> f, random |-> r, truncate |-> t, fail_on_leakage |-> t] :
        f \in {<<[kind |-> "directory", paths |-> {1, 2}]>>, <<Files({2}), Files({2})>>},
        r \in {<<Files({3, 4})>>, <<Files({4}), Files({1}), Files({1, 4})>>,
               <<[kind |-> "directory", paths |-> {1}], Files({2})>>},
        t \in BOOLEAN}
=============================================================================
