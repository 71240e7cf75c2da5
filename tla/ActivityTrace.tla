--------------------------- MODULE ActivityTrace ----------------------------
(***************************************************************************)
(* tools/power_trace_from_vcd.py: from a simulator's dump to the toggle    *)
(* count of each clock cycle, with the trace contract of                   *)
(* model/power_contract.py.  A step reads one header token, one line of    *)
(* the body or one time block.  A bit string is a sequence of symbols, a   *)
(* path a sequence of names, a glob the set of paths it matches; a time is *)
(* a number of ticks.  Dates, versions, provenance and the fixed texts of  *)
(* the metadata are left out; weights are whole numbers.                   *)
(***************************************************************************)
EXTENDS Integers, Sequences, FiniteSets, FiniteSetsExt, SequencesExt, Sums

CONSTANTS
    Simulations,    \* [header, ending, options, script]: what a simulator declares,
                    \* how its header ends, the command line, and for each line
                    \* of the body the lines the simulator may write there
    PathOrder,      \* all paths, in the order Python sorts them
    Times           \* the times a simulation may stamp, 0 among them

VARIABLES
    sim,                            \* the simulation and the parsed arguments
    header, scope, variables, timescale,
    blocks, in_comment,             \* parse_vcd
    values, previous_clock, previous_snapshot, next_block, samples,
    stage, trace,
    dumped, wave                    \* history: what the simulator dumped

vars == <<sim, header, scope, variables, timescale, blocks, in_comment, values,
          previous_clock, previous_snapshot, next_block, samples,
          stage, trace, dumped, wave>>

parseVars == <<header, scope, variables, timescale, blocks, in_comment>>
sampleVars == <<values, previous_clock, previous_snapshot,
                next_block, samples>>

opt == sim.options
NotGiven == << >>               \* the specification of a signal not asked for
None == ""                      \* its identifier, and any empty text
Get(f, x, default) == IF x \in DOMAIN f THEN f[x] ELSE default
Put(f, x, v) == [y \in DOMAIN f \cup {x} |-> IF y = x THEN v ELSE f[y]]
Updated(f, g) ==
    [x \in DOMAIN f \cup DOMAIN g |-> IF x \in DOMAIN g THEN g[x] ELSE f[x]]
Xs(width) == [i \in 1 .. width |-> "x"]
-----------------------------------------------------------------------------
NON_TOGGLING_VAR_TYPES == {"parameter", "real", "realtime", "event", "string"}
togglable(v) == v.type \notin NON_TOGGLING_VAR_TYPES

(* A literal shorter than the signal is extended on the left: by its first *)
(* symbol when that is x or z, and by 0 otherwise.                         *)
_normalise_vector(text, width) ==
    LET fill == IF Head(text) \in {"x", "z"} THEN Head(text) ELSE "0"
    IN  IF text = << >> THEN Xs(width)
        ELSE IF Len(text) > width
             THEN SubSeq(text, Len(text) - width + 1, Len(text))
             ELSE [i \in 1 .. width - Len(text) |-> fill] \o text

hamming_distance(previous, current) ==
    LET width == Max({Len(previous), Len(current)})
        p == _normalise_vector(previous, width)
        c == _normalise_vector(current, width)
    IN  Cardinality({i \in 1 .. width : p[i] # c[i]})

(* The width of an identifier is that of its first declaration; 0: none.   *)
widths(ident) ==
    LET of == {i \in DOMAIN variables : variables[i].ident = ident}
    IN  IF of = {} THEN 0 ELSE variables[Min(of)].width

(* A timescale is [ns, parts]: one tick is ns / parts nanoseconds, and parts *)
(* is 0 for a text the tool does not support.                              *)
Missing == [ns |-> 0, parts |-> 0]
fail == stage' = "error"
-----------------------------------------------------------------------------
(* The header ends with $enddefinitions and its $end.                      *)
NoHeaderEnd ==
    /\ stage = "header" /\ sim.ending # "closed"
    /\ fail
    /\ UNCHANGED <<sim, parseVars, sampleVars, trace, dumped, wave>>

(* A declaration is read up to its $end: the last one may be without, of   *)
(* which tokens.index raises a ValueError that main does not catch.        *)
AfterTokenCaught(t) ==                          \* slip: caught as a VcdError
    IF t.token \in {"unclosed", "malformed"} THEN "error" ELSE stage
AfterToken(t) ==
    CASE t.token = "unclosed"  -> "uncaught"
      [] t.token = "malformed" -> "error"
      [] OTHER -> stage

(* The header, token by token: declarations are named by the open scopes.  *)
upscope == IF scope = << >> THEN scope ELSE Front(scope)

ReadToken ==
    /\ stage = "header" /\ sim.ending = "closed"
    /\ header # << >>
    /\ header' = Tail(header)
    /\ LET t == Head(header) IN
       /\ scope' = CASE t.token = "scope"   -> Append(scope, t.name)
                     [] t.token = "upscope" -> upscope
                     [] OTHER -> scope
       /\ variables' = IF t.token = "var"
                       THEN Append(variables,
                                   [ident |-> t.ident, name |-> t.name,
                                    path |-> Append(scope, t.name),
                                    width |-> t.width, type |-> t.type])
                       ELSE variables
       /\ timescale' = IF t.token = "timescale" THEN t.scale ELSE timescale
       /\ stage' = AfterToken(t)
    /\ UNCHANGED <<sim, blocks, in_comment, sampleVars, trace, dumped, wave>>

EndHeader ==
    /\ stage = "header" /\ sim.ending = "closed"
    /\ header = << >>
    /\ IF variables = << >> \/ timescale = Missing THEN fail ELSE stage' = "body"
    /\ UNCHANGED <<sim, parseVars, sampleVars, trace, dumped, wave>>

(* The body.  A line within a comment is skipped whatever it looks like.   *)
Record(ident, text) ==
    blocks' = [blocks EXCEPT ![Len(blocks)].changes = Put(@, ident, text)]

ReadStampLoose(time) ==                             \* slip: no merging
    /\ IF time < Last(blocks).time THEN fail ELSE UNCHANGED stage
    /\ blocks' = IF time >= Last(blocks).time
                 THEN Append(blocks, [time |-> time, changes |-> << >>])
                 ELSE blocks
ReadStamp(time) ==
    /\ IF time < Last(blocks).time THEN fail ELSE UNCHANGED stage
    /\ blocks' = IF time > Last(blocks).time
                 THEN Append(blocks, [time |-> time, changes |-> << >>])
                 ELSE blocks

ReadChange(l) ==
    LET width == widths(l.ident) IN
    /\ UNCHANGED stage
    /\ CASE l.line = "vector" /\ width = 0 -> UNCHANGED blocks
         [] l.line = "vector" /\ width > 0 ->
                Record(l.ident, _normalise_vector(l.text, width))
         [] l.line = "scalar" ->
                Record(l.ident, _normalise_vector(l.text, Max({width, 1})))
         [] l.line = "real" -> Record(l.ident, l.text)

ReadLine(l) ==
    IF in_comment
    THEN /\ in_comment' = (l.line # "$end")
         /\ UNCHANGED <<blocks, stage>>
    ELSE /\ in_comment' = (l.line = "$comment")
         /\ \/ l.line = "stamp" /\ ReadStamp(l.time)
            \/ l.line \in {"scalar", "vector", "real"} /\ ReadChange(l)
            \/ l.line \in {"$comment", "$end", "blank"} /\ UNCHANGED <<blocks, stage>>
            \/ l.line = "garbage" /\ fail /\ UNCHANGED blocks

(* The simulator dumps a line, which the parser reads.  The history keeps  *)
(* the waveform: what was dumped, at which time, as the design's value.    *)
Stray(l) == l.line = "garbage" \/ (l.line = "stamp" /\ l.time < dumped.now)
Visible(l) == ~in_comment /\ l.line \in {"scalar", "vector", "real"}
DumpLine(l) ==
    /\ ReadLine(l)
    /\ wave' = IF Visible(l)
               THEN [wave EXCEPT ![dumped.now] = Put(@, l.ident, l.value)]
               ELSE wave
    /\ dumped' = [dumped EXCEPT
                    !.lines = @ + 1,
                    !.stray = @ \/ (~in_comment /\ Stray(l)),
                    !.now = IF ~in_comment /\ l.line = "stamp" THEN l.time ELSE @]
    /\ UNCHANGED <<sim, header, scope, variables, timescale, sampleVars, trace>>
Dump ==
    /\ stage = "body"
    /\ dumped.lines < Len(sim.script)
    /\ \E l \in sim.script[dumped.lines + 1] : DumpLine(l)
-----------------------------------------------------------------------------
(* A signal is named by its full path or, when that is unique, by its name.*)
Resolve(spec) ==
    LET exact   == {v.ident : v \in {w \in ToSet(variables) : w.path = spec}}
        by_name == {v.ident : v \in {w \in ToSet(variables) : <<w.name>> = spec}}
        found   == IF exact # {} THEN exact ELSE by_name
    IN  IF spec = NotGiven THEN None
        ELSE IF Cardinality(found) = 1 THEN CHOOSE ident \in found : TRUE
        ELSE "unresolved"
Ident(signal) == Resolve(opt[signal])
Controls == {"reset", "busy", "modulus", "fault"}

(* select_signals: the first declaration, in the order of paths, of each   *)
(* net that is in scope, toggles and is not excluded.                      *)
Rank(path) == CHOOSE i \in DOMAIN PathOrder : PathOrder[i] = path
Before(i, j) ==
    \/ Rank(variables[i].path) < Rank(variables[j].path)
    \/ variables[i].path = variables[j].path /\ i < j
Eligible(i) ==
    LET v == variables[i] IN
    /\ opt.scopes = {} \/ \E s \in opt.scopes : IsPrefix(s, v.path)
    /\ v.ident # Ident("clock")
    /\ togglable(v)
    /\ v.path \notin opt.excludes

select_signals ==
    {i \in DOMAIN variables :
        /\ Eligible(i)
        /\ \/ opt.count_aliases
           \/ \A j \in DOMAIN variables :
                  Eligible(j) /\ variables[j].ident = variables[i].ident =>
                      ~Before(j, i)}
Weight(path) ==
    LET matching == {k \in DOMAIN opt.weights : path \in opt.weights[k].paths}
    IN  IF matching = {} THEN 1 ELSE opt.weights[Max(matching)].factor

Number(bits) ==
    FoldLeft(LAMBDA n, b : 2 * n + (IF b = "1" THEN 1 ELSE 0), 0, bits)
classify(now) ==
    LET Is(signal, symbol) == /\ opt[signal] # NotGiven
                              /\ Get(now, Ident(signal), <<"x">>) = <<symbol>>
        raw     == IF opt["modulus"] = NotGiven THEN <<"x">>
                   ELSE Get(now, Ident("modulus"), <<"x">>)
        Selects(m) == ToSet(raw) \subseteq {"0", "1"} /\ Number(raw) = m
    IN  IF Is("reset", IF opt.reset_active_high THEN "1" ELSE "0") THEN "zeroize"
        ELSE IF Is("fault", "1") THEN "fault"
        ELSE IF ~Is("busy", "1") THEN "idle"
        ELSE IF Selects(opt.kem_modulus) THEN "kem"
        ELSE IF Selects(opt.dsa_modulus) THEN "dsa"
        ELSE opt.default_active_state

(* The end of the file: the timescale, the signals named on the command    *)
(* line and the selection are settled before the first sample.             *)
EndOfFile ==
    /\ stage = "body"
    /\ IF \/ timescale.parts = 0
          \/ opt["clock"] = NotGiven
          \/ \E s \in Controls \cup {"clock"} : Ident(s) = "unresolved"
          \/ select_signals = {}
       THEN fail ELSE stage' = "sample"
    /\ UNCHANGED <<sim, parseVars, sampleVars, trace, dumped, wave>>
-----------------------------------------------------------------------------
(* compute_cycle_activity: a block at a time; a rising clock ends a cycle. *)
SnapshotOf(now) ==
    [i \in select_signals |-> Get(now, variables[i].ident, Xs(variables[i].width))]
Toggles(from, to) ==
    SumTo([i \in DOMAIN variables |->
              IF i \in select_signals
              THEN Weight(variables[i].path) * hamming_distance(from[i], to[i])
              ELSE 0],
          Len(variables))
_time_to_ns(time) == (time * timescale.ns) \div timescale.parts
Representable(time) == (time * timescale.ns) % timescale.parts = 0

Reference ==                            \* pre_block, until there is a snapshot
    IF previous_snapshot = << >> THEN SnapshotOf(values) ELSE previous_snapshot
(* slip: the state is read after the changes of the edge itself           *)
SampleLate(block, now) ==
    [timestamp_ns |-> _time_to_ns(block.time), state |-> classify(now),
     toggles |-> Toggles(Reference, SnapshotOf(now))]
Sample(block, now) ==
    [timestamp_ns |-> _time_to_ns(block.time), state |-> classify(values),
     toggles |-> Toggles(Reference, SnapshotOf(now))]

SampleBlock ==
    /\ stage = "sample"
    /\ next_block <= Len(blocks)
    /\ LET block  == blocks[next_block]
           now    == Updated(values, block.changes)
           clock  == Get(now, Ident("clock"), <<"x">>)
           rising == clock = <<"1">> /\ previous_clock # <<"1">>
       IN  /\ values' = now
           /\ previous_clock' = clock
           /\ IF rising /\ ~Representable(block.time)
              THEN fail /\ UNCHANGED <<samples, previous_snapshot>>
              ELSE /\ UNCHANGED stage
                   /\ IF rising
                      THEN /\ previous_snapshot' = SnapshotOf(now)
                           /\ samples' = Append(samples, Sample(block, now))
                      ELSE UNCHANGED <<samples, previous_snapshot>>
    /\ next_block' = next_block + 1
    /\ UNCHANGED <<sim, parseVars, trace, dumped, wave>>
-----------------------------------------------------------------------------
(* build_trace, the trace contract and the schema; then the file.          *)
nanoseconds == 1000000000
round(a, b) ==                                      \* half to even
    LET q == a \div b
        r == a % b
    IN  IF 2 * r < b \/ (2 * r = b /\ q % 2 = 0) THEN q ELSE q + 1

interval_ns ==
    LET n == Len(samples)
        intervals == {samples[i + 1].timestamp_ns - samples[i].timestamp_ns :
                          i \in 1 .. n - 1}
    IN  IF Cardinality(intervals) = 1 THEN CHOOSE i \in intervals : TRUE
        ELSE round(samples[n].timestamp_ns - samples[1].timestamp_ns, n - 1)

ALLOWED_STATES == {"idle", "kem", "dsa", "dma", "zeroize", "fault"}
validate(t) ==
    /\ t.hardware_id # None /\ t.operation # None
    /\ t.clock_hz > 0
    /\ \A i \in DOMAIN t.samples :
           /\ t.samples[i].timestamp_ns >= 0
           /\ t.samples[i].state \in ALLOWED_STATES
           /\ t.samples[i].active_lanes >= 0
           /\ i > 1 => t.samples[i].timestamp_ns > t.samples[i - 1].timestamp_ns

build_trace ==
    [hardware_id |-> opt.hardware_id, operation |-> opt.operation,
     clock_hz |-> round(nanoseconds, interval_ns),
     sample_interval_ns |-> interval_ns,
     per_cycle |-> [i \in DOMAIN samples |-> samples[i].toggles],
     samples   |-> [i \in DOMAIN samples |->
                       [timestamp_ns |-> samples[i].timestamp_ns,
                        state        |-> samples[i].state,
                        active_lanes |-> IF samples[i].state \in {"kem", "dsa"}
                                         THEN 1 ELSE 0]]]

(* The contract raises a ValueError, which main does not catch.            *)
Generate ==
    /\ stage = "sample"
    /\ next_block > Len(blocks)
    /\ IF Len(samples) < 2 \/ (Len(samples) >= 2 /\ interval_ns <= 0)
       THEN fail /\ UNCHANGED trace
       ELSE IF ~validate(build_trace)
            THEN stage' = "uncaught" /\ UNCHANGED trace
            ELSE stage' = "written" /\ trace' = build_trace
    /\ UNCHANGED <<sim, parseVars, sampleVars, dumped, wave>>
-----------------------------------------------------------------------------
NoTrace == [per_cycle |-> << >>]
Fresh(s) ==                             \* a run of the generator starts
    /\ sim = s
    /\ header = s.header /\ scope = << >> /\ variables = << >>
    /\ timescale = Missing
    /\ blocks = <<[time |-> 0, changes |-> << >>]>> /\ in_comment = FALSE
    /\ values = << >> /\ previous_snapshot = << >>
    /\ previous_clock = <<"x">> /\ next_block = 1 /\ samples = << >>
    /\ stage = "header" /\ trace = NoTrace
    /\ dumped = [lines |-> 0, now |-> 0, stray |-> FALSE] /\ wave = [t \in Times |-> << >>]

Init == \E s \in Simulations : Fresh(s)
Next ==
    \/ NoHeaderEnd \/ ReadToken \/ EndHeader
    \/ Dump
    \/ EndOfFile \/ SampleBlock \/ Generate

Spec == Init /\ [][Next]_vars
-----------------------------------------------------------------------------
(* What a simulator writes and a command line says.  A declared net has    *)
(* one width, and its value is written whole or without a part that the    *)
(* rules of IEEE 1364 fill in: with the first symbol where that is x or z, *)
(* with 0 otherwise.  A real number and a string are marked as such.  Of a *)
(* header only the last declaration may lack its $end (a former one ends   *)
(* with that of the next), and no other $end closes $enddefinitions.       *)
IsSequence(s) == s \in Seq(ToSet(s))
Ascending(S) ==                         \* the numbers of a set, in order
    [k \in 1 .. Cardinality(S) |->
        CHOOSE x \in S : Cardinality({y \in S : y < x}) = k - 1]

DeclarationsOf(h) == {i \in DOMAIN h : h[i].token = "var"}
Count(h, kind, from, to) == Cardinality({k \in from .. to : h[k].token = kind})
OpenScopes(h, n) ==                     \* after n tokens
    {j \in 1 .. n :
        /\ h[j].token = "scope"
        /\ \A k \in j .. n :
               Count(h, "upscope", j + 1, k) <= Count(h, "scope", j + 1, k)}
PathOf(h, i) ==
    LET open == Ascending(OpenScopes(h, i - 1))
    IN  Append([k \in DOMAIN open |-> h[open[k]].name], h[i].name)

IsDeclaration(h, i) ==
    /\ h[i].width \in Nat \ {0}
    /\ h[i].ident \notin {None, "unresolved"}
    /\ PathOf(h, i) \in ToSet(PathOrder)
    /\ \A j \in DeclarationsOf(h) : h[i].ident = h[j].ident => h[i].width = h[j].width
IsTimescale(scale) ==
    scale.ns \in Nat /\ scale.parts \in Nat /\ (scale.parts > 0 => scale.ns > 0)
Abbreviates(text, value) ==
    LET pad == Len(value) - Len(text) IN
    /\ IsSequence(text) /\ IsSequence(value) /\ text # << >> /\ pad >= 0
    /\ \A i \in 1 .. Len(text) : value[pad + i] = text[i]
    /\ \A i \in 1 .. pad : value[i] = IF text[1] \in {"x", "z"} THEN text[1] ELSE "0"
IsLine(l, h) ==
    /\ l.line = "stamp" => l.time \in Times
    /\ l.line \in {"scalar", "vector", "real"} =>
           \A i \in DeclarationsOf(h) : h[i].ident = l.ident =>
               IF l.line = "real"
               THEN /\ h[i].type \in NON_TOGGLING_VAR_TYPES
                    /\ l.value = l.text /\ Head(l.text) \in {"r", "s"}
               ELSE Abbreviates(l.text, l.value) /\ Len(l.value) = h[i].width
IsCommand(o) ==
    /\ o.default_active_state \in ALLOWED_STATES
    /\ IsSequence(o.weights) /\ \A k \in DOMAIN o.weights : o.weights[k].factor \in Nat
IsSimulation(s) ==
    /\ IsSequence(s.header) /\ IsSequence(s.script) /\ IsCommand(s.options)
    /\ \A i \in DOMAIN s.header :
           s.header[i].token = "unclosed" => i = Len(s.header)
    /\ \A i \in DeclarationsOf(s.header) : IsDeclaration(s.header, i)
    /\ \A i \in DOMAIN s.header :
           s.header[i].token = "timescale" => IsTimescale(s.header[i].scale)
    /\ \A n \in DOMAIN s.script : \A l \in s.script[n] : IsLine(l, s.header)
AreSimulations ==
    /\ IsFiniteSet(Times) /\ Times \subseteq Nat /\ 0 \in Times
    /\ IsSequence(PathOrder)
    /\ \A i, j \in DOMAIN PathOrder : PathOrder[i] = PathOrder[j] => i = j
    /\ \A s \in Simulations : IsSimulation(s)
-----------------------------------------------------------------------------
(* The waveform the dump describes, read without the tool's data: nets are *)
(* identifiers, a net keeps its value until it changes, and a time at      *)
(* which the clock becomes 1 ends a cycle.                                 *)
Declarations == DeclarationsOf(sim.header)
DeclaredPath(i) == PathOf(sim.header, i)
NetOf(i) == sim.header[i].ident
WidthOf(net) == sim.header[CHOOSE i \in Declarations : NetOf(i) = net].width
Names(spec) ==                          \* a full path goes before a name
    LET exact == {NetOf(i) : i \in {j \in Declarations : DeclaredPath(j) = spec}}
    IN  IF exact # {} THEN exact
        ELSE {NetOf(i) : i \in {j \in Declarations : <<sim.header[j].name>> = spec}}
NetNamed(spec) == CHOOSE net \in Names(spec) : TRUE

Changes(net, before) == {t \in Times : t < before /\ net \in DOMAIN wave[t]}
ValueAt(net, before) ==                 \* the value just before a time
    IF Changes(net, before) = {} THEN Xs(WidthOf(net))
    ELSE wave[Max(Changes(net, before))][net]
Edges ==
    {t \in Times : /\ ValueAt(NetNamed(opt["clock"]), t + 1) = <<"1">>
                   /\ ValueAt(NetNamed(opt["clock"]), t) # <<"1">>}

(* What may be counted: a net of the selection, once, or each of its       *)
(* declarations when that is asked for; as often as its weight says.       *)
Counted ==
    {i \in Declarations :
        /\ opt.scopes = {} \/ \E s \in opt.scopes : IsPrefix(s, DeclaredPath(i))
        /\ NetOf(i) # NetNamed(opt["clock"])
        /\ DeclaredPath(i) \notin opt.excludes
        /\ sim.header[i].type \notin NON_TOGGLING_VAR_TYPES}
UnitOf(i) ==
    IF opt.count_aliases THEN {i} ELSE {j \in Counted : NetOf(j) = NetOf(i)}
Units == {UnitOf(i) : i \in Counted}
FirstPath(unit) ==
    PathOrder[Min({Rank(DeclaredPath(i)) : i \in unit})]
Switches(unit, from, to) ==             \* the positions of its net that differ
    LET net == NetOf(CHOOSE i \in unit : TRUE)
    IN  {b \in 1 .. WidthOf(net) : ValueAt(net, from)[b] # ValueAt(net, to)[b]}
Switched(from, to) ==                   \* each as often as its net's weight says
    Cardinality(UNION {{unit} \X Switches(unit, from, to)
                              \X (1 .. Weight(FirstPath(unit))) : unit \in Units})

CycleStart(edges, k) == IF k = 1 THEN edges[1] ELSE edges[k - 1] + 1
Recount ==                              \* the activity of each cycle
    LET edges == Ascending(Edges)
    IN  [k \in DOMAIN edges |-> Switched(CycleStart(edges, k), edges[k] + 1)]

StateBefore(edge) ==                    \* what the control nets held
    LET Holds(signal, symbol) ==
            opt[signal] # NotGiven /\ ValueAt(NetNamed(opt[signal]), edge) = <<symbol>>
        Selects(m) ==
            /\ opt["modulus"] # NotGiven
            /\ LET bits == ValueAt(NetNamed(opt["modulus"]), edge)
               IN  ToSet(bits) \subseteq {"0", "1"} /\ Number(bits) = m
    IN  IF Holds("reset", IF opt.reset_active_high THEN "1" ELSE "0") THEN "zeroize"
        ELSE IF Holds("fault", "1") THEN "fault"
        ELSE IF ~Holds("busy", "1") THEN "idle"
        ELSE IF Selects(opt.kem_modulus) THEN "kem"
        ELSE IF Selects(opt.dsa_modulus) THEN "dsa"
        ELSE opt.default_active_state

(* A header is well formed when it ends and every declaration of it is     *)
(* whole; it is cut when it ends within its last declaration.              *)
WellFormed ==
    /\ sim.ending = "closed"
    /\ \A i \in DOMAIN sim.header :
           sim.header[i].token \notin {"malformed", "unclosed"}
HeaderCut ==
    /\ sim.ending = "closed"
    /\ \E i \in DOMAIN sim.header : sim.header[i].token = "unclosed"
    /\ \A i \in DOMAIN sim.header : sim.header[i].token # "malformed"

(* A trace is written for a dump of a well-formed header, without stray    *)
(* records or a step back in time, with a known timescale, whose signals   *)
(* are found and unique, with two cycles or more that end on whole         *)
(* nanoseconds, under two seconds apart: a slower clock rounds to 0 Hz.    *)
Scale == LET k == {i \in DOMAIN sim.header : sim.header[i].token = "timescale"}
         IN  IF k = {} THEN Missing ELSE sim.header[Max(k)].scale
Found(signal) == Cardinality(Names(opt[signal])) = 1
Usable ==
    /\ WellFormed /\ ~dumped.stray /\ Scale.parts > 0
    /\ Found("clock") /\ \A s \in Controls : opt[s] = NotGiven \/ Found(s)
    /\ Counted # {} /\ Cardinality(Edges) >= 2
    /\ \A e \in Edges : (e * Scale.ns) % Scale.parts = 0
Slow ==                                 \* the mean cycle rounds to two seconds
    LET cycles == Cardinality(Edges) - 1
        span   == ((Max(Edges) - Min(Edges)) * Scale.ns) \div Scale.parts
    IN  (span + cycles \div 2) \div cycles >= 2 * nanoseconds
Named == opt.hardware_id # None /\ opt.operation # None

(* power_trace_from_vcd.py is given a dump it can read, with any header    *)
(* and body, and any command line it accepts.  It writes a trace only of a *)
(* dump it can convert and reports an error only for one it cannot.  It    *)
(* ends in a traceback only for a header cut within its last declaration   *)
(* and, of the dumps it could convert, for a clock too slow to have a rate *)
(* in Hz and for an empty --hardware-id or --operation.                    *)
OutcomeFollowsDump ==
    /\ stage = "written"  => Usable /\ ~Slow /\ Named
    /\ stage = "error"    => ~Usable /\ ~HeaderCut
    /\ stage = "uncaught" => HeaderCut \/ (Usable /\ (Slow \/ ~Named))

(* A written trace has one sample for each rising edge of the clock, at    *)
(* its time, which counts every selected net once (an alias is the same    *)
(* net) for each of its bits that differs from the previous edge, and has  *)
(* the state the control nets held just before the edge, whatever          *)
(* abbreviations, comments, aliases and scopes the dump uses; its interval *)
(* and rate are the nearest whole numbers to those of the edges.  A busy   *)
(* cycle of neither modulus has the --default-active-state, as the code    *)
(* and its help say; docs/LEAKAGE_METHODOLOGY.md:77-83 calls it idle.      *)
TraceIsWaveform ==
    stage = "written" =>
        LET edges == Ascending(Edges)
            n     == Len(edges)
            Near(x, y, unit) == 2 * (x - y) \in -unit .. unit
        IN  /\ DOMAIN trace.samples = 1 .. n
            /\ trace.per_cycle = Recount
            /\ \A k \in 1 .. n :
                    /\ trace.samples[k].state = StateBefore(edges[k])
                    /\ trace.samples[k].timestamp_ns * Scale.parts
                           = edges[k] * Scale.ns
            /\ Near((n - 1) * trace.sample_interval_ns * Scale.parts,
                    (edges[n] - edges[1]) * Scale.ns, (n - 1) * Scale.parts)
            /\ Near(trace.clock_hz * trace.sample_interval_ns, nanoseconds,
                    trace.sample_interval_ns)
=============================================================================
