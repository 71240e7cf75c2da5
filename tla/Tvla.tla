-------------------------------- MODULE Tvla --------------------------------
(***************************************************************************)
(* tools/tvla.py: the fixed-versus-random assessment of two sets of traces.*)
(* A path is a number, in the order of sorted paths; a file is what a load *)
(* finds in it; a step expands the arguments, loads a file, takes a series *)
(* into the running statistics, or reports.  Statistics are exact: a mean  *)
(* is kept in parts of Unit and a sum of squares in parts of Unit^2, which *)
(* are whole for up to MaxTraces traces.  A value is an integer; any other *)
(* stands for the JSON literal NaN.  The layout of the report and the      *)
(* wording of its verdict are left out.                                    *)
(***************************************************************************)
EXTENDS Integers, Sequences, FiniteSets, Sums

CONSTANTS
    MaxTraces,      \* the traces of a set
    Unit            \* a multiple of 1, ..., MaxTraces

VARIABLES
    disk,                               \* path -> content of the file
    args,                               \* [fixed, random: entries, truncate,
                                        \*  fail_on_leakage]
    fixed_paths, random_paths,          \* expand_inputs
    series,                             \* load_series, the fixed set first
    fixed_stats, random_stats,          \* assess: a Welford for each sample
    taken,                              \* the series the statistics hold
    points, phase, code                 \* the report; the process

vars == <<disk, args, fixed_paths, random_paths, series, fixed_stats,
          random_stats, taken, points, phase, code>>

pathVars == <<fixed_paths, random_paths>>
statVars == <<fixed_stats, random_stats, taken>>

exit(status) == phase' = "exited" /\ code' = status
TvlaError == exit(2)
Traceback == exit(1)                        \* an exception main does not catch
-----------------------------------------------------------------------------
(* Welford.                                                                *)
Welford == [count |-> 0, mean |-> 0, m2 |-> 0, nan |-> FALSE]

updateTwice(w, value) ==                    \* slip: delta is squared
    LET delta == Unit * value - w.mean
        mean  == w.mean + delta \div (w.count + 1)
    IN  [w EXCEPT !.count = @ + 1, !.mean = mean, !.m2 = @ + delta * delta]
update(w, value) ==
    LET delta == Unit * value - w.mean
        mean  == w.mean + delta \div (w.count + 1)
    IN  IF w.nan \/ value \notin Int
        THEN [w EXCEPT !.count = @ + 1, !.nan = TRUE]
        ELSE [w EXCEPT !.count = @ + 1, !.mean = mean,
                       !.m2 = @ + delta * (Unit * value - mean)]

(* welch_t, as what the report needs of it.  variance / count is           *)
(* m2 / (count (count - 1)), so both sides are multiplied by the product   *)
(* of the two; 4.5 squared is 81 / 4.  A NaN makes t NaN, and no           *)
(* comparison with it holds.                                               *)
welch_tLaundered(a, b) ==                   \* slip: no variance, no difference
    LET na == a.count * (a.count - 1)
        nb == b.count * (b.count - 1)
        denominator == a.m2 * nb + b.m2 * na
        difference  == a.mean - b.mean
    IN  [degenerate |-> FALSE,
         exceeds |-> /\ ~a.nan /\ ~b.nan /\ denominator # 0
                     /\ 4 * difference * difference * na * nb > 81 * denominator]
welch_t(a, b) ==
    LET na == a.count * (a.count - 1)
        nb == b.count * (b.count - 1)
        denominator == a.m2 * nb + b.m2 * na
        difference  == a.mean - b.mean
        nan         == a.nan \/ b.nan
        degenerate  == ~nan /\ denominator = 0 /\ difference # 0
    IN  [degenerate |-> degenerate,
         exceeds |-> \/ degenerate
                     \/ ~nan /\ 4 * difference * difference * na * nb
                                    > 81 * denominator]
-----------------------------------------------------------------------------
(* Expansion.  An entry names the paths it would match; a directory may    *)
(* match none, a file or a glob may not.                                   *)
Matches(entry) == entry.paths \cap DOMAIN disk
NotMatched(entry) == entry.kind # "directory" /\ Matches(entry) = {}
Found(entries) ==
    {f \in (DOMAIN entries) \X (DOMAIN disk) : f[2] \in Matches(entries[f[1]])}
Earlier(f, g) == f[1] < g[1] \/ (f[1] = g[1] /\ f[2] < g[2])
expand_inputs(entries) ==
    LET found == Found(entries)
        place(f) == Cardinality({g \in found : Earlier(g, f)})
    IN  [k \in 1 .. Cardinality(found) |->
            (CHOOSE f \in found : place(f) = k - 1)[2]]

Lacks(entries) ==                       \* an error: two traces are needed
    \/ \E i \in DOMAIN entries : NotMatched(entries[i])
    \/ Cardinality(Found(entries)) < 2
Bounded(entries) == Cardinality(Found(entries)) \in 0 .. MaxTraces

Expand ==
    /\ phase = "start"
    /\ Bounded(args.fixed) /\ Bounded(args.random)
    /\ IF Lacks(args.fixed) \/ Lacks(args.random)
       THEN TvlaError /\ UNCHANGED pathVars
       ELSE /\ fixed_paths' = expand_inputs(args.fixed)
            /\ random_paths' = expand_inputs(args.random)
            /\ phase' = "load" /\ UNCHANGED code
    /\ UNCHANGED <<disk, args, series, statVars, points>>

(* load_series: a file that is not JSON raises an error of json's, one     *)
(* without an array of numbers a TvlaError.                                *)
paths == fixed_paths \o random_paths
Load ==
    /\ phase = "load"
    /\ Len(series) < Len(paths)
    /\ LET file == disk[paths[Len(series) + 1]] IN
       \/ file.kind = "not_json" /\ Traceback /\ UNCHANGED series
       \/ file.kind = "no_series" /\ TvlaError /\ UNCHANGED series
       \/ /\ file.kind = "trace"
          /\ series' = Append(series, file.series)
          /\ UNCHANGED <<phase, code>>
    /\ UNCHANGED <<disk, args, pathVars, statVars, points>>

(* All series have one length, or the common prefix is compared.           *)
lengths == {Len(series[k]) : k \in DOMAIN series}
prefix == CHOOSE n \in lengths : \A m \in lengths : n <= m
Align ==
    /\ phase = "load"
    /\ Len(series) = Len(paths)
    /\ IF ~args.truncate /\ Cardinality(lengths) # 1
       THEN TvlaError /\ UNCHANGED statVars
       ELSE /\ fixed_stats' = [i \in 1 .. prefix |-> Welford]
            /\ random_stats' = [i \in 1 .. prefix |-> Welford]
            /\ phase' = "take" /\ UNCHANGED <<taken, code>>
    /\ UNCHANGED <<disk, args, pathVars, series, points>>

(* The next series updates the statistics of its set, sample by sample.    *)
Updated(stats, values) == [i \in DOMAIN stats |-> update(stats[i], values[i])]
Take ==
    /\ phase = "take"
    /\ taken < Len(series)
    /\ taken' = taken + 1
    /\ IF taken < Len(fixed_paths)
       THEN /\ fixed_stats' = Updated(fixed_stats, series[taken + 1])
            /\ UNCHANGED random_stats
       ELSE /\ random_stats' = Updated(random_stats, series[taken + 1])
            /\ UNCHANGED fixed_stats
    /\ UNCHANGED <<disk, args, pathVars, series, points, phase, code>>

(* The report, and the exit status.                                        *)
leaking(results) == \E i \in DOMAIN results : results[i].exceeds
status(results) == IF args.fail_on_leakage /\ leaking(results) THEN 1 ELSE 0
Report ==
    /\ phase = "take"
    /\ taken = Len(series)
    /\ points' = [i \in DOMAIN fixed_stats |-> welch_t(fixed_stats[i], random_stats[i])]
    /\ phase' = "reported"
    /\ code' = status(points')
    /\ UNCHANGED <<disk, args, pathVars, series, statVars>>
-----------------------------------------------------------------------------
Idle ==                                  \* the process starts
    /\ fixed_paths = << >> /\ random_paths = << >> /\ series = << >>
    /\ fixed_stats = << >> /\ random_stats = << >> /\ taken = 0
    /\ points = << >> /\ phase = "start" /\ code = 0
Next == Expand \/ Load \/ Align \/ Take \/ Report
-----------------------------------------------------------------------------
(* Batch definitions, over the values of some traces at one sample.        *)
Total(of, set, i) ==
    SumTo([k \in DOMAIN of |-> IF k \in set THEN of[k][i] ELSE 0], Len(of))
Squares(of, set, i) ==
    SumTo([k \in DOMAIN of |-> IF k \in set THEN of[k][i] * of[k][i] ELSE 0],
          Len(of))
Spread(of, set, i) ==                   \* count times the sum of squares of
    Cardinality(set) * Squares(of, set, i)              \* the differences
        - Total(of, set, i) * Total(of, set, i)         \* to the mean
Numbers(of, set, i) == \A k \in set : of[k][i] \in Int

FixedSet == DOMAIN fixed_paths
RandomSet == DOMAIN paths \ FixedSet

(* Whatever the order of the traces, the running statistics of a sample    *)
(* are those of the traces taken: count, mean, and sum of squared          *)
(* differences to the mean, exactly, unless one of the values is NaN.      *)
HoldsBatch(w, set, i) ==
    /\ w.count = Cardinality(set)
    /\ w.nan = ~Numbers(series, set, i)
    /\ Numbers(series, set, i) =>
           /\ w.count * w.mean = Unit * Total(series, set, i)
           /\ w.count * w.m2 = Unit * Unit * Spread(series, set, i)
StatisticsAreBatch ==
    phase \in {"take", "reported"} =>
        \A i \in DOMAIN fixed_stats :
            /\ HoldsBatch(fixed_stats[i], FixedSet \cap (1 .. taken), i)
            /\ HoldsBatch(random_stats[i], RandomSet \cap (1 .. taken), i)

(* The two-pass definition of |t| > 4.5 at a sample: the squared           *)
(* difference of the means against 81/4 of the sum of variance / count,    *)
(* times the squares of both counts.  Without any variance every           *)
(* difference of the means exceeds.  A sample with a NaN never does.       *)
Differs(of, i) ==
    LET n == Cardinality(FixedSet)
        k == Cardinality(RandomSet)
        d == Total(of, FixedSet, i) * k - Total(of, RandomSet, i) * n
    IN  /\ Numbers(of, DOMAIN of, i)
        /\ 4 * d * d * (n - 1) * (k - 1)
               > 81 * (Spread(of, FixedSet, i) * k * k * (k - 1)
                         + Spread(of, RandomSet, i) * n * n * (n - 1))
=============================================================================
