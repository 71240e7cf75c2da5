------------------------------ MODULE Leakage -------------------------------
(***************************************************************************)
(* The flow of docs/LEAKAGE_METHODOLOGY.md: a dump is converted and its    *)
(* trace written among those of earlier simulations, then the two sets are *)
(* assessed.  A conversion that fails writes nothing: what was at that     *)
(* path before stays there.                                                *)
(***************************************************************************)
EXTENDS Integers, Sequences, FiniteSets

CONSTANTS
    Simulations, PathOrder, Times,      \* of ActivityTrace
    MaxTraces, Unit,                    \* of Tvla
    Disks, Commands,    \* the files of earlier simulations; the assessments
    Out                                 \* the --out of the conversion

(* The unit of the means: whole parts for any number of traces of a set.   *)
UnitDivides ==
    /\ MaxTraces \in Nat /\ Unit \in Nat \ {0}
    /\ \A n \in 1 .. MaxTraces : Unit % n = 0
ASSUME UnitAssumption == UnitDivides

(* Files are numbers; no disk and no command line names infinitely many.   *)
FilesAreNumbered ==
    /\ Out \in Nat
    /\ \A d \in Disks : DOMAIN d \subseteq Nat /\ IsFiniteSet(DOMAIN d)
    /\ \A c \in Commands : \A entries \in {c.fixed, c.random} :
           DOMAIN entries \subseteq Nat /\ IsFiniteSet(DOMAIN entries)
ASSUME FilesAssumption == FilesAreNumbered

VARIABLES
    sim, header, scope, variables, timescale, blocks, in_comment, values,
    previous_clock, previous_snapshot, next_block, samples, stage, trace,
    dumped, wave,
    disk, args, fixed_paths, random_paths, series, fixed_stats, random_stats,
    taken, points, phase, code,
    counted     \* history: the activity, recounted from the dump of each path

A == INSTANCE ActivityTrace
T == INSTANCE Tvla
(* The simulations are what simulators write and command lines say.        *)
ASSUME SimulationsAssumption == A!AreSimulations

traceVars == <<sim, header, scope, variables, timescale, blocks, in_comment,
               values, previous_clock, previous_snapshot, next_block, samples,
               stage, trace, dumped, wave>>
assessVars == <<fixed_paths, random_paths, series, fixed_stats, random_stats,
                taken, points, phase, code>>
vars == <<traceVars, disk, args, assessVars, counted>>

Series(content) ==
    [p \in {q \in DOMAIN content : content[q].kind = "trace"} |-> content[p].series]
Init ==
    /\ A!Init /\ T!Idle
    /\ disk = << >> /\ args = << >> /\ counted = << >>

Convert == A!Next /\ UNCHANGED <<disk, args, assessVars, counted>>

(* The process of the conversion ends, and leaves nothing but the file,    *)
(* which replaces what was at its path (to_json).  Nothing reads the other *)
(* files before, so they and the command are any from here on.             *)
End ==
    /\ args' \in Commands
    /\ UNCHANGED assessVars
    /\ sim' = [header |-> << >>, ending |-> << >>, options |-> << >>, script |-> << >>]
    /\ header' = << >> /\ scope' = << >> /\ variables' = << >>
    /\ timescale' = A!Missing /\ blocks' = << >> /\ in_comment' = FALSE
    /\ values' = << >> /\ previous_clock' = << >> /\ previous_snapshot' = << >>
    /\ next_block' = 1 /\ samples' = << >> /\ trace' = A!NoTrace
    /\ stage' = "ended" /\ dumped' = << >> /\ wave' = << >>
Publish ==
    /\ stage = "written"
    /\ \E earlier \in Disks :
           /\ disk' = A!Put(earlier, Out,
                            [kind |-> "trace", series |-> trace.per_cycle])
           /\ counted' = A!Put(Series(earlier), Out, A!Recount)
    /\ End
Fail ==
    /\ stage \in {"error", "uncaught"}
    /\ disk' \in Disks /\ counted' = Series(disk')
    /\ End

Assess == stage = "ended" /\ T!Next /\ UNCHANGED <<traceVars, counted>>

Next == Convert \/ Publish \/ Fail \/ Assess
Spec == Init /\ [][Next]_vars
-----------------------------------------------------------------------------
(* The properties of the two tools.                                        *)
OutcomeFollowsDump == A!OutcomeFollowsDump
TraceIsWaveform == A!TraceIsWaveform
StatisticsAreBatch == T!StatisticsAreBatch

(* A report is about the dumps: the samples it marks as exceeding the      *)
(* threshold are those, up to the end of the shortest trace, at which the  *)
(* activity recounted from the dumps of the two sets differs by the        *)
(* two-pass definition of Welch's t, and the process fails exactly when    *)
(* that was asked for and there is one.  An assessment gives up only on    *)
(* sets of fewer than two files, files without a trace, or lengths that    *)
(* differ.                                                                 *)
VerdictOnDumps ==
    LET Recounted == [k \in DOMAIN T!paths |-> counted[T!paths[k]]]
        Lengths   == {Len(Recounted[k]) : k \in DOMAIN Recounted}
        Shortest  == CHOOSE n \in Lengths : \A m \in Lengths : n <= m
        Exceeding == {i \in 1 .. Shortest : T!Differs(Recounted, i)}
    IN  /\ phase = "reported" =>
               /\ DOMAIN points = 1 .. Shortest
               /\ {i \in DOMAIN points : points[i].exceeds} = Exceeding
               /\ code = IF Exceeding # {} /\ args.fail_on_leakage THEN 1 ELSE 0
        /\ phase = "exited" =>
               \/ T!Lacks(args.fixed) \/ T!Lacks(args.random)
               \/ \E k \in DOMAIN T!paths : T!paths[k] \notin DOMAIN counted
               \/ /\ ~args.truncate
                  /\ \E k \in DOMAIN T!paths : Len(Recounted[k]) # Shortest
=============================================================================
