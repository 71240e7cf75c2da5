------------------------ MODULE FabricationContract ------------------------
(***************************************************************************)
(* tools/validate_fabrication.py and tools/gen_fabrication_artifacts.py:   *)
(* the semantic gate over the two Rev-A manifests, and the CSV files       *)
(* derived from the package manifest.                                      *)
(*                                                                         *)
(* A manifest is a record of the fields the gate relates to each other.    *)
(* The fields it only compares with a literal (about forty of them) are    *)
(* represented by "drifted", the set of those that hold another value.     *)
(*                                                                         *)
(*   release   drifted, shell_commit, schedule (sequence of dates, BadDate *)
(*             for one that does not parse), contract_status,              *)
(*             rtl_disposition (sequence of [path, disposition, netlist]), *)
(*             baseline_macro, experiment_macro, numbers (name |-> the     *)
(*             sequence of CSR addresses, commands and error codes),       *)
(*             gates (sequence of [id, status])                            *)
(*   package   drifted, shell_commit, package_status, freeze_blockers,     *)
(*             qfn_pinout (sequence of [pin, name, notes]), logical_io     *)
(*             (sequence of [gpio, qfn_pin, signal, direction, pad]),      *)
(*             ate_tests (sequence of names)                               *)
(*                                                                         *)
(* A pin is a number or EP, the exposed paddle; a pad name is [kind, n],   *)
(* "gpio" with its index or another kind with n = 0.                       *)
(***************************************************************************)
EXTENDS Integers, Sequences, FiniteSets, Ordering

CONSTANTS
    PINS,         \* package pins besides the paddle (64)
    GPIOS,        \* user GPIOs (44)
    RESET_PIN,    \* the pin that must be resetb (21)
    VSS_PIN,      \* the pin that must be vssa1 (38)
    GPIO0_PIN,    \* the pin that must be gpio[0] (31)
    CLOCK_GPIO,   \* the GPIO of host_clk (38)
    SIGNALS,      \* the LCA-LINK-16 signal names
    ATE_REQUIRED, \* the tests the ATE plan must hold
    GATES,        \* number of release gates (8)
    MIN_BLOCKERS  \* freeze blockers that must be recorded (8)

EP == 0
BadDate == 0
Gpio(n) == [kind |-> "gpio", n |-> n]

Values(s) == {s[i] : i \in DOMAIN s}
_duplicate_values(s) == {s[i] : i \in {j \in DOMAIN s : \E k \in DOMAIN s : k < j /\ s[k] = s[j]}}
Column(rows, field(_)) == [i \in DOMAIN rows |-> field(rows[i])]

discover_rtl(tree) == tree.rtl

(* <<dm, oeb, inp_dis>> of each direction; a bidirectional pad takes its   *)
(* enable from a named signal.                                             *)
SafePad ==
    [input |-> <<"001", "1", 0>>, output |-> <<"110", "0", 1>>,
     bidirectional |-> <<"110", "signal", 0>>, disabled |-> <<"000", "1", 1>>]

(* Dictionaries built from the pinout keep the last of equal keys.         *)
physical_pin_by_gpio(pinout, gpio) ==
    LET places == {i \in DOMAIN pinout : pinout[i].name = Gpio(gpio)}
    IN pinout[CHOOSE i \in places : \A j \in places : j <= i].pin

GpioNames(pinout) == {p.name.n : p \in {q \in Values(pinout) : q.name.kind = "gpio"}}

Ordered(dates) == \A i, j \in DOMAIN dates : i <= j => dates[i] <= dates[j]

(***************************************************************************)
(* validate_contract: what each group of _expect calls requires, by name.  *)
(* rtl is the set of RTL files, or Skipped under --skip-tree-check.        *)
(***************************************************************************)
Skipped == {"--skip-tree-check"}

ReleaseExpectations(release, package) ==
    LET paths == Column(release.rtl_disposition, LAMBDA e : e.path)
        gate_ids == Column(release.gates, LAMBDA g : g.id)
    IN [literals |-> release.drifted = {} /\ package.drifted = {},
        same_shell |-> release.shell_commit = package.shell_commit,
        schedule |-> /\ BadDate \notin Values(release.schedule)
                     /\ Ordered(release.schedule),
        contract_status |-> release.contract_status = "not_executed",
        disposition |-> /\ _duplicate_values(paths) = {}
                        /\ \A e \in Values(release.rtl_disposition) :
                             /\ e.disposition \in {"retain", "modify", "replace", "remove"}
                             /\ e.disposition \in {"replace", "remove"} => ~e.netlist,
        macro |-> release.baseline_macro = release.experiment_macro,
        numbers |-> \A name \in DOMAIN release.numbers :
                      _duplicate_values(release.numbers[name]) = {},
        gates |-> /\ gate_ids = [i \in 1..GATES |-> i - 1]
                  /\ release.gates[1].status = "ready_for_independent_review"
                  /\ release.gates[Len(release.gates)].status = "blocked"]

PackageExpectations(release, package) ==
    LET pinout == package.qfn_pinout
        logical == package.logical_io
        pins == Column(pinout, LAMBDA p : p.pin)
        gpios == Column(logical, LAMBDA e : e.gpio)
        signals == Column(logical, LAMBDA e : e.signal)
        named(pin, name) == \E p \in Values(pinout) : p.pin = pin /\ p.name = name
    IN [pins |-> Values(pins) = 1..PINS \cup {EP} /\ _duplicate_values(pins) = {},
        gpio_names |-> GpioNames(pinout) = 0..(GPIOS - 1),
        fixed_pins |-> /\ named(RESET_PIN, [kind |-> "resetb", n |-> 0])
                       /\ named(VSS_PIN, [kind |-> "vssa1", n |-> 0])
                       /\ named(GPIO0_PIN, Gpio(0)),
        gpios |-> Values(gpios) = 0..(GPIOS - 1) /\ _duplicate_values(gpios) = {},
        signals |-> Values(signals) = SIGNALS /\ _duplicate_values(signals) = {},
        physical |-> \A e \in Values(logical) :
                       /\ e.gpio \in GpioNames(pinout)
                       /\ e.qfn_pin = physical_pin_by_gpio(pinout, e.gpio),
        pads |-> \A e \in Values(logical) :
                   e.direction \in DOMAIN SafePad /\ e.pad = SafePad[e.direction],
        clock |-> \E e \in Values(logical) : e.signal = "host_clk" /\ e.gpio = CLOCK_GPIO,
        ate |-> /\ _duplicate_values(package.ate_tests) = {}
                /\ ATE_REQUIRED \subseteq Values(package.ate_tests),
        blockers |-> package.freeze_blockers >= MIN_BLOCKERS,
        frozen |-> package.package_status = "frozen" =>
                     /\ package.freeze_blockers = 0
                     /\ release.contract_status = "executed"]

Holds(expectations) == \A name \in DOMAIN expectations : expectations[name]

(* gates[0] of an empty list, and the number of the paddle when a pad of   *)
(* it carries a GPIO name, end the run with an exception main() does not   *)
(* catch; the exit status is the 1 of a rejected contract.                 *)
Crashes(release, package) ==
    \/ release.gates = <<>>
    \/ \E p \in Values(package.qfn_pinout) : p.pin = EP /\ p.name.kind = "gpio"

(* A slip: the package manifest is only compared by its literals.          *)
validate_contract_release(release, package, rtl) ==
    /\ ~Crashes(release, package)
    /\ Holds(ReleaseExpectations(release, package))
    /\ rtl = Skipped \/ {e.path : e \in Values(release.rtl_disposition)} = rtl

validate_contract(release, package, rtl) ==
    /\ ~Crashes(release, package)
    /\ Holds(ReleaseExpectations(release, package))
    /\ Holds(PackageExpectations(release, package))
    /\ rtl = Skipped \/ {e.path : e \in Values(release.rtl_disposition)} = rtl

validate_main(tree, skip_tree_check) ==
    IF validate_contract(tree.release, tree.package,
                         IF skip_tree_check THEN Skipped ELSE discover_rtl(tree))
    THEN 0 ELSE 1

(***************************************************************************)
(* The generated CSV files, in the order generate() returns them.          *)
(***************************************************************************)
Files == <<"rev_a_qfn_pinout.csv", "rev_a_gpio_map.csv", "rev_a_ate_plan.csv">>

(* The rows in the order of their keys, equal keys as in the manifest.     *)
SortRows(rows, key) ==
    InOrder(rows, [i \in DOMAIN rows |->
        {j \in DOMAIN rows : key[j] < key[i] \/ (key[j] = key[i] /\ j < i)}])

pin_key(pin) == IF pin.pin = EP THEN PINS + 1 ELSE pin.pin

generate(package) ==
    <<SortRows(package.qfn_pinout, Column(package.qfn_pinout, pin_key)),
      SortRows(package.logical_io, Column(package.logical_io, LAMBDA row : row.gpio)),
      package.ate_tests>>

(* main --check, on the three files found on disk.                         *)
fabrication_check(package, disk) ==
    IF \A f \in DOMAIN Files : disk[f] = generate(package)[f] THEN 0 ELSE 1

(* main: the files are written one after the other; a run that stops after *)
(* "written" of them leaves the others as they were.                       *)
fabrication_write(package, disk, written) ==
    [f \in DOMAIN Files |-> IF f <= written THEN generate(package)[f] ELSE disk[f]]
=============================================================================
