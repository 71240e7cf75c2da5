# LCA-1: a TLA+ verification project

LCA-1 is an accelerator for lattice cryptography (ML-KEM, ML-DSA) written in
SystemVerilog, with management firmware in C, reference models in Python, and Python tools
that produce the evidence a release rests on: side-channel assessments, bills of material,
fabrication contracts, memory plans. This directory holds TLA+ models of the hardware's control
and arithmetic, of the reference models and of those tools, TLC configurations that check them on
small instances, and TLAPS proofs of what holds for every value of the parameters. All paths below
are relative to the repository's root; `PROJECT.json` gives the source lines of every
definition, the runs, the hazards and the theorems in a form for tools.

1. The system and its components
2. Modules, and how they correspond to the code
3. Runs, bounds and what they show
4. Fairness
5. Proofs
6. Where the code and its documents disagree
7. What is not modelled
8. The plan: order, and what is left


## 1. The system and its components

There are three devices built from common parts, and a tool chain beside them.

    Rev-A core (OpenFrame)                Legacy chip top
    ------------------------              -----------------------------------------
    host pads                             APB, input stream, output stream, tamper
       | LCA-LINK beats                        |
    lca_reva_core                         lca_host_frontend    lca_chip_top
       |  CSRs, cursors, zeroize,              |  objects, commands, results
       |  self-test, completion                |   SRAM port / fw_* mailbox
       |                                       |        |
    lca_secure_sram  lca_ntt_accel  lca_keccak_f1600   PicoRV32 + firmware (MMIO)

    Tiny Tapeout: tt_um_suwappu_lattice_accel -> lca_core -> lca_modmul
    Stand-alone arithmetic: lca_modmul, lca_butterfly, lca_modmul_fast
    Reference models: model/modarith.py, model/fastmod.py, model/reference.py

    simulator dump (VCD) -> power_trace_from_vcd -> trace files -> tvla -> verdict
    inputs, git -> gen_sbom -----------------> SBOM --check--.
    manifests  -> gen_fabrication_artifacts -> CSV  --check--+-> gates of a commit
    manifests, RTL list -> validate_fabrication -------------+
    macro inventory -> sram_area (plans, self-check) --------'

Everything in hardware is one clock domain: on an edge every register takes a value
computed from the registers before the edge, and an asynchronous reset may come at any
time. Concurrency here is therefore not the interleaving of threads. It is several
state machines that step on the *same* edge and read each other's values of *before*
it, together with pins (tamper, zeroize, back-pressure, beats) that change at any edge.
The firmware is a sequential program that is interleaved with all of that through
memory-mapped registers, each access arriving one edge after it was issued.

The tools are sequential programs. What is hard about them is the order in which people and CI
run them over files that change underneath, and what one step leaves for the next: a dump is
any stream of records a simulator may write, a failed conversion leaves the trace of an earlier
one, a document is generated in one state of the working tree and compared in another.

| Component (source) | State | Operations | What is hard | What makes it correct |
|---|---|---|---|---|
| Serial multiplier `rtl/lca_modmul.sv` | multiplicand, multiplier, accumulator, counter, busy, response | accept, iterate, respond, consume, reset | widths at the reduction boundary; a request at the edge of a consume | the response is a*b mod q, after exactly WORD_BITS edges, held until taken |
| Butterfly `rtl/lca_butterfly.sv` | saved operands, fault flag, a multiplier | accept or refuse, answer | a refusal and a product share one port; answers are recomputed each cycle | each answer is the outstanding request's; refusals and products never mix |
| Pipelined multiplier `rtl/lca_modmul_fast.sv` | three stages of registers | advance, stall, reset | two exact reduction ranges; back-pressure with three requests in flight | exact residues, in order, none lost |
| NTT engine `rtl/lca_ntt_accel.sv` | two banks of 128 coefficients, loop counters, state | host read/write, start (4 commands), butterfly, scale, zeroize, reset | loop bounds; two write ports; zeroize in mid-transform | computes the transform; conflict-free; fixed time; zeroize leaves nothing |
| Keccak engine `rtl/lca_keccak_f1600.sv` | 25 lanes, round | host read/write, start, round, zeroize, reset | the same start/done/zeroize protocol | 24 rounds; zeroize leaves nothing |
| SRAM `rtl/lca_secure_sram.sv` | words | one read or write per edge | not cleared by reset | only its owner writes |
| Rev-A core `integration/openframe/lca_reva_core.sv` | link response, CSRs, cursors, staged lengths, zeroize controller, self-test sequencer, launch flags | CSR and channel beats, commands, START, ABORT, wipe, self-test, tamper, reset | three scrubs side by side; self-test against host and pins; completion by a sticky flag | nothing of before a wipe is shown after it; starts are not lost; self-test is sound; everything ends |
| OpenFrame wrapper `integration/openframe/openframe_project_wrapper.v` | two reset flops | pad wiring | reset synchronisation | — |
| Host frontend `rtl/lca_host_frontend.sv` | objects loaded, command, pending/busy, result words, output stream | beats, COMMAND, START, ACK, CLEAR, ZEROIZE, completion, output | START, ACK, completion and beats on one edge | loaded means complete in memory; a result is that of its command; one command at a time |
| Chip top `rtl/lca_chip_top.sv` | zeroize controller, mailbox registers, entropy word, SRAM arbitration, peripheral ports | firmware MMIO, zeroize, entropy | registered mailbox writes an edge late; two engine scrubs and the SRAM's | a scrub leaves nothing, one service per command |
| Firmware `firmware/main.c`, `runtime.c`, `ntt_mmio.c` | program position, copied data | poll, claim, serve, drive the engines, complete | polls a flag an edge after a pulse; wiped at any point | each command served once, with results of finished runs |
| Sponge `firmware/fips202_lca.c` | 25 lanes and an absorb/squeeze position | absorb, finalize, squeeze, contexts | incremental positions; context pool limit | same digest for every split of the input |
| Tiny Tapeout core `src/lca_core.v`, `lca_modmul.v`, `tt_um_*.v` | operand registers, opcode, status | byte writes, start, poll | start on the completing edge, shared error flag | result of the started operation |
| Serial model `model/modarith.py` | none | add, subtract, shift-and-add multiply, butterfly | the corpus is generated from it | its answers are the butterfly's |
| Fast model `model/fastmod.py` | none | both reductions with borrow bits of stated width, latency | a width one bit short | its answers are the pipeline's, and exact |
| Activity trace `tools/power_trace_from_vcd.py`, `model/power_contract.py` | header, time blocks, net values, samples | read a header token, a body line, a time block; refuse; write | abbreviated vectors, aliases, repeated stamps, state before the edge | the trace is the waveform; refused exactly when it should be |
| TVLA `tools/tvla.py` | running mean and sum of squares per sample | expand paths, load, accumulate, report | zero variance, sets that share files, lengths that differ | the verdict is the two-pass test on the dumps |
| SBOM `tools/gen_sbom.py` | one document | write, check | inputs read from HEAD, index, files and working tree | a green commit is accounted for; regenerating settles |
| Fabrication contract `tools/validate_fabrication.py`, `gen_fabrication_artifacts.py` | CSV files | validate, write, check | two manifests and derived files that must agree | a green commit is wired as its files say |
| SRAM planner `tools/sram_area.py` | none | plan, report, self-check | rounding up, two dimensions, skipped macros | each plan covers capacity and bus with no row to spare |
| Vector generator `tools/gen_vectors.py`, bridge profile `bench/bridge_profile.py`, ROM and hex conversion | none | write a file | — | — |

How they interact:

* *Calls in hardware* are ready/valid pairs (`req_valid/req_ready`, `rsp_valid/rsp_ready`)
  between butterfly and multiplier, and start pulses with sticky `busy`/`done` flags
  between the two tops and the engines. A start pulse is a register, so there is always one
  edge between the decision to start and the engine's `busy` on which neither shows.
* *Shared state*: the SRAM port (frontend beats, firmware, scrubber), the engines' memories
  (host window, self-test, engine), the result words (firmware writes, host pops, scrub).
* *Global override*: tamper, a host's zeroize request and reset interrupt everything. They are why
  most of the properties below quantify over what happens at "any edge".

* *Files* join the tools: a trace path, the generated documents, git's HEAD, index and working
  tree. A commit can be verified in the checkout it was made in, in the fresh clone of a
  workflow, and in an archive without git.

The hazards in `PROJECT.json` (40, each at its source line, with the properties that would
catch it going wrong) are the list that the properties were chosen from.


## 2. Modules, and how they correspond to the code

    Words <- ModMul, ModArith
    ModMul, ModArith (instances) <- Butterfly <- MCButterfly   ModMul implements MulServer
    FastMod (instance) <- ModMulFast <- MCModMulFast           ModMulFast implements PipeServer
    NttAccel <- NttTransform <- MCNttTransform       (on a field)
    NttAccel, KeccakF1600 <- RevACore <- MCRevACore  (on taint)   RevACore implements Vault
    NttAccel, KeccakF1600, HostFrontend <- ChipTop <- MCChipTop   (on taint)
    Sums <- Tvla;  ActivityTrace, Tvla (instances) <- Leakage <- MCLeakage
    Ordering <- FabricationContract, SramArea
    Sbom, FabricationContract, SramArea (instances) <- Release <- MCRelease

    Butterfly (with ModMul) <- ButterflyProofs                    ModMulFast <- FastProofs
    Leakage <- LeakageProofs               Release <- ReleaseProofs
    NttAccel <- NttAccelProofs <- NttTransformProofs, RevACoreProofs, ChipTopProofs (instances)
    NttTransform <- NttTransformProofs     RevACore <- RevACoreProofs     ChipTop <- ChipTopProofs

Conventions. Variables keep the registers' names. An action is one clock edge of one
branch of the clocked process; where branches are not exclusive (the SystemVerilog idiom
of default assignments overridden further down) the action combines them and the later
assignment wins, as in the code. The pins of an edge are bound by `\E`, so the environment is
free unless a section below says otherwise. Operators marked `slip` are not part of a model:
each is a definition as a plausible mistake would have written it, placed before the
definition it replaces, and serves to show that a property does fail when the code is wrong.

**ModMul** (`lca_modmul.sv`). Every register; actions `Accept`, `Iterate`, `Rest`, `Reset`,
with the handshake inputs as their parameters. The history variable `pins` is what the last edge sampled of them, so that
the abstract **MulServer** can say which edges may consume (those that find the consumer ready), which must take a request, and
that only a reset cancels. `Words` holds `add_mod`/`sub_mod` with their WORD_BITS+1-bit sums and truncation,
which both this unit and the butterfly define. `request` is a history variable.

**Butterfly** (`lca_butterfly.sv`). The multiplier is an INSTANCE and steps in the same
action; combinational outputs are operators (`rsp_left`, `rsp_right`, `rsp_fault`), so "an
answer changes while it waits" is a real possibility of the model and is checked.
**ModArith** is `modarith.py`, function by function, with what it refuses; `ModelAgrees`
compares an answer with the model's butterfly.

**ModMulFast** (`lca_modmul_fast.sv`). Both reductions operator by operator
(`kred` and normalisation for q = 3329, `fold` and final subtraction for q = 8380417), the registers of
the stages, and one `Advance` that moves the pipeline. `pending` is a history queue.
The 48-bit intermediate width does not appear: the proofs bound every intermediate value
below it. **FastMod** is `fastmod.py`: where the RTL selects by sign, the Python takes the bit at
a stated width of the difference, and so does the module.

**NttAccel** (`lca_ntt_accel.sv`). The schedule alone: the state machine, three nested loop
counters in the directions of the four commands, two banks addressed by parity and row,
host port, zeroization, reset. The arithmetic (`NewA`, `NewB`, `Scaled`) is a parameter: a
module that INSTANCEs it says what coefficients are. **NttTransform** takes residues
modulo a small prime and compares with the definition of an NTT: evaluation at powers of a
root of unity. **RevACore** and **ChipTop** take *taint*: `"clear"` or `"data"`, which is what
zeroization and freshness are about; a butterfly's output is data if an input is.

**KeccakF1600** (`lca_keccak_f1600.sv`). Control of the engine; the round function is a
parameter (`LanesAfter`), and so is the value of the state.

**RevACore** (`lca_reva_core.sv`, `lca_secure_sram.sv`). One action per branch: `Scrub`, `BeginZeroize`, and
under `Running` one action per kind of request (`ReadCsr`, `BadAddress`, `ReadRefused`,
`ReadBeat`, `WriteRefused`, `WriteBeat`, `WriteCommand`, `WriteControl`, the four starts and
their refusals, `NoRequest`). `Background` is what such an edge does besides (completion,
latches released, self-test sequencer), and the composed engines step in the same action.
A beat of the link moves a cursor, in bytes, by two or by one;
the constants `HostOps`, `HostChannels`, `HostCommands`, `ControlWords`, `ByteBeats` and `SRAM_REACH` say which
requests the host of a run makes. `FaultyRounds` is the set of Keccak rounds an engine computes
wrongly, so the self-test has something to find, and `WrongHalves` says in which of the two words it compares
(`KnownWord`; both of lane 0) the wrong result shows; it may be none. **Vault** is the abstract specification of
zeroization, three variables: open or wiping, holds data, shows data.

**HostFrontend** (`lca_host_frontend.sv`). The clocked process as operators on one record,
in the order of its statements; the APB register decoding is reduced to the register and the
CONTROL bits that a write selects. One field, `in.torn`, is history: the objects that were streamed on after they had ended inside a word.

**ChipTop** (`lca_chip_top.sv`, `firmware/main.c`, `runtime.c`, `ntt_mmio.c`). `Next` is a
clock edge or `Reset`. On each edge the frontend, both engines, the zeroize controller, the
mailbox and *at most one bus access of the firmware* step together. The processor is slower
than the clock, so the firmware may also make no access on an edge; one action per operation
(`Poll`, `Fetch`, `Claim`, `StoreWork`, `UseEngine`, `Decide`, `ResultWord`, `ResultLen`,
`ResultCode`, and `Load`/`Start`/`Wait`/`Read` for each engine). What the cryptographic library
computes between accesses is open: any verdict and any number of engine calls up to `CALLS`.
`io` is a record of the pins of an edge; the constant `IO` is the set of combinations a run allows.

**ActivityTrace** (`power_trace_from_vcd.py`, `power_contract.py`). A step reads one header token,
one line of the body or one time block; the `ending` of a header says whether `$enddefinitions` and its `$end` are there, and a
token may be a declaration without its `$end` or with too few fields; a bit string is a sequence of symbols, so the left
extension of abbreviated vectors and the Hamming distance are those of the code. `stage` says how
far the process is, `"error"` is an exit with a message and `"uncaught"` a traceback. The
simulator is part of the model: each simulation in `Simulations` gives, for each line, the lines it may write.
The history variables `dumped` and `wave` hold what it dumped, and the definitions
that the properties compare with read only them.

**Tvla** (`tvla.py`). Paths are numbers in the order of sorted paths; a step expands the
arguments, loads a file, takes one series into the running statistics, or reports. Means are kept
in parts of `Unit`, a multiple of 1 to `MaxTraces`, so that the running statistics are exact; the test
`t > 4.5` is compared by cross-multiplication. A value that is not an integer stands for the JSON literal NaN,
which Python's `json` reads and `float` accepts. The batch definitions sum with `Sums`. **Leakage** composes the two as
`docs/LEAKAGE_METHODOLOGY.md` runs them: `Publish` puts the converted trace at its path, `Fail`
leaves what was there, and an assessment starts over any of the `Disks`.

**Sbom** (`gen_sbom.py`). One operator per collector, from the inputs to the set of components, and
`build_bom`, `main_write`, `main_check`. A line of a workflow is given with what it does (use an action, check out a repository, install
a package or a runtime, run a container); which of these lines the scan reads is part of the model. **FabricationContract** (`validate_fabrication.py`,
`gen_fabrication_artifacts.py`). Expectations in the groups and order of the code; fields that are
only compared with a literal are one set, `drifted`. **SramArea** (`sram_area.py`). The macro inventory as data
(outlines in whole micrometres), `plan_bank`, the envelope, `build_report` and `check`. Both sort rows: **Ordering** gives
Python's `sorted` by the rows that come earlier. **Release** composes the
three over a checkout: actions `Edit`, `Populate` and `Bump` (submodules), `WriteSbom`,
`WriteFabrication(written)` which may stop between files, `Commit`, `Verify(place)` which runs the gates, and
`PlanMemory`. A verdict is kept while the files of the
checkout stay as they are. `fresh` is a history variable: the documents regenerated since the last change of what they read.


## 3. Runs, bounds and what they show

| Run | Instance | Shows |
|---|---|---|
| `butterfly` | 3-bit words, moduli 2 and 3, every request, well-formed or malformed, any back-pressure, reset at any edge | answers are those of `modarith.py` and belong to their requests; the multiplier inside implements `MulServer`; answers are stable; every request is answered unless a reset comes first |
| `modmul_fast` | the real moduli, requests at the corners of both reductions, any back-pressure and reset | exact answers, equal to `fastmod.py`, in order; refinement of `PipeServer` |
| `ntt_transform` | 8 coefficients, Q = 17, root 3; 2 starts, 1 host write, 1 reset or zeroize | the four schedules compute the transforms; no bank conflict; fixed time; zeroize cleans |
| `reva_ntt` | NTT channel, START, ABORT, self-test, pins and reset at any edge | zeroization (`Vault`), no start is lost, self-test and host do not disturb each other |
| `reva_link` | Keccak channel, reads and writes, byte beats, CSRs, bad addresses | zeroization; stable responses; no read from a running engine |
| `reva_live` | after the last reset, unknown memories, one faulty Keccak round, wrong in the second word that is compared | scrubs and busy (so the self-test) end; the self-test of that engine never passes |
| `chip_host` | host: beats, starts, acknowledge, clear, zeroize, tamper, reset; firmware without engines | every word of a loaded object, up to its count, is in the SRAM (but for the part word of section 6); verdict and output belong to the command; scrubs clean |
| `chip_run` | firmware on both engines; tamper, zeroize, refused starts at any edge | one service per command; results of finished runs; every command ends |
| `leakage` | six families of dumps (activity, states, noise, clocks, names, headers), 9 disks of earlier traces, 12 assessments | a conversion ends as its dump demands; the trace is the waveform; statistics equal the two-pass ones; the verdict is about the dumps |
| `release` | one submodule, five pins and a paddle, two GPIOs, one edit of each kind | what a green commit means; regeneration settles; plans cover their target |
| `reva_done`, `sbom_drift` | as `reva_link`, `release` | the disagreements of section 6 |

Why the bounds are enough:

* *Words.* With 3-bit words and moduli 2 and 3 every request, well-formed or not, is made, and sums
  below, at and above the modulus occur in the iterations. The moduli are below half a word, as
  `modarith.py` demands and as both real moduli are; a modulus that uses the top bit, and a sum that carries out
  of the word, are covered by the theorems, which hold for every width and modulus. The multiplier has
  no run of its own: the butterfly drives it with every pair of canonical operands.
* *Transforms.* N = 8 has three layers, groups of one, two and four pairs, both scan directions and, for
  ML-KEM, the omitted last layer; a loop bound that is off by one shows in some layer. The initial
  polynomials (`MCInputPolys`) are a few that separate the layers: the engine is linear in them.
  Two starts catch state left by the first; one write and one cut at *any* edge are placed
  at all edges by TLC. Nothing in the design depends on two such events that one does not reach.
* *Taint.* With 4 coefficients and 1 Keccak word an engine run still spans several edges and two
  layers, so every relation between the lengths of the SRAM scrub (5 words), the NTT's scrub and
  the Keccak clear can be met. In silicon the SRAM scrub is by far the longest
  and covers the engines'; `SRAM_WORDS > NTT_WORDS` keeps that relation, and is stated as an
  assumption (`CoreAssumption`, `MemoryMap`) because `zeroize_busy` depends on it.
* *Rounds.* 2 (1 in `chip_host`, where the firmware makes no engine call): first, last, and a
  faulty one among them.
* *Host requests.* Each Rev-A run restricts the host to the requests its question is about;
  together the passing runs take every action. `SRAM_REACH` bounds the SRAM channel's cursor.
* *Objects.* In `chip_host` the key has 5 bytes, a whole word and a part; the message has up to 6 and may end after 3, in its
  first word, and be streamed on. There are early ends of the key, overruns of both and a mask of no bytes; word 0 of the SRAM belongs to neither. That
  a message over several words is whole is the theorem `LoadedIsInMemory`; here the key takes that path, which is the same code.
* *Chip IO.* The input sets pair the events that the code orders within one edge (beat and
  START, acknowledge and pop, acknowledge and clear); others come one per edge.
* *Dumps.* Scripts are up to fifteen lines. The families separate what the code treats separately: which nets
  count (two names of one net, types, globs, weights), which state a cycle has, which records
  are refused, which clocks are representable, which names resolve, which headers are whole. Within a family every line is free among its
  alternatives, so a change may be on either side of an edge, repeated, unknown or absent.
* *Assessments.* Sets of up to four traces (`MaxTraces = 4`, `Unit = 12`) with one to three samples; the sets overlap,
  name a file twice, include a file that is not JSON, one without a series, and lengths that
  differ; an expansion to more than `MaxTraces` paths is not taken (`Bounded`). Welford's update has no case that
  needs more than three traces.
* *Release.* `MaxEdits = 1`: each edit aims at one group of expectations, and the gates
  are conjunctions of expectations, so a second edit adds no verdict of its own. The order of edit, bump, generation
  (complete or stopped), commit and verification is free. One submodule
  is enough because gitlinks are independent of each other. The planner reads nothing but
  its arguments, so `PlanMemory` runs in the untouched checkout only; 4 targets, 4 bus
  widths (one that no 32-bit word tiles) and 2 gaps.

`CHECK_DEADLOCK` is on except in `leakage`, whose processes end; a clocked design always has a
next edge, and a document can always be generated again.


## 4. Fairness

Only weak fairness, and only of what the hardware cannot withhold:

* `Butterfly!FairSpec`: the clock runs while a request is in
  flight. Nothing is assumed of requester, consumer or reset: `RequestAnswered` holds with a consumer that never takes an answer.
* `RevACore!SettledSpec`: from any state a reset can leave (`SettledInit`: registers reset,
  memories arbitrary) the clock runs and no further reset comes. Pins and host remain free:
  tamper may be raised and released for ever, responses may never be taken.
* `ChipTop!SettledSpec`: the clock runs, and the processor goes on with its program
  whenever it is out of reset (`WF` of `Firmware`; `StoreWork`, an access that could be repeated for
  ever, is left out of it, so the library's work ends). `CommandServed` does not assume that the host is helpful.

No strong fairness is used. Resets are left out of the liveness specifications because a
reset that returns for ever prevents everything, by design.


## 5. Proofs

`tlapm` checks `ButterflyProofs`, `FastProofs`, `NttAccelProofs`, `NttTransformProofs`,
`RevACoreProofs`, `ChipTopProofs`, `LeakageProofs` and `ReleaseProofs`, with no step left unproved. What is assumed of
the parameters, each assumption named in the module that declares them and evaluated by TLC:

* `WordBitsAssumption` (the width is a positive natural), `ModuliAssumption` (the moduli fit), and
  `RequestsAssumption` (requests are a 2-bit modulus selector and two 24-bit operands, canonical or not).
* `PowerAssumption` and `Log2Assumption`: the recurrences of `2^n` and of the logarithm at the
  arguments that occur. They are facts of arithmetic that the prover does not know, not choices.
* `TransformAssumption`, `BankAssumption`, `EngineAssumption` say the same of the three users of
  `NttAccel`: the number of coefficients is a power of two, at least 4 (`SizeOK`), and two addresses
  that differ in one bit lie in different banks (`BanksSplit`). The latter is a fact about the parity of a
  number's bits, which is defined by recursion.
* `FieldAssumption`: the twiddle ROM holds residues, and N and N/2 have inverses.
* `CoreAssumption`, `SizesAssumption`, `ObjectsAssumption`, `MemoryMap`: memories are not
  empty, the SRAM has more words than the engine has coefficients (both scrubs start together, and the core
  reopens when the SRAM's ends), and the objects of the firmware's memory map do not overlap and lie within the SRAM.
* `InputsAssumption`: the rows of a package manifest are sequences, pad names are a kind and a number, and the
  planner is asked for a natural number of bytes over a bus of at least one bit (argparse also takes negative
  ones, of which the proofs say nothing).
* `SubmodulesAssumption`: in every `.gitmodules`, a path line of a submodule that has a gitlink stands in a section and is
  the last path line of it (git writes one per section), and gitlinks are commits, so neither empty nor the word "unpinned".
* `UnitAssumption`: the unit of the means is a multiple of every count of traces, so that the statistics are whole.
  `FilesAssumption`: files are numbers in the order of their sorted paths, and no disk and no command line names
  infinitely many.
* `SimulationsAssumption`: what a simulator writes and a command line says (`AreSimulations`). A net that is declared
  under several names has one width; its value is written whole or abbreviated by the rules of IEEE 1364 (extended with
  its first symbol where that is x or z, with 0 otherwise), and as a real or a string only for a type that is never counted;
  times are natural numbers; a timescale is a positive fraction or unknown; weights are whole and the default state is one
  `--default-active-state` offers. `PathOrder` lists every declared path once. In a header only the last declaration may lack its `$end` (the tool reads
  a former one up to that of the next), and if that of `$enddefinitions` is missing no other follows. Nothing is assumed of the order of the lines,
  of the nesting of scopes and comments, of names that are absent or ambiguous, of times that go back or of records that are garbage.
* `BoundsAssumption`: the bounds of a run and the inputs it enumerates have their types.

**Multiplier, every width.** Of the instance `Mul` of `ModMul`, whatever drives it: `MulTypeCorrect`,
`ResponseIsResidue`, and `MulRefinement` (of
`MulServer`: Init maps to Init and each edge to the step that the sampled inputs demand). `ResponseCorrect` is not inductive:
it says nothing while the multiplier works. The strengthening is `WorkInvariant`:

    busy => modulus is the request's, multiplier < 2^(WORD_BITS - count), and if a < q:
            product < q, multiplicand < q and, for some k,
            product + multiplicand * multiplier + k * q = a * b

together with `TypeOK` and the exclusion of busy and response. The step that
matters is `IterateArithmetic`: one reduced addition and one doubling keep the sum's residue, and
`AddModWord` shows that truncation to WORD_BITS loses nothing.

**Butterfly, every width and every pair of moduli that fit.** `Answers`, `Stable`, `FaultExclusive`,
`TypeCorrect`, and `MultiplierImplemented`: the multiplier, driven by the butterfly, implements
`MulServer`: every step of the butterfly is one of the multiplier (`MulSteps`), so the multiplier's
theorems hold of it. The invariant relates the multiplier's request to the saved operands.

**The Python model of the butterfly.** `ModelIsExact`: the responses are those of `modarith.py`, for
moduli below half of a word, the bound the model itself checks. The loop of `mul_mod_shift_add` is a recursive function, so its
value after n iterations is only known once such a function is known to exist (`Iterated`, by `UpTo`: induction
over a set of numbers, from the least one outside it). `LoopUnfolds` then gives the iterations, `LoopKeeps`
their invariant, that of the multiplier (`Owed`), and `ModelMultiplies` the product.

**Pipelined multiplier, all canonical operands.** `ReductionExact` is a statement about
the arithmetic and covers what the repository's formal flow (`formal/`) leaves open: there, the
*ranges* of results are proved, here, that they are the residues. For q = 3329:
`kred(v) = 13v - 3329k` (`KredIdentity`), so a round of two `kred`s multiplies by
169 modulo q (`RoundExact`). Stage C multiplies by 1353 before its own round, and 169^2 * 1353 = 1
mod q, so the two rounds give the residue (`KemExact`). For q = 8380417: `fold(v) = v - q*k`
(`FoldIdentity`), and a chain of ranges (`FoldRange`) ends below 2q where one subtraction
finishes (`FinalExact`). Linear steps are kept apart from products so that the SMT solver meets no
non-linear goal. `ResponseIsExact` and `PipelineImplemented` rest on one invariant,
`Inv`: flags are Booleans, and `pending` is the list of the requests in the valid stages,
oldest first, each stage holding what its request computes to at that stage.

**The Python model of the pipeline.** `ModelMatched`: for any set of requests both give the same
product and fault flag. `BorrowIsSign` is the point of difference: for `0 <= value < 2^width` and a
modulus below `2^width`, the bit at `width` of the difference is 1 exactly when it is negative.
With the ranges proved for the pipeline it gives `SameRound`, then `ModelKem` and `ModelDsa` (the
model computes the residue) and `ModelExact`.

**Release, every tree, edit and number of pins.** `RegenerationIsSettled`, `AccountedIfGreen`, `WiredIfGreen` and `PlansAlwaysCover` are
the run's `RegenerationSettles`, `GreenMeansAccounted`, `GreenMeansWired` and `PlansCover`. The first three say something of a
verdict that was reached earlier, so they need the history behind it. `Inv` keeps it: a document marked fresh is what
its generator would write now (`FreshSbom`, file by file `FreshCsv`, so that a stopped run counts for
nothing), a verdict that stands is what the gates would say now (`Standing`), and a report is one of the planner's
(`Planned`). For `RegenerationIsSettled` what remains is that the SBOM generator and its `--check` read the same
commit when nothing is staged or initialised. `WiredIfGreen` adds what the validator's expectations
amount to (`ContractSays`): the expected set of pins without a repetition makes the map from GPIO to pad a function, so the last
pad of a name, which the code's dictionary keeps (`PhysicalPin`), is the only one; sorting loses no row (`SortedRows`), so the
same is true of the files (`FilesSay`). `AccountedIfGreen` holds in the checkout, in a clone and in an unpacked archive, and the
archive needs an invariant of its own: without git every submodule is "unpinned" to the generator, so its check
could agree with a document that says so. `Linked` excludes that document: the SBOM is only ever written in a
checkout, where what has a gitlink gets it (`WritesPinned`), and no edit or bump takes a gitlink away. What remains is `CheckAccounts`,
about one check of one document: every line of a workflow that a pattern of the scan reads is found (`ScanFinds`), a checkout with the
first commit below it (`ScanFindsCheckout`), and kept by the grouping (`GroupedCovers`), every collector lists what it found (`ToolEntries`, `ActionEntries`, `NoticeEntries`, `SubmoduleEntries`),
and by the kinds of the entries nothing else is listed as a package or a submodule (`CollectedEntries`).

**Memory plans.** `PlanCovers`: for every macro geometry, target and bus width that tile, the plan
covers the capacity and the bus, and one row fewer does not cover the capacity. It rests on
`CeilDivLeast` (the rounded quotient is the least number that covers) and `RowSpansBus`.
`SelfCheckHolds` says that the plan half of `check()` holds by the way `plan_bank` computes: that
half of the self-check can only report a fault of the inventory. `PlansAlwaysCover` is about whole reports: each macro
of the inventory is usable (`Inventory`), the box chosen among the divisors of the number of instances
exists, since the comparison by cross-multiplied ratios is an order (`RatiosInOrder`, `BetterOrder`), and holds the macros
(`Envelope`); the order of the plans is total whatever their areas (`BeforeOrder`), and
sorting by a total order permutes the rows (`Sorting`).

**NTT engine.** `NttAccelProofs` proves about the schedule what its three users need, whatever
a coefficient is. `EngineInv` is inductive only with the place of the engine in its transform
(`InLayer(q, g)`): a layer of span `len` has `q` groups with `2 * len * q = N`, the engine is in group `g < q`,
`group = 2 * len * g`, `j` lies in the first half of it, and the twiddle index counts the groups of all
layers, up or down. What is left to be halved (`len` forward, `q` inverse) is a power of two, which is why
every layer ends exactly. `ButterflyMoves` shows the three ways on (next pair, group, layer or the
end), `EngineStep` that every edge keeps the invariant. `ScrubClears` says that the rows below
`zeroize_index` are clear in both banks; `ScrubStep` and `StaysClear` turn it into "all clear at the end", and
`CellStep` says what a coefficient may become on an edge: itself, a host's word, a butterfly's or a scaled value.

**Transform, every size and field.** `BanksNeverConflict`, `LatencyIsFixed`,
`ZeroizeLeavesNothing` and `TypeCorrect`. `FixedLatency` speaks of the end only. The invariant counts:
`edges = layers done * N/2 + (g * len + (j - group))` (`Timed`), layers done being the logarithm of `q`, or
what is left to it for an inverse transform. `PairsDone` is the step between layers: `q * len = N/2`.
`RoomLeft` shows that the bound `MaxEdges` on the counter never stops an engine at work.

**Rev-A core, every memory size and host.** Its run-time invariants `HeldTriggerKeepsClean`,
`StartNeverLost`, `EnginesExclusive`, `SelfTestSound`, its action properties `ResponseStable`,
`NoReadFromRunningEngine`, `StartsOnStagedData`, and `CoreIsVault`, the refinement of `Vault`: every edge
of the core, with both engines and the SRAM in it, is a step of the abstract vault or a stutter. None of these is
inductive. `Wiping` relates the three scrubs: during one, the SRAM is clear below `scrub_addr`, the
Keccak state is clear from the second edge on, and the NTT engine is either still scrubbing, at an index no
more than one behind, or done and clear; since the SRAM is the longest, all is clear when it ends. `Launch` says what a start pulse
stands on: both engines at rest and no other pulse, so no start can be lost. `SelfTesting` says for each
state of the sequencer what the engines hold, down to the number of rounds the Keccak state has
had, so that the verdict depends on nothing the host or the pins did in between. `SelfTestIsSound` says what the two
comparisons can tell: a healthy engine never fails, one that is wrong in lane 0 never passes. It
holds under the plain and under the settled specification.

**Full chip with its firmware, every size, host and library behaviour.** `CommandsServedOnce`,
`VerdictIsHonest`, `OutputIsComplete`, `LoadedIsInMemory`, `ResultsAreFresh`, `ScrubLeavesNothing`, `TypeCorrect`. Between a bus access
of the firmware and its effect on the frontend lies a mailbox pulse, and the invariant is about what
is in flight: `Pulses` (at most one, and it carries what the firmware has), `Outcome` (on the way from the decision
to the completion, firmware and frontend agree on the command, and the words of a secret that the loop has passed
have landed or are in the pulse), `Loaded` (an object's words are in the SRAM up to its count, which is whole
words until the object ends: a refused or partial beat in between cannot leave a hole; an object that is streamed on after it
ended inside a word is marked by `in.torn`, and only its whole words are claimed),
`EnginesServe` (an engine that runs has the firmware waiting for it, so no result is of an earlier
run) and `Wiping` (the scrub holds processor and frontend in reset and walks in step with the
engine's). By `SettledIsSpec` all of it holds of the liveness specification too.

**The leakage assessment, every set of files and traces.** `StatisticsExact`: after any number of traces,
of any length and with any values, the running count, mean and sum of squares of every sample are those of the
batch. One update is the lemma `WelfordIsExact`, which is arithmetic: `n (n + 1)` times the new sum of squares is
the same polynomial as the batch's, and the divisions leave no rest because `Unit` is a multiple of the
count (`UnitDivides`). The invariant `LInv` says that of the traces taken so far, of each set apart. `VerdictSound`
rests on it: a report marks exactly the samples at which the two-pass test on the activity recounted from
the dumps exceeds the threshold, its length is that of the shortest trace, the exit status follows,
and an assessment gives up only for one of its reasons. Its invariant `DInv` follows the files through
the flow: every trace on the disk is the recounted activity of its path (`Traces`), every path of an expansion is a
file of the disk (`ExpansionIsFound`, by counting the earlier ones: the sorted paths are a permutation of the
matches), and what is loaded is that of its path (`Loaded`). `WelchOfSums` shows that the comparison of
`welch_t`, made on the running statistics, and that on the sums are one: unit and counts
cancel. That a trace is the recounted activity of its dump in the first place is `TracesAreWaveforms`, so the theorem
goes from the lines a simulator writes to the verdict. Induction over the traces and over the partial sums goes by the least counterexample (`UpTo`),
over a set in place of an operator.

**The conversion of a dump, every header, script and command line.** `TracesFollowDumps`, `TracesAreWaveforms`. The tool and the
definitions it is compared with look at a dump in different ways: the tool keeps a stack of scopes, a list of blocks, the
current values and the last snapshot; the definitions ask, of the whole history, which scopes are open, when a net changed last,
and which positions differ at two times. The inductive invariant `DumpInv` relates the two in each stage:

* *Header* (`HeaderInv`). No declaration before the present one is malformed or cut. After n tokens the stack is the names of the scopes that are open (`Stacked`: the numbers of the open scopes
  in order; `StackOpens`, `StackCloses`, `StackStays`, one for each kind of token), and the list of variables is the declarations so far with
  their paths, in order (`Lists`). From it follow names (`NamesFound`, `FoundIs`: `resolve_signal` finds what a path or
  a unique name denotes), and the selection (`SelectionIs`: of the declarations of a net, the one the tool keeps is the first by path).
* *Body* (`BodyInv`, `Blocked`). The blocks are in strictly ascending time, those up to the present one; each block changes exactly the nets
  whose waveform changes at its time, to the value the design had: `AbbreviationIs` is left extension to the declared width. A stamp that repeats the present
  time continues its block. Every declared net is exact; an undeclared one is dropped or kept unread.
* *Sampling* (`SampleInv`). The values are those of the waveform just before the next time that matters (`Holds`: between two
  blocks nothing changes, `GapIs`), a rising clock is an edge of the waveform (`EdgeIs`), and the samples so far are those of the edges so far, in order
  (`Sampled`). `TogglesAre` is the sum: distances of the selected declarations weighted and added over the list are the number
  of triples of a net, a position that switched and a unit of its weight.
* *Writing*. `SlowIs`, `IntervalIs`, `RateIs` and `RoundIs`: rounding half to even gives a nearest whole number, the interval and the
  rate that `build_trace` writes are positive unless the mean cycle rounds to two seconds, and in that case alone
  the rate rounds to 0 and the contract refuses the trace, as it does without a hardware id or an operation.

After the outcome nothing of it changes, and the invariant keeps the two properties themselves.

**Only model-checked.** Liveness (`RequestAnswered`, `ScrubEnds`, `BusyEnds`,
`CommandServed`): the prover has no rule for ENABLED under fairness. `TransformCorrect`, that the schedule computes an NTT: it says what a nest of loops over
data computes, in terms of `Power` and `BitRev`, which are recursive, and would take the algebra of the
transform, an induction over layers of sums of products; the library's induction theorems take an
operator as a parameter, which none of the provers can instantiate. `TypeOK` of
`NttTransform` and `ChipTop` is proved and is not part of a run: the proofs rest on it, and
the runs ask deeper questions.


## 6. Where the code and its documents disagree

Two are shown by runs that end in a counterexample:

* **DONE and IRQ come early from the second START on** (`reva_done`, `DoneIsCompletion`). The core
  recognises completion by "host started it, and the engine's `done_o` is set"
  (`lca_reva_core.sv:482`). `done_o` is sticky and is cleared only when the engine sees
  its start pulse, an edge after the host flag was set; on that edge the old `done_o` counts
  as completion of the new operation, and its real completion then raises nothing.
* **The SBOM is not a function of the commit** (`sbom_drift`, `SameCommitSameSbom`). The
  document records which submodules are initialised in the working tree
  (`tools/gen_sbom.py:349-360`), so the gate that passes in a fresh clone fails in a checkout of the same commit
  after `git submodule update --init`. `tools/gen_sbom.py:10-14` says that two runs at the
  same commit produce byte-identical output.

Read off the code while modelling, without a run of their own (the models follow the code).
In the hardware:

* A rejected beat is stored. The write strobes to the engines' memories
  (`lca_reva_core.sv:243-246`) do not look at the check on `req_last`, so a beat answered with
  ERR_LENGTH has changed the window; `docs/REV_A_INTEGRATION.md:115-116` says it does not.
* A refused START can replace a completion's code. On the edge on which a command completes, START
  still reads `busy` and its refusal, assigned later in the process
  (`lca_host_frontend.sv:365`), wins over the firmware's code; `docs/COMMAND_ABI.md:55-57` says a refused
  start modifies nothing of the active command.
* `SRAM_WIPE` leaves cursors, staged lengths and the command as they are
  (`lca_reva_core.sv:692-695`), so zeroed windows still count as staged; the
  staged length of the NTT also survives the self-test's scrub of the engine.
* `ERROR_CODE` holds the latest error, not the first; a tamper fault can be cleared through
  CONTROL bit 5 (line 645; compare `docs/REV_A_INTEGRATION.md:196`).
* READY is `init_done` alone, and no self-test runs by itself at power-on (compare `:160`).
* Rejected writes do produce a response and do not raise `irq` (compare `:115-116`).
* RESET_CURSORS is honoured while busy. CONTROL and STATUS bits are laid out differently from the
  document's table.
* The self-test compares lane 0 of the Keccak state, 64 of 1600 bits (`lca_reva_core.sv:529`, `:541`): an engine
  that permutes the all-zero state wrongly in the other lanes only passes it. `SelfTestSound` is stated accordingly.
* A message or context that ended inside a word can be streamed on: `lca_host_frontend.sv:305-328` writes the next beat over the
  part word and counts from the end of it, so a word the count covers may never be written and the object is still marked as
  loaded. `docs/COMMAND_ABI.md:106-107` asks the host for one `s_last_i` per object and a clear before reuse; nothing enforces it.
* A one-byte read that is not the last leaves an odd cursor, and the window's last
  halfword is then refused.
* In the full chip: START while busy sets DONE, ERROR and IRQ while BUSY stays; START with CLEAR in one
  write launches with a message length of 0 (`docs/ARCHITECTURE.md:110`); a further `last` beat on the
  edge of START changes the message length of the running command; neither the
  mailbox's data register nor the arithmetic lane's registers are cleared by a zeroization
  (nor does `docs/ARCHITECTURE.md:176-184` list them), and reset does not start a scrub there.


In the tools:

* `gen_sbom.py` reads gitlinks with `ls-tree HEAD` (line 341) where its header names the index,
  so a staged bump enters the document only when it is regenerated after the commit.
* The workflow scan lists an action pinned to a commit only if the line has a `# v...` comment, and
  takes it for unpinned only if it has no commit: a pinned line without the comment appears
  nowhere. A `repository:` without a commit in the four lines below it (a `ref:` further down, or one that is a
  branch) is lost likewise, and so are a `pip install` without `==`, further packages on one line of it, the Node of a `setup-node`
  step, and an entry of `package-lock.json` outside `node_modules/` (a workspace). `--check` stays green with each of them, and
  `GreenMeansAccounted` does not speak of them; edits of the run add most of them. The root component is in none of the compositions.
* The GPIO map of `validate_fabrication.py:217` is a dictionary by name: two pins
  of one GPIO name count as one there, and the other checks have to find it.
* A package whose status is `frozen` can never validate: the release contract must be
  `not_executed` (line 128) and `executed` (line 274), and at least eight blockers
  must and no blocker may remain (lines 271, 273).
* An empty `gates` list ends the validator with an IndexError (line 192) and not with a
  message, and so does a GPIO bonded to the paddle, whose pin `EP` is not an integer (line 230).
* `sram_area.py --bus-bits 24`: the reference macro is planned outside the `try` that skips a
  macro (line 627), so the whole report ends with the error that was meant to skip one.
  A target of 0 ends it too.
* `power_trace_from_vcd.py:603`: a clock slower than 0.5 Hz rounds to 0 Hz, which the contract
  refuses with an exception that `main` does not catch.
* Three more inputs end `power_trace_from_vcd.py` in a traceback and not with its message: a declaration of the header
  without its `$end` (`tokens.index`, lines 187, 203, 209 and 214), and an empty `--hardware-id` or `--operation`
  (`model/power_contract.py:49-50`).
* `docs/LEAKAGE_METHODOLOGY.md:77-83` calls a cycle `idle` when it is neither reset nor fault nor busy with one of the two moduli
  ("otherwise"). The code gives a busy cycle with another or an unknown modulus `--default-active-state`
  (`power_trace_from_vcd.py:370`), as the help of that option says, and so do the model and `TraceIsWaveform`.
* `tvla.py:202`: a trace that is not JSON ends the process with a traceback and status 1, the
  status that `--fail-on-leakage` uses for leakage.
* `power_trace_from_vcd.py:460` describes the state of an interval as the values latched at its
  first edge; the code takes the values just before its last edge, which differ for nets that
  change in between.


## 7. What is not modelled

* The numbers of the two real fields in the NTT engine (Montgomery and Barrett reduction, ROM
  contents) and the five steps of the Keccak round: planned as pure functions (section 8).
* Byte strobes and word contents in `RevACore` and `ChipTop`: data is taint, and a partial
  write taints its word.
* In the chip top: the arithmetic lane (an `lca_core` behind MMIO), the cycle counter,
  PicoRV32 and the boot code. In the firmware: the context pool and `exit()`, the entropy read and
  reads of the message length, which none of the three commands reaches without the library.
* PicoRV32 and PQClean are not in the repository; what the firmware calls is open.
* `openframe_project_wrapper.v`: pad constants and a reset synchroniser, whose effect (an
  asynchronous reset at any edge) is already in `RevACore`.
* Tiny Tapeout core (with its reference `model/reference.py`) and sponge: planned.
* `gen_vectors.py` (a seeded corpus, whose values are the butterfly of `modarith.py`),
  `bridge_profile.py` (a stateless weighted sum), `gen_ntt_rom.py` and `bin_to_memhex.py` (text
  conversion), shell scripts and the tests.
* In the tools that are modelled: the text of messages, reports and documents, the spelling that regular
  expressions accept (a line comes with its kind; one written so that the pattern of its kind does not match is of none), JSON schemas, the provenance of a trace,
  `integrate_joules`, fractional weights and floating-point rounding (statistics are exact, areas are in whole
  square micrometres).


## 8. The plan: order, and what is left

Order, most important first; 1 to 9 are done.

1. `Words`, `ModMul`, `MulServer`, with their proofs: the unit everything multiplies with.
2. `Butterfly`, which composes it, with its proofs.
3. `NttAccel` and `NttTransform`: the schedule against the definition of an NTT.
4. `KeccakF1600`, `RevACore` and `Vault`: zeroization, self-test and link of the product core.
5. `HostFrontend` and `ChipTop`: the full chip and its firmware.
6. `ModMulFast` and `PipeServer`, with their proofs.
7. `ModArith` and `FastMod`: the Python models against the units they describe, the second proved.
8. The evidence tools: `ActivityTrace` and `Tvla` composed in `Leakage`; `Sbom`,
   `FabricationContract` and `SramArea` composed in `Release`.
9. `NttAccelProofs`, and on it `NttTransformProofs`, `RevACoreProofs` (with the refinement of
   `Vault`) and `ChipTopProofs`; `LeakageProofs` and `ReleaseProofs`.
10. `NttReductions` and `KeccakRound`: Montgomery and Barrett against `%` over boundary
   inputs, the zeta ROM against powers of the roots, theta-rho-pi-chi-iota against the
   lane-wise definition; proofs of the reductions in the manner of `FastProofs`.
11. `Sponge`: incremental absorb and squeeze of `fips202_lca.c` against one-shot, for
   every split, and the context pool of `runtime.c` at its limit.
12. `LcaCore` and `TtWrapper`: the three-opcode core and its byte registers; the
    hazard at `src/tt_um_suwappu_lattice_accel.v:118`.
13. `SRAM_WIPE`: a property for the stale staged lengths of section 6.
14. `TransformCorrect` for every length: the one safety property of a run that no theorem states (section 5).
