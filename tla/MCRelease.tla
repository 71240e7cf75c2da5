----------------------------- MODULE MCRelease -----------------------------
(***************************************************************************)
(* An instance of Release: one pinned submodule, two npm packages, two     *)
(* workflow files, a package of five pins and a paddle with two GPIOs, and *)
(* one edit of every kind the gates must tell apart.                       *)
(***************************************************************************)
EXTENDS Release

MCSha == {"sha-old", "sha-new", "sha-action", "sha-mcy"}
MCNoticeFiles == [fips202 |-> "CC0-1.0", cctv |-> "CC0-1.0"]
MCDeclared == [PQClean |-> {"CC0-1.0", "MIT", "Apache-2.0"}]
MCSignals == {"host_clk", "tamper_n"}
MCAteRequired == {"PKG-001", "PWR-001"}

Npm(dir, name, version, license) ==
    [dir |-> dir, name |-> name, version |-> version, license |-> license]
Section == [kind |-> "section", key |-> "", value |-> ""]
Key(key, value) == [kind |-> "key", key |-> key, value |-> value]
Line(kind, name, at, tag) == [kind |-> kind, name |-> name, at |-> at, tag |-> tag]
Other == Line("other", "", "", "")
Pin(pin, kind, n) == [pin |-> pin, name |-> [kind |-> kind, n |-> n], notes |-> ""]
Io(gpio, pin, signal, direction, pad) ==
    [gpio |-> gpio, qfn_pin |-> pin, signal |-> signal, direction |-> direction, pad |-> pad]
Rtl(path, disposition, netlist) ==
    [path |-> path, disposition |-> disposition, netlist |-> netlist]
Gate(id, status) == [id |-> id, status |-> status]

BaseLock == {Npm("", "lca1", "1.0", {}), Npm("node_modules", "yosys", "0.60", {"ISC"})}
PQCleanSection == <<Section, Key("path", "PQClean"), Key("url", "PQClean.git")>>
BaseWorkflows ==
    <<[file |-> "ci.yml",
       lines |-> <<Line("uses", "checkout", "sha-action", "v7"),
                   Line("python", "3.12", "", ""), Line("pip", "cocotb", "2.0", ""),
                   Line("apt", "verilator", "", ""), Line("node", "22", "", "")>>],
      [file |-> "mutation.yml",
       lines |-> <<Line("uses", "checkout", "sha-action", "v7"),
                   Line("repository", "mcy", "", ""), Line("ref", "", "sha-mcy", ""),
                   Line("container", "librelane:3", "", "")>>]>>

BaseRelease ==
    [release_id |-> "LCA1-S0-REV-A", as_of |-> "d1", shell_commit |-> "sha-old",
     macro |-> "CF_SRAM_8192x32", drifted |-> {}, schedule |-> <<1, 2, 2, 3>>,
     contract_status |-> "not_executed",
     rtl_disposition |-> <<Rtl("core.sv", "retain", TRUE), Rtl("soc.sv", "remove", FALSE)>>,
     baseline_macro |-> "CF", experiment_macro |-> "CF",
     numbers |-> [csr |-> <<0, 2>>, commands |-> <<0, 1>>, errors |-> <<0, 1>>],
     gates |-> <<Gate(0, "ready_for_independent_review"), Gate(1, "blocked")>>,
     user_area_mm2 |-> 15]

BasePackage ==
    [drifted |-> {}, shell_commit |-> "sha-old", package_status |-> "draft",
     freeze_blockers |-> 2,
     qfn_pinout |-> <<Pin(0, "vss", 0), Pin(2, "gpio", 0), Pin(1, "resetb", 0),
                      Pin(3, "gpio", 1), Pin(4, "vssa1", 0), Pin(5, "vccd1", 0)>>,
     logical_io |-> <<Io(1, 3, "host_clk", "input", <<"001", "1", 0>>),
                      Io(0, 2, "tamper_n", "input", <<"001", "1", 0>>)>>,
     ate_tests |-> <<"PKG-001", "PWR-001">>]

MCBaseTree ==
    [lock |-> BaseLock,
     project |-> [name |-> "lca1", version |-> "0.1",
                  requires |-> <<[name |-> "setuptools", range |-> ">=77"]>>],
     gitmodules |-> PQCleanSection,
     notices |-> [fips202 |-> "digest-1", cctv |-> "digest-1"],
     release |-> BaseRelease, package |-> BasePackage,
     harden |-> [PDK |-> "sky130A", STD_CELL_LIBRARY |-> "hd"],
     engines |-> [node |-> "22"],
     workflows |-> BaseWorkflows,
     rtl |-> {"core.sv", "soc.sv"}]

Ci(lines) == [BaseWorkflows EXCEPT ![1].lines = @ \o lines]

(* The edits.  For the SBOM: a package without a license, one requirement  *)
(* given twice, a gitlink without a section, sections without a gitlink or *)
(* a path, changed and deleted files, a runtime two inputs declare, and    *)
(* workflow lines of every kind.  For the gates: one manifest that breaks  *)
(* each group of expectations, one that is only renoted, and a new file.   *)
MCVariants ==
    [lock |-> {BaseLock \cup {Npm("node_modules", "jsmn", "1.1", {})},
               BaseLock \cup {Npm("packages", "host", "1.0", {})}},
     project |-> {[MCBaseTree.project EXCEPT
                     !.requires = @ \o <<[name |-> "setuptools", range |-> "<80"]>>]},
     gitmodules |-> {<<Section, Key("path", "picorv32")>>,
                     <<Key("path", "x"), Section>> \o PQCleanSection
                       \o <<Section, Key("path", "picorv32")>>},
     notices |-> {[fips202 |-> "digest-2", cctv |-> "digest-1"], [cctv |-> "digest-1"]},
     engines |-> {[python |-> "3.12"]},
     workflows |-> {Ci(<<Line("uses", "cache", "v4", "")>>),
                    Ci(<<Line("uses", "cache", "sha-new", ""),
                         Line("uses", "checkout", "sha-new", "v8")>>),
                    Ci(<<Line("repository", "sby", "", ""), Line("pip", "click", "", ""),
                         Other, Other, Other, Line("ref", "", "sha-mcy", "")>>),
                    Ci(<<Line("repository", "sby", "", ""), Line("ref", "", "main", ""),
                         Other, Line("ref", "", "sha-new", ""), Line("ref", "", "sha-mcy", "")>>)},
     release |-> {[BaseRelease EXCEPT !.as_of = "d2"],
                  [BaseRelease EXCEPT !.schedule = <<1, 3, 2, 3>>],
                  [BaseRelease EXCEPT !.contract_status = "executed"],
                  [BaseRelease EXCEPT !.gates = <<>>],
                  [BaseRelease EXCEPT !.user_area_mm2 = 10]},
     package |-> {[BasePackage EXCEPT !.qfn_pinout[2].name.n = 1, !.qfn_pinout[4].name.n = 0],
                  [BasePackage EXCEPT !.logical_io[1].qfn_pin = 2],
                  [BasePackage EXCEPT !.qfn_pinout[2].name.n = 1, !.qfn_pinout[4].name.n = 0,
                                      !.logical_io[1].qfn_pin = 2, !.logical_io[2].qfn_pin = 3],
                  [BasePackage EXCEPT !.qfn_pinout[6].notes = "bypass"],
                  [BasePackage EXCEPT !.logical_io[2].pad = <<"110", "0", 1>>],
                  [BasePackage EXCEPT !.package_status = "frozen"],
                  [BasePackage EXCEPT !.qfn_pinout[1].name = [kind |-> "gpio", n |-> 1]]},
     rtl |-> {{"core.sv", "soc.sv", "new.sv"}}]

MCBaseLinks == [PQClean |-> "sha-old"]

(* One row and less, the two targets of the decision, and a capacity that  *)
(* no macro divides; a bus narrower than the words, one that no 32-bit     *)
(* word tiles, and one of two words.                                       *)
MCT1Args ==
    {[target |-> kib * 1024, bus_bits |-> bits, gap |-> gap] :
       kib \in {1, 32, 40, 64}, bits \in {8, 24, 32, 64},
       gap \in {Sram!NoGap, [channel_x |-> 20, channel_y |-> 30, margin |-> 100]}}
=============================================================================
