------------------------------ MODULE Release ------------------------------
(***************************************************************************)
(* The release evidence of the repository: a checkout in which inputs are  *)
(* edited, submodules are bumped and initialised, the generated documents  *)
(* are rewritten and everything is committed, and the gates of the CI      *)
(* workflows over a commit: gen_sbom.py --check, validate_fabrication.py,  *)
(* gen_fabrication_artifacts.py --check and sram_area.check.               *)
(*                                                                         *)
(* A commit can be verified in three places: in the checkout it was made   *)
(* in, in the fresh clone of a workflow (no workflow initialises the       *)
(* submodules) and in an unpacked archive without git.                     *)
(***************************************************************************)
EXTENDS Integers, Sequences, FiniteSets

CONSTANTS
    Sha, NoticeFiles, Declared,                         \* of Sbom
    PINS, GPIOS, RESET_PIN, VSS_PIN, GPIO0_PIN, CLOCK_GPIO, SIGNALS,
    ATE_REQUIRED, GATES, MIN_BLOCKERS,                  \* of FabricationContract
    BaseTree,     \* the inputs of the first commit
    Variants,     \* field |-> the values an edit may give it
    MaxEdits,     \* bound on the number of edits
    BaseLinks,    \* submodule path |-> the commit it is pinned to at first
    NewSha,       \* the commit a submodule is bumped to
    T1Args        \* the arguments sram_area.py is run with

Bill == INSTANCE Sbom
Contract == INSTANCE FabricationContract
Sram == INSTANCE SramArea

(* What the inputs are: the rows of a package manifest are sequences, a    *)
(* pad name is a kind with a number, and the planner is asked for a number *)
(* of bytes over a bus (argparse would also take a negative one).          *)
Packages ==
    {BaseTree.package} \cup
        IF "package" \in DOMAIN Variants THEN Variants.package ELSE {}

IsSequence(s) == Len(s) \in Nat /\ DOMAIN s = 1 .. Len(s)
ASSUME InputsAssumption ==
    /\ PINS \in Nat /\ GPIOS \in Nat
    /\ "package" \in DOMAIN BaseTree
    /\ \A p \in Packages :
        /\ IsSequence(p.qfn_pinout) /\ IsSequence(p.logical_io)
        /\ \A i \in DOMAIN p.qfn_pinout :
               p.qfn_pinout[i].name \in [kind : STRING, n : Nat]
    /\ \A a \in T1Args :
        /\ a.target \in Nat /\ a.bus_bits \in Nat \ {0}
        /\ a.gap \in [channel_x : Nat, channel_y : Nat, margin : Nat]

(* git gives a submodule one path line, in a section of its own, and a     *)
(* gitlink that is a commit.                                               *)
Gitmodules ==
    {BaseTree.gitmodules} \cup
        IF "gitmodules" \in DOMAIN Variants THEN Variants.gitmodules ELSE {}

IsCommit(sha) == sha # Bill!NoText /\ sha # "unpinned"
ASSUME SubmodulesAssumption ==
    /\ "gitmodules" \in DOMAIN BaseTree
    /\ \A text \in Gitmodules :
        /\ IsSequence(text)
        /\ \A j \in DOMAIN text :
               text[j].key = "path" /\ text[j].value \in DOMAIN BaseLinks =>
                 \E i \in DOMAIN text :
                   /\ text[i].kind = "section"
                   /\ j \in Bill!Given(text, i, "path")
                   /\ \A k \in Bill!Given(text, i, "path") : k <= j
    /\ \A path \in DOMAIN BaseLinks : IsCommit(BaseLinks[path])
    /\ IsCommit(NewSha)

VARIABLES
    tree,       \* the input files of the working tree
    index,      \* the gitlinks of the index
    populated,  \* the submodules initialised in the checkout
    docs,       \* the generated files of the working tree, [sbom, csv]
    head,       \* the commit at HEAD: [tree, links, docs]
    edits,      \* number of edits made
    verdict,    \* place |-> exit statuses of the gates on HEAD, for as long as
                \* the files of the checkout stay as they are
    report,     \* the last output of sram_area.py
    fresh       \* the documents regenerated since an input of theirs changed

vars == <<tree, index, populated, docs, head, edits, verdict, report, fresh>>

Places == {"checkout", "clone", "archive"}
NotRun == [sbom |-> -1, contract |-> -1, csv |-> -1, sram |-> -1]
Unverified == [p \in Places |-> NotRun]
NoReport == [raised |-> FALSE, plans |-> <<>>]

GitAt(place) ==
    CASE place = "checkout" -> [here |-> TRUE, head |-> head.links, index |-> index,
                                populated |-> populated]
      [] place = "clone" -> [here |-> TRUE, head |-> head.links, index |-> head.links,
                             populated |-> {}]
      [] place = "archive" -> [here |-> FALSE, head |-> <<>>, index |-> <<>>,
                               populated |-> {}]

Clean == tree = head.tree /\ index = head.links /\ docs = head.docs

Init ==
    LET git == [here |-> TRUE, head |-> BaseLinks, index |-> BaseLinks, populated |-> {}]
        made == [sbom |-> Bill!main_write(BaseTree, git, Bill!Missing),
                 csv |-> Contract!generate(BaseTree.package)]
    IN /\ tree = BaseTree /\ index = BaseLinks /\ populated = {} /\ docs = made
       /\ head = [tree |-> BaseTree, links |-> BaseLinks, docs |-> made]
       /\ edits = 0 /\ verdict = Unverified /\ report = NoReport
       /\ fresh = {"sbom", "csv"}

(***************************************************************************)
(* The work on the checkout.                                               *)
(***************************************************************************)
Edit ==
    \E field \in DOMAIN Variants : \E value \in Variants[field] :
      /\ edits < MaxEdits
      /\ tree[field] # value
      /\ tree' = [tree EXCEPT ![field] = value]
      /\ edits' = edits + 1
      /\ fresh' = {} /\ report' = NoReport /\ verdict' = Unverified
      /\ UNCHANGED <<index, populated, docs, head>>

(* git submodule update --init, and deinit.                                *)
Populate(path) ==
    /\ path \in DOMAIN index
    /\ populated' = IF path \in populated THEN populated \ {path} ELSE populated \cup {path}
    /\ fresh' = fresh \ {"sbom"} /\ report' = NoReport
    /\ verdict' = [verdict EXCEPT !["checkout"] = NotRun]
    /\ UNCHANGED <<tree, index, docs, head, edits>>

(* A new commit is checked out in the submodule and staged.                *)
Bump(path) ==
    /\ path \in populated
    /\ index[path] # NewSha
    /\ index' = [index EXCEPT ![path] = NewSha]
    /\ fresh' = fresh \ {"sbom"} /\ report' = NoReport /\ verdict' = Unverified
    /\ UNCHANGED <<tree, populated, docs, head, edits>>

(* python3 tools/gen_sbom.py                                               *)
WriteSbom ==
    /\ docs' = [docs EXCEPT !.sbom = Bill!main_write(tree, GitAt("checkout"), @)]
    /\ fresh' = fresh \cup {"sbom"} /\ report' = NoReport /\ verdict' = Unverified
    /\ UNCHANGED <<tree, index, populated, head, edits>>

(* python3 tools/gen_fabrication_artifacts.py, stopped after "written"     *)
(* files.                                                                  *)
WriteFabrication(written) ==
    /\ docs' = [docs EXCEPT !.csv = Contract!fabrication_write(tree.package, @, written)]
    /\ fresh' = IF written = Len(Contract!Files) THEN fresh \cup {"csv"} ELSE fresh
    /\ report' = NoReport /\ verdict' = Unverified
    /\ UNCHANGED <<tree, index, populated, head, edits>>

(* git commit -a.  The SBOM reads its gitlinks from HEAD, so a commit that *)
(* moves one changes an input of it.                                       *)
Commit ==
    /\ ~Clean
    /\ head' = [tree |-> tree, links |-> index, docs |-> docs]
    /\ verdict' = Unverified
    /\ fresh' = IF index = head.links THEN fresh ELSE fresh \ {"sbom"}
    /\ report' = NoReport
    /\ UNCHANGED <<tree, index, populated, docs, edits>>

(***************************************************************************)
(* The tools that only read.                                               *)
(***************************************************************************)
Gates(place) ==
    [sbom |-> Bill!main_check(head.tree, GitAt(place), head.docs.sbom),
     contract |-> Contract!validate_main(head.tree, FALSE),
     csv |-> Contract!fabrication_check(head.tree.package, head.docs.csv),
     sram |-> Sram!check(head.tree.release.user_area_mm2)]

(* Run again on the same files, they answer the same.                      *)
Verify(place) ==
    /\ verdict[place] = NotRun
    /\ place = "checkout" => Clean
    /\ verdict' = [verdict EXCEPT ![place] = Gates(place)]
    /\ report' = NoReport
    /\ UNCHANGED <<tree, index, populated, docs, head, edits, fresh>>

(* sram_area.py reads nothing but its arguments, so it is run in the first *)
(* state only.                                                             *)
Untouched ==
    Clean /\ edits = 0 /\ populated = {} /\ index = BaseLinks
      /\ verdict = Unverified

PlanMemory ==
    \E a \in T1Args :
      /\ Untouched
      /\ report' = Sram!build_report(a.target, a.bus_bits, a.gap)
      /\ UNCHANGED <<tree, index, populated, docs, head, edits, verdict, fresh>>

Next ==
    \/ Edit
    \/ \E path \in DOMAIN BaseLinks : Populate(path) \/ Bump(path)
    \/ WriteSbom
    \/ \E written \in 1..Len(Contract!Files) : WriteFabrication(written)
    \/ Commit
    \/ \E place \in Places : Verify(place)
    \/ PlanMemory

Spec == Init /\ [][Next]_vars

(***************************************************************************)
(* Properties.                                                             *)
(***************************************************************************)
Passed(place, gate) == verdict[place][gate] = 0

Listed(bill, kind) ==
    {<<c.ref[2], c.ref[3]>> : c \in {d \in bill.components : d.ref[1] = kind}}

(* The lines of workflow i below line j in which a checkout may name its   *)
(* commit.                                                                 *)
RefsBelow(t, i, j) ==
    {k \in DOMAIN t.workflows[i].lines :
       /\ k \in (j + 1)..(j + Bill!ROW_WINDOW)
       /\ t.workflows[i].lines[k].kind = "ref" /\ t.workflows[i].lines[k].at \in Sha}

(* What the workflows use and install: each action at its commit or as     *)
(* unpinned, each package installed by pip at a version or by apt, each    *)
(* container and each Python, and the repository of each checkout at the   *)
(* first commit the next lines name.                                       *)
WorkflowsListed(bill, t) ==
    \A i \in DOMAIN t.workflows : \A j \in DOMAIN t.workflows[i].lines :
      LET l == t.workflows[i].lines[j]
      IN /\ l.kind = "uses" /\ l.at \notin Sha => <<l.name, l.at>> \in bill.unpinned
         /\ l.kind = "uses" /\ l.at \in Sha /\ l.tag # Bill!NoText =>
              <<l.name, l.at>> \in Listed(bill, "action")
         /\ l.kind = "pip" /\ l.at # Bill!NoText => <<l.name, l.at>> \in Listed(bill, "pypi")
         /\ l.kind = "apt" => <<l.name, Bill!NoText>> \in Listed(bill, "toolchain/apt")
         /\ l.kind = "container" => <<l.name, Bill!NoText>> \in Listed(bill, "container")
         /\ l.kind = "python" => <<"python", l.name>> \in Listed(bill, "toolchain")
         /\ l.kind = "repository" =>
              \A k \in RefsBelow(t, i, j) :
                (\A m \in RefsBelow(t, i, j) : k <= m) =>
                  <<l.name, t.workflows[i].lines[k].at>> \in Listed(bill, "repo")

(* The bill says what it should of a tree with these gitlinks.             *)
Accounts(bill, t, links) ==
    LET paths == {t.gitmodules[i].value :
                    i \in {j \in DOMAIN t.gitmodules : t.gitmodules[j].key = "path"}}
    IN /\ Listed(bill, "npm") =
            {<<e.name, e.version>> : e \in {l \in t.lock : l.dir = "node_modules"}}
       /\ {<<p, links[p]>> : p \in paths \cap DOMAIN links} \subseteq Listed(bill, "submodule")
       /\ \A f \in DOMAIN NoticeFiles \cap DOMAIN t.notices :
            \E c \in bill.components : /\ c.ref[1] = "file" /\ c.ref[2] = f
                                       /\ <<"sha256", t.notices[f]>> \in c.properties
       /\ \A n \in DOMAIN t.engines : <<n, t.engines[n]>> \in Listed(bill, "toolchain")
       /\ WorkflowsListed(bill, t)
       /\ \A c, d \in bill.components : c.ref = d.ref => c = d
       /\ \A c \in bill.components : (c.licenses = {}) # (c.reason = Bill!NoText)

(***************************************************************************)
(* A commit whose SBOM gate passed is accounted for: the SBOM lists every  *)
(* npm package locked under node_modules at its locked version and no      *)
(* other, every submodule that has a gitlink at exactly the gitlink of     *)
(* that commit, every derived file at its current digest, every runtime of *)
(* package.json, and of the workflows every action (at its commit, or as   *)
(* unpinned), every package pip installs at a version or apt installs,     *)
(* every container and Python, and every repository that is checked out at *)
(* a commit named within four lines; its references are unique and each    *)
(* component carries exactly one license decision.                         *)
(*                                                                         *)
(* A green gate does not say that a workflow uses nothing else.  An action *)
(* at a commit without a version comment, a pip install without a version, *)
(* a Node that setup-node installs, and a repository whose commit stands   *)
(* five lines below or that is checked out at a branch are on no list, and *)
(* the gate is green with them.                                            *)
(***************************************************************************)
GreenMeansAccounted ==
    (\E place \in Places : Passed(place, "sbom")) =>
      Accounts(head.docs.sbom, head.tree, head.links)

(***************************************************************************)
(* A commit that passed the contract gate and the CSV gate is wired as its *)
(* files say: every row of the committed GPIO map names a pin whose row in *)
(* the committed pinout carries that GPIO, no two signals share a pin, the *)
(* pad of each row is in the safe mode of its direction, and reset, clock, *)
(* the first GPIO and the analog ground sit where the shell expects them.  *)
(***************************************************************************)
GreenMeansWired ==
    \A place \in Places :
      Passed(place, "contract") /\ Passed(place, "csv") =>
        LET pinout == Contract!Values(head.docs.csv[1])
            map == Contract!Values(head.docs.csv[2])
        IN /\ \A row \in map :
                /\ \E pin \in pinout : pin.pin = row.qfn_pin /\ pin.name = Contract!Gpio(row.gpio)
                /\ row.pad = Contract!SafePad[row.direction]
           /\ \A r, s \in map : r.qfn_pin = s.qfn_pin => r = s
           /\ \A signal \in SIGNALS : \E row \in map : row.signal = signal
           /\ \E row \in map : row.signal = "host_clk" /\ row.gpio = CLOCK_GPIO
           /\ \E pin \in pinout : pin.pin = RESET_PIN /\ pin.name.kind = "resetb"
           /\ \E pin \in pinout : pin.pin = VSS_PIN /\ pin.name.kind = "vssa1"
           /\ \E pin \in pinout : pin.pin = GPIO0_PIN /\ pin.name = Contract!Gpio(0)

(***************************************************************************)
(* Regeneration settles: once both generators ran to their end after the   *)
(* last change of what they read, with no submodule initialised, the       *)
(* commit passes both drift gates in a fresh clone, unless the inputs make *)
(* the SBOM generator refuse them.                                         *)
(***************************************************************************)
RegenerationSettles ==
    /\ fresh = {"sbom", "csv"} /\ populated = {} /\ Clean
    /\ verdict["clone"] # NotRun
    /\ ~Bill!build_bom(tree, GitAt("clone")).raised
    => Passed("clone", "sbom") /\ Passed("clone", "csv")

(***************************************************************************)
(* Every plan the T1 report holds covers its capacity with no row to       *)
(* spare, covers the data bus, and has a box of full rows and columns that *)
(* is no smaller than its macros; the report is ordered by area with the   *)
(* skipped macros last, and loses no macro.                                *)
(***************************************************************************)
PlansCover ==
    report # NoReport /\ ~report.raised =>
      LET plans == report.plans
          macro(p) == Sram!MACROS[CHOOSE i \in DOMAIN Sram!MACROS : Sram!MACROS[i].key = p.macro]
          kept == {i \in DOMAIN plans : ~plans[i].skipped}
      IN /\ {plans[i].macro : i \in DOMAIN plans} =
              {Sram!MACROS[i].key : i \in DOMAIN Sram!MACROS}
         /\ \A i, j \in DOMAIN plans : i < j /\ j \in kept =>
              i \in kept /\ plans[i].area <= plans[j].area
         /\ \A i \in kept :
              LET p == plans[i]
                  row == p.macros_per_row * Sram!capacity_bytes(macro(p))
              IN /\ p.realized = p.rows * row
                 /\ p.realized >= p.target /\ p.realized - row < p.target
                 /\ p.macros_per_row * macro(p).word_bits >= p.bus_bits
                 /\ p.box # Sram!NoBox =>
                      /\ p.instances % p.box.columns = 0
                      /\ p.box.width * p.box.height >= p.area

(***************************************************************************)
(* Two runs at the same commit agree: the header of gen_sbom.py promises   *)
(* that "two runs at the same commit produce byte-identical output and     *)
(* --check is a real drift gate", so the SBOM gate cannot pass in one      *)
(* checkout of a commit and fail in another.  It can: the document records *)
(* which submodules are initialised in the working tree.                   *)
(***************************************************************************)
SameCommitSameSbom ==
    verdict["checkout"] # NotRun /\ verdict["clone"] # NotRun =>
      verdict["checkout"].sbom = verdict["clone"].sbom
=============================================================================
