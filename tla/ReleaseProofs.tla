---------------------------- MODULE ReleaseProofs ---------------------------
(***************************************************************************)
(* Proofs about the release evidence: for every set of inputs and edits,   *)
(* any number of submodules, edits and commits, every size of the package, *)
(* and every capacity and bus width of a memory plan.                      *)
(***************************************************************************)
EXTENDS Release, TLAPS, FiniteSetTheorems, SequenceTheorems,
        WellFoundedInduction

(* The inductive invariant.  The documents are a record of the two, the    *)
(* verdicts one for each place, and the package manifests are those of the *)
(* inputs.                                                                 *)
Shapes ==
    /\ docs = [sbom |-> docs.sbom, csv |-> docs.csv]
    /\ head = [tree |-> head.tree, links |-> head.links, docs |-> head.docs]
    /\ verdict = [p \in Places |-> verdict[p]]
    /\ "package" \in DOMAIN tree
    /\ tree.package \in Packages /\ head.tree.package \in Packages

(* A fresh document is what its generator would write now, if it does not  *)
(* refuse the inputs.                                                      *)
FreshSbom ==
    LET built == Bill!build_bom(tree, GitAt("checkout"))
    IN  "sbom" \in fresh /\ ~built.raised => docs.sbom = built.bom
FreshCsv ==
    "csv" \in fresh =>
        \A f \in DOMAIN Contract!Files :
            docs.csv[f] = Contract!generate(tree.package)[f]

(* A verdict that stands is what the gates would say now.                  *)
Standing == \A p \in Places : verdict[p] = NotRun \/ verdict[p] = Gates(p)

Planned ==
    report = NoReport \/ \E a \in T1Args :
        report = Sram!build_report(a.target, a.bus_bits, a.gap)

Inv == Shapes /\ FreshSbom /\ FreshCsv /\ Standing /\ Planned
-----------------------------------------------------------------------------
(* A run of the SBOM generator leaves what it built, unless it refused.    *)
LEMMA WritesSbom ==
    ASSUME NEW t, NEW git, NEW file, ~Bill!build_bom(t, git).raised
    PROVE  Bill!main_write(t, git, file) = Bill!build_bom(t, git).bom
  BY DEF Bill!main_write

(* A run of the CSV generator keeps the files that were right, and a whole *)
(* run makes all of them right.                                            *)
LEMMA WritesCsv ==
    ASSUME NEW p, NEW disk, NEW written,
           \/ written = Len(Contract!Files)
           \/ \A f \in DOMAIN Contract!Files :
                  disk[f] = Contract!generate(p)[f]
    PROVE  \A f \in DOMAIN Contract!Files :
               Contract!fabrication_write(p, disk, written)[f]
                   = Contract!generate(p)[f]
<1>1. DOMAIN Contract!Files = 1 .. 3 /\ Len(Contract!Files) = 3
  BY DEF Contract!Files
<1>2. SUFFICES ASSUME NEW f \in DOMAIN Contract!Files
               PROVE  Contract!fabrication_write(p, disk, written)[f]
                          = Contract!generate(p)[f]
  OBVIOUS
<1>3. Contract!fabrication_write(p, disk, written)[f]
          = IF f <= written THEN Contract!generate(p)[f] ELSE disk[f]
  BY DEF Contract!fabrication_write
<1>4. f <= 3
  BY <1>1
<1>5. QED
  BY <1>1, <1>3, <1>4

(* What the gates see of the checkout.                                     *)
LEMMA SameGit ==
    ASSUME head'.links = head.links, index' = index, populated' = populated
    PROVE  \A place : GitAt(place)' = GitAt(place)
  BY DEF GitAt

(* Only the view of the checkout depends on what is populated and staged.  *)
LEMMA SameGates ==
    ASSUME head' = head,
           NEW place \in Places,
           place = "checkout" => index' = index /\ populated' = populated
    PROVE  Gates(place)' = Gates(place)
<1>1. GitAt(place)' = GitAt(place)
  BY DEF GitAt, Places
<1>2. QED
  BY <1>1 DEF Gates
-----------------------------------------------------------------------------
(* The first commit: its documents have just been generated.               *)
LEMMA InitInv == Init => Inv
<1> SUFFICES ASSUME Init PROVE Inv
  OBVIOUS
<1> DEFINE git == [here |-> TRUE, head |-> BaseLinks, index |-> BaseLinks,
                   populated |-> {}]
<1>1. /\ tree = BaseTree /\ index = BaseLinks /\ populated = {}
      /\ docs = [sbom |-> Bill!main_write(BaseTree, git, Bill!Missing),
                 csv |-> Contract!generate(BaseTree.package)]
      /\ head = [tree |-> BaseTree, links |-> BaseLinks, docs |-> docs]
      /\ verdict = Unverified /\ report = NoReport
  BY DEF Init
<1>2. GitAt("checkout") = git
  BY <1>1 DEF GitAt
<1> HIDE DEF git
<1>3. Shapes
  BY <1>1, InputsAssumption DEF Shapes, Unverified, Packages
<1>4. FreshSbom
  BY <1>1, <1>2, WritesSbom DEF FreshSbom
<1>5. FreshCsv
  BY <1>1 DEF FreshCsv
<1>6. Standing
  BY <1>1 DEF Standing, Unverified
<1>7. QED
  BY <1>1, <1>3, <1>4, <1>5, <1>6 DEF Inv, Planned

(* An edit makes every document stale.                                     *)
LEMMA EditStep == Inv /\ Edit => Inv'
<1> SUFFICES ASSUME Inv, Edit PROVE Inv'
  OBVIOUS
<1>1. PICK field \in DOMAIN Variants : \E value \in Variants[field] :
          tree' = [tree EXCEPT ![field] = value]
  BY DEF Edit
<1>2. /\ fresh' = {} /\ report' = NoReport /\ verdict' = Unverified
      /\ docs' = docs /\ head' = head
  BY DEF Edit
<1>3. "package" \in DOMAIN tree' /\ tree'.package \in Packages
  <2>1. CASE field = "package"
    BY <1>1, <2>1 DEF Inv, Shapes, Packages
  <2>2. CASE field # "package"
    BY <1>1, <2>2 DEF Inv, Shapes
  <2>3. QED
    BY <2>1, <2>2
<1>4. Shapes'
  BY <1>2, <1>3 DEF Inv, Shapes, Unverified
<1>5. FreshSbom' /\ FreshCsv'
  BY <1>2 DEF FreshSbom, FreshCsv
<1>6. Standing'
  BY <1>2 DEF Standing, Unverified
<1>7. QED
  BY <1>2, <1>4, <1>5, <1>6 DEF Inv, Planned

(* Initialising a submodule is seen by the checkout only.                  *)
LEMMA PopulateStep ==
    ASSUME Inv, NEW path, Populate(path)
    PROVE  Inv'
<1>1. /\ fresh' = fresh \ {"sbom"} /\ report' = NoReport
      /\ verdict' = [verdict EXCEPT !["checkout"] = NotRun]
      /\ tree' = tree /\ index' = index /\ docs' = docs /\ head' = head
  BY DEF Populate
<1>2. Shapes'
  BY <1>1 DEF Inv, Shapes
<1>3. FreshSbom'
  BY <1>1 DEF FreshSbom
<1>4. FreshCsv'
  BY <1>1 DEF Inv, FreshCsv
<1>5. Standing'
  <2>1. SUFFICES ASSUME NEW p \in Places
                 PROVE  verdict'[p] = NotRun \/ verdict'[p] = Gates(p)'
    BY DEF Standing
  <2>2. CASE p = "checkout"
    BY <1>1, <2>2 DEF Inv, Shapes
  <2>3. CASE p # "checkout"
    <3>1. verdict'[p] = verdict[p]
      BY <1>1, <2>3 DEF Inv, Shapes
    <3>2. Gates(p)' = Gates(p)
      BY <1>1, <2>3, SameGates
    <3>3. QED
      BY <3>1, <3>2 DEF Inv, Standing
  <2>4. QED
    BY <2>2, <2>3
<1>6. QED
  BY <1>1, <1>2, <1>3, <1>4, <1>5 DEF Inv, Planned

(* A bump moves a gitlink, which the SBOM reads.                           *)
LEMMA BumpStep ==
    ASSUME Inv, NEW path, Bump(path)
    PROVE  Inv'
<1>1. /\ fresh' = fresh \ {"sbom"} /\ report' = NoReport
      /\ verdict' = Unverified
      /\ tree' = tree /\ docs' = docs /\ head' = head
  BY DEF Bump
<1>2. Shapes'
  BY <1>1 DEF Inv, Shapes, Unverified
<1>3. FreshSbom'
  BY <1>1 DEF FreshSbom
<1>4. FreshCsv'
  BY <1>1 DEF Inv, FreshCsv
<1>5. Standing'
  BY <1>1 DEF Standing, Unverified
<1>6. QED
  BY <1>1, <1>2, <1>3, <1>4, <1>5 DEF Inv, Planned

(* The SBOM generator runs on what it reads.                               *)
LEMMA WriteSbomStep == Inv /\ WriteSbom => Inv'
<1> SUFFICES ASSUME Inv, WriteSbom PROVE Inv'
  OBVIOUS
<1>1. /\ fresh' = fresh \cup {"sbom"} /\ report' = NoReport
      /\ verdict' = Unverified /\ head' = head /\ tree' = tree
      /\ index' = index /\ populated' = populated
      /\ docs' = [docs EXCEPT !.sbom =
                     Bill!main_write(tree, GitAt("checkout"), @)]
  BY DEF WriteSbom
<1>2. Shapes'
  BY <1>1 DEF Inv, Shapes, Unverified
<1>3. FreshSbom'
  <2>1. GitAt("checkout")' = GitAt("checkout")
    BY <1>1, SameGit
  <2>2. docs'.sbom = Bill!main_write(tree, GitAt("checkout"), docs.sbom)
    BY <1>1 DEF Inv, Shapes
  <2>3. QED
    BY <1>1, <2>1, <2>2, WritesSbom DEF FreshSbom
<1>4. FreshCsv'
  <2>1. docs'.csv = docs.csv
    BY <1>1 DEF Inv, Shapes
  <2>2. QED
    BY <1>1, <2>1 DEF Inv, FreshCsv
<1>5. Standing'
  BY <1>1 DEF Standing, Unverified
<1>6. QED
  BY <1>1, <1>2, <1>3, <1>4, <1>5 DEF Inv, Planned

(* The CSV generator runs, to its end or not.                              *)
LEMMA WriteFabricationStep ==
    ASSUME Inv, NEW written, WriteFabrication(written)
    PROVE  Inv'
<1>1. /\ report' = NoReport /\ verdict' = Unverified
      /\ head' = head /\ tree' = tree
      /\ index' = index /\ populated' = populated
      /\ docs' = [docs EXCEPT !.csv =
                     Contract!fabrication_write(tree.package, @, written)]
  BY DEF WriteFabrication
<1>2. /\ fresh' \subseteq fresh \cup {"csv"}
      /\ "csv" \in fresh' =>
             written = Len(Contract!Files) \/ "csv" \in fresh
  BY DEF WriteFabrication
<1>3. Shapes'
  BY <1>1 DEF Inv, Shapes, Unverified
<1>4. FreshSbom'
  <2>1. GitAt("checkout")' = GitAt("checkout")
    BY <1>1, SameGit
  <2>2. docs'.sbom = docs.sbom
    BY <1>1 DEF Inv, Shapes
  <2>3. QED
    BY <1>1, <1>2, <2>1, <2>2 DEF Inv, FreshSbom
<1>5. FreshCsv'
  <2>1. docs'.csv = Contract!fabrication_write(tree.package, docs.csv, written)
    BY <1>1 DEF Inv, Shapes
  <2>2. QED
    BY <1>1, <1>2, <2>1, WritesCsv DEF Inv, FreshCsv
<1>6. Standing'
  BY <1>1 DEF Standing, Unverified
<1>7. QED
  BY <1>1, <1>3, <1>4, <1>5, <1>6 DEF Inv, Planned

(* A commit that moves a gitlink moves what the SBOM reads.                *)
LEMMA CommitStep == Inv /\ Commit => Inv'
<1> SUFFICES ASSUME Inv, Commit PROVE Inv'
  OBVIOUS
<1>1. /\ head' = [tree |-> tree, links |-> index, docs |-> docs]
      /\ verdict' = Unverified /\ report' = NoReport
      /\ fresh' = IF index = head.links THEN fresh ELSE fresh \ {"sbom"}
      /\ tree' = tree /\ index' = index /\ populated' = populated
      /\ docs' = docs
  BY DEF Commit
<1>2. Shapes'
  BY <1>1 DEF Inv, Shapes, Unverified
<1>3. FreshSbom'
  <2>1. CASE index = head.links
    <3>1. GitAt("checkout")' = GitAt("checkout")
      BY <1>1, <2>1, SameGit
    <3>2. QED
      BY <1>1, <2>1, <3>1 DEF Inv, FreshSbom
  <2>2. CASE index # head.links
    BY <1>1, <2>2 DEF FreshSbom
  <2>3. QED
    BY <2>1, <2>2
<1>4. FreshCsv'
  BY <1>1 DEF Inv, FreshCsv
<1>5. Standing'
  BY <1>1 DEF Standing, Unverified
<1>6. QED
  BY <1>1, <1>2, <1>3, <1>4, <1>5 DEF Inv, Planned

(* A verdict is what the gates say.                                        *)
LEMMA VerifyStep ==
    ASSUME Inv, NEW place \in Places, Verify(place)
    PROVE  Inv'
<1>1. /\ verdict' = [verdict EXCEPT ![place] = Gates(place)]
      /\ report' = NoReport /\ head' = head /\ fresh' = fresh
      /\ tree' = tree /\ index' = index /\ populated' = populated
      /\ docs' = docs
  BY DEF Verify
<1>2. Shapes'
  BY <1>1 DEF Inv, Shapes
<1>3. FreshSbom' /\ FreshCsv'
  <2>1. GitAt("checkout")' = GitAt("checkout")
    BY <1>1, SameGit
  <2>2. QED
    BY <1>1, <2>1 DEF Inv, FreshSbom, FreshCsv
<1>4. Standing'
  <2>1. SUFFICES ASSUME NEW p \in Places
                 PROVE  verdict'[p] = NotRun \/ verdict'[p] = Gates(p)'
    BY DEF Standing
  <2>2. Gates(p)' = Gates(p)
    BY <1>1, SameGates
  <2>3. verdict'[p] = IF p = place THEN Gates(place) ELSE verdict[p]
    BY <1>1 DEF Inv, Shapes
  <2>4. QED
    BY <2>2, <2>3 DEF Inv, Standing
<1>5. QED
  BY <1>1, <1>2, <1>3, <1>4 DEF Inv, Planned

(* The planner leaves the checkout alone.                                  *)
LEMMA PlanStep == Inv /\ PlanMemory => Inv'
<1> SUFFICES ASSUME Inv, PlanMemory PROVE Inv'
  OBVIOUS
<1>1. /\ tree' = tree /\ index' = index /\ populated' = populated
      /\ docs' = docs /\ head' = head /\ verdict' = verdict
      /\ fresh' = fresh
      /\ \E a \in T1Args :
            report' = Sram!build_report(a.target, a.bus_bits, a.gap)
  BY DEF PlanMemory
<1>2. Shapes'
  BY <1>1 DEF Inv, Shapes
<1>3. FreshSbom' /\ FreshCsv'
  <2>1. GitAt("checkout")' = GitAt("checkout")
    BY <1>1, SameGit
  <2>2. QED
    BY <1>1, <2>1 DEF Inv, FreshSbom, FreshCsv
<1>4. Standing'
  BY <1>1, SameGates DEF Inv, Standing
<1>5. QED
  BY <1>1, <1>2, <1>3, <1>4 DEF Inv, Planned

(* Every step keeps the invariant.                                         *)
LEMMA InvStep == Inv /\ [Next]_vars => Inv'
<1> SUFFICES ASSUME Inv, [Next]_vars PROVE Inv'
  OBVIOUS
<1>1. CASE UNCHANGED vars
  <2>1. /\ tree' = tree /\ index' = index /\ populated' = populated
        /\ docs' = docs /\ head' = head /\ verdict' = verdict
        /\ fresh' = fresh /\ report' = report
    BY <1>1 DEF vars
  <2>2. GitAt("checkout")' = GitAt("checkout")
    BY <2>1, SameGit
  <2>3. Standing'
    BY <2>1, SameGates DEF Inv, Standing
  <2>4. QED
    BY <2>1, <2>2, <2>3
       DEF Inv, Shapes, FreshSbom, FreshCsv, Planned
<1>2. CASE Next
  BY <1>2, EditStep, PopulateStep, BumpStep, WriteSbomStep,
     WriteFabricationStep, CommitStep, VerifyStep, PlanStep DEF Next
<1>3. QED
  BY <1>1, <1>2

(* The invariant holds throughout every behaviour.                         *)
LEMMA ReleaseInvariant == Spec => []Inv
  BY InitInv, InvStep, PTL DEF Spec
-----------------------------------------------------------------------------
(* Regeneration settles: once both generators ran to their end after the   *)
(* last change of what they read, with no submodule initialised, the       *)
(* commit passes both drift gates in a fresh clone (gen_sbom.py main,      *)
(* gen_fabrication_artifacts.py main).                                     *)
THEOREM RegenerationIsSettled == Spec => []RegenerationSettles
<1>1. Inv => RegenerationSettles
  <2> SUFFICES ASSUME Inv, fresh = {"sbom", "csv"}, populated = {}, Clean,
                      verdict["clone"] # NotRun,
                      ~Bill!build_bom(tree, GitAt("clone")).raised
               PROVE  Passed("clone", "sbom") /\ Passed("clone", "csv")
    BY DEF RegenerationSettles
  <2>1. tree = head.tree /\ docs = head.docs /\ index = head.links
    BY DEF Clean
  <2>2. GitAt("clone") = GitAt("checkout")
    BY <2>1 DEF GitAt
  <2>3. verdict["clone"] = Gates("clone")
    BY DEF Inv, Standing, Places
  <2>4. docs.sbom = Bill!build_bom(tree, GitAt("clone")).bom
    BY <2>2 DEF Inv, FreshSbom
  <2>5. Bill!build_bom(tree, GitAt("clone")).bom # Bill!Missing
    <3>1. Bill!build_bom(tree, GitAt("clone")).bom.root
              = Bill!collect_python(tree).root
      BY DEF Bill!build_bom
    <3>2. Bill!collect_python(tree).root[1] = "lca1"
      BY Zenon DEF Bill!collect_python
    <3>3. Bill!Missing.root[1] = ""
      BY Zenon DEF Bill!Missing, Bill!NoText
    <3>4. QED
      BY Zenon, <3>1, <3>2, <3>3
  <2>6. Bill!main_check(head.tree, GitAt("clone"), head.docs.sbom) = 0
    BY <2>1, <2>4, <2>5 DEF Bill!main_check
  <2>7. Contract!fabrication_check(head.tree.package, head.docs.csv) = 0
    BY <2>1 DEF Inv, FreshCsv, Contract!fabrication_check
  <2>8. QED
    BY <2>3, <2>6, <2>7 DEF Passed, Gates
<1>2. QED
  BY <1>1, ReleaseInvariant, PTL
-----------------------------------------------------------------------------
(* The modules that sort count as this one does.                           *)
LEMMA SameCount ==
    /\ \A S : Contract!Cardinality(S) = Cardinality(S)
    /\ \A S : Sram!Cardinality(S) = Cardinality(S)
<1>1. \A S : Contract!Cardinality(S) = Cardinality(S)
  BY Zenon DEF Contract!Cardinality, Cardinality
<1>2. \A S : Sram!Cardinality(S) = Cardinality(S)
  BY Zenon DEF Sram!Cardinality, Cardinality
<1>3. QED
  BY <1>1, <1>2

(* A total order of the numbers 1 to n, by the set of those earlier than   *)
(* each, and what it is for "order" to list the rows in it.                *)
TotalOrder(n, earlier) ==
    /\ earlier \in [1 .. n -> SUBSET (1 .. n)]
    /\ \A i \in 1 .. n : i \notin earlier[i]
    /\ \A i, j \in 1 .. n : i # j => i \in earlier[j] \/ j \in earlier[i]
    /\ \A i, j \in 1 .. n : i \in earlier[j] => earlier[i] \subseteq earlier[j]

Lists(order, n, rows, earlier, sorted) ==
    /\ order \in [1 .. n -> 1 .. n]
    /\ DOMAIN sorted = 1 .. n
    /\ \A p \in 1 .. n : sorted[p] = rows[order[p]]
    /\ \A i \in 1 .. n : \E p \in 1 .. n : order[p] = i
    /\ \A p, q \in 1 .. n : p < q => order[p] \in earlier[order[q]]

(* Sorting.  If "earlier" is a total order of the rows, their numbers of   *)
(* earlier rows are 0, ..., n - 1, so every row has its place and a row    *)
(* stands before another if it is earlier.                                 *)
LEMMA Sorting ==
    ASSUME NEW n \in Nat, NEW rows, DOMAIN rows = 1 .. n,
           NEW earlier, TotalOrder(n, earlier)
    PROVE  \E order :
               Lists(order, n, rows, earlier, Contract!InOrder(rows, earlier))
<1> USE DEF TotalOrder
<1> DEFINE size(i) == Cardinality(earlier[i])
           place == [i \in 1 .. n |-> size(i) + 1]
           row(p) == CHOOSE i \in DOMAIN rows :
                         Contract!Cardinality(earlier[i]) = p - 1
           order == [p \in 1 .. n |-> row(p)]
<1>1. IsFiniteSet(1 .. n) /\ Cardinality(1 .. n) = n
  BY FS_Interval
<1>2. ASSUME NEW i \in 1 .. n
      PROVE  IsFiniteSet(earlier[i]) /\ size(i) \in 0 .. (n - 1)
  <2>1. /\ IsFiniteSet((1 .. n) \ {i})
        /\ Cardinality((1 .. n) \ {i}) = n - 1
    BY <1>1, FS_RemoveElement
  <2>2. earlier[i] \in SUBSET ((1 .. n) \ {i})
    OBVIOUS
  <2>3. IsFiniteSet(earlier[i]) /\ Cardinality(earlier[i]) <= n - 1
    BY <2>1, <2>2, FS_Subset
  <2>4. Cardinality(earlier[i]) \in Nat
    BY <2>3, FS_CardinalityType
  <2>5. QED
    BY <2>3, <2>4
<1>3. ASSUME NEW i \in 1 .. n, NEW j \in 1 .. n, i \in earlier[j]
      PROVE  size(i) < size(j)
  <2>1. earlier[i] \in SUBSET earlier[j] /\ earlier[i] # earlier[j]
    BY <1>3
  <2>2. size(i) <= size(j) /\ size(i) # size(j)
    BY <1>2, <2>1, FS_Subset
  <2>3. QED
    BY <1>2, <2>2
<1> HIDE DEF size
<1>4. \A i, j \in 1 .. n : size(i) = size(j) => i = j
  BY <1>2, <1>3
<1>5. place \in Injection(1 .. n, 1 .. n)
  <2>1. place \in [1 .. n -> 1 .. n]
    BY <1>2
  <2>2. \A i, j \in 1 .. n : place[i] = place[j] => i = j
    BY <1>2, <1>4
  <2>3. QED
    BY <2>1, <2>2 DEF Injection, IsInjective
<1>6. place \in Surjection(1 .. n, 1 .. n)
  BY <1>1, <1>5, FS_Injection
<1>7. \A p \in 1 .. n : \E i \in 1 .. n : size(i) = p - 1
  <2>1. \A p \in 1 .. n : \E i \in 1 .. n : place[i] = p
    BY <1>6 DEF Surjection
  <2>2. SUFFICES ASSUME NEW p \in 1 .. n
                 PROVE  \E i \in 1 .. n : size(i) = p - 1
    OBVIOUS
  <2>3. PICK i \in 1 .. n : place[i] = p
    BY <2>1
  <2>4. size(i) + 1 = p /\ size(i) \in Int
    BY <1>2, <2>3
  <2>5. QED
    BY <2>4
<1>8. ASSUME NEW p \in 1 .. n
      PROVE  row(p) \in 1 .. n /\ size(row(p)) = p - 1
  <2>1. PICK i \in DOMAIN rows : Contract!Cardinality(earlier[i]) = p - 1
    BY <1>7, SameCount DEF size
  <2>2. /\ row(p) \in DOMAIN rows
        /\ Contract!Cardinality(earlier[row(p)]) = p - 1
    BY Zenon, <2>1
  <2>3. QED
    BY <2>2, SameCount DEF size
<1>9. /\ DOMAIN Contract!InOrder(rows, earlier) = 1 .. n
      /\ \A p \in 1 .. n : Contract!InOrder(rows, earlier)[p] = rows[row(p)]
  <2>1. Contract!InOrder(rows, earlier) = [p \in DOMAIN rows |-> rows[row(p)]]
    BY Zenon DEF Contract!InOrder
  <2> HIDE DEF row
  <2>2. QED
    BY <2>1
<1> HIDE DEF row
<1>10. /\ order \in [1 .. n -> 1 .. n]
       /\ \A p \in 1 .. n : order[p] = row(p) /\ size(order[p]) = p - 1
  BY <1>8
<1> HIDE DEF order, place
<1>11. ASSUME NEW i \in 1 .. n
       PROVE  \E p \in 1 .. n : order[p] = i
  <2>1. size(i) + 1 \in 1 .. n
    BY <1>2
  <2>2. size(order[size(i) + 1]) = size(i) /\ order[size(i) + 1] \in 1 .. n
    BY <1>2, <1>10, <2>1
  <2>3. QED
    BY <1>4, <2>1, <2>2
<1>12. ASSUME NEW p \in 1 .. n, NEW q \in 1 .. n, p < q
       PROVE  order[p] \in earlier[order[q]]
  <2>1. size(order[p]) < size(order[q]) /\ order[p] # order[q]
    BY <1>10, <1>12
  <2>2. order[q] \notin earlier[order[p]]
    <3>1. SUFFICES ASSUME order[q] \in earlier[order[p]] PROVE FALSE
      OBVIOUS
    <3>2. size(order[q]) < size(order[p])
      BY <1>3, <1>10, <3>1
    <3>3. QED
      BY <1>10, <1>12, <3>2
  <2>3. QED
    BY <1>10, <2>1, <2>2
<1>13. Lists(order, n, rows, earlier, Contract!InOrder(rows, earlier))
  BY <1>9, <1>10, <1>11, <1>12 DEF Lists
<1>14. QED
  BY <1>13

(* Rows sorted by numbers: the same rows.                                  *)
LEMMA SortedRows ==
    ASSUME NEW n \in Nat, NEW rows, DOMAIN rows = 1 .. n,
           NEW key \in [1 .. n -> Int]
    PROVE  Contract!Values(Contract!SortRows(rows, key)) = Contract!Values(rows)
<1> DEFINE earlier == [i \in 1 .. n |->
               {j \in 1 .. n : key[j] < key[i] \/ (key[j] = key[i] /\ j < i)}]
<1>1. TotalOrder(n, earlier)
  BY DEF TotalOrder
<1>2. Contract!SortRows(rows, key) = Contract!InOrder(rows, earlier)
  BY DEF Contract!SortRows
<1> HIDE DEF earlier
<1> DEFINE sorted == Contract!InOrder(rows, earlier)
<1>3. PICK order : Lists(order, n, rows, earlier, sorted)
  BY <1>1, Sorting
<1> HIDE DEF sorted
<1>4. ASSUME NEW x \in Contract!Values(sorted)
      PROVE  x \in Contract!Values(rows)
  BY <1>3 DEF Contract!Values, Lists
<1>5. ASSUME NEW x \in Contract!Values(rows)
      PROVE  x \in Contract!Values(sorted)
  <2>1. PICK i \in 1 .. n : x = rows[i]
    BY DEF Contract!Values
  <2>2. PICK p \in 1 .. n : order[p] = i
    BY <1>3 DEF Lists
  <2>3. QED
    BY <1>3, <2>1, <2>2 DEF Contract!Values, Lists
<1>6. QED
  BY <1>2, <1>4, <1>5 DEF sorted
-----------------------------------------------------------------------------
(* A set of natural numbers has a least one.                               *)
LEMMA LeastExists ==
    ASSUME NEW S, S \subseteq Nat, S # {}
    PROVE  \E x \in S : \A y \in S : x <= y
<1> DEFINE R == {p \in Nat \X Nat : p[1] < p[2]}
<1>1. IsWellFoundedOn(R, Nat)
  BY Zenon, NatLessThanWellFounded DEF OpToRel
<1>2. \A x, y \in Nat : y < x => <<y, x>> \in R
  <2>1. SUFFICES ASSUME NEW x \in Nat, NEW y \in Nat, y < x
                 PROVE  <<y, x>> \in R
    BY Zenon
  <2>2. <<y, x>> \in Nat \X Nat /\ <<y, x>>[1] = y /\ <<y, x>>[2] = x
    OBVIOUS
  <2>3. QED
    BY <2>1, <2>2
<1> HIDE DEF R
<1>3. PICK x \in S : \A y \in S : ~(<<y, x>> \in R)
  BY Zenon, <1>1, WFMin
<1>4. ASSUME NEW y \in S
      PROVE  x <= y
  <2>1. x \in Nat /\ y \in Nat /\ ~(<<y, x>> \in R)
    BY <1>3
  <2>2. ~(y < x)
    BY Zenon, <1>2, <2>1
  <2>3. QED
    BY <2>1, <2>2
<1>5. QED
  BY <1>4

(* Places in a list: one of them is the last.                              *)
LEMMA LastExists ==
    ASSUME NEW n \in Nat, NEW S, S \subseteq 1 .. n, S # {}
    PROVE  \E x \in S : \A y \in S : y <= x
<1> DEFINE T == {n - i : i \in S}
<1>1. T \subseteq Nat /\ T # {}
  OBVIOUS
<1>2. PICK m \in T : \A k \in T : m <= k
  BY <1>1, LeastExists
<1>3. PICK x \in S : m = n - x
  OBVIOUS
<1>4. ASSUME NEW y \in S
      PROVE  y <= x
  <2>1. n - y \in T
    OBVIOUS
  <2>2. n - x <= n - y
    BY <1>2, <1>3, <2>1
  <2>3. QED
    BY <2>2
<1>5. QED
  BY <1>4

(* A column without duplicate values tells its rows apart.                 *)
LEMMA NoDuplicates ==
    ASSUME NEW n \in Nat, NEW s, DOMAIN s = 1 .. n,
           Contract!_duplicate_values(s) = {},
           NEW i \in 1 .. n, NEW j \in 1 .. n, s[i] = s[j]
    PROVE  i = j
<1>1. ASSUME NEW k \in 1 .. n, NEW l \in 1 .. n, l < k, s[k] = s[l]
      PROVE  FALSE
  BY <1>1 DEF Contract!_duplicate_values
<1>2. QED
  BY <1>1

(* The pin of a GPIO is that of the last row that carries its name.        *)
LEMMA PhysicalPin ==
    ASSUME NEW n \in Nat, NEW pinout, DOMAIN pinout = 1 .. n, NEW gpio,
           \E i \in 1 .. n : pinout[i].name = Contract!Gpio(gpio)
    PROVE  \E i \in 1 .. n :
               /\ pinout[i].name = Contract!Gpio(gpio)
               /\ pinout[i].pin = Contract!physical_pin_by_gpio(pinout, gpio)
<1> DEFINE places == {i \in DOMAIN pinout :
                         pinout[i].name = Contract!Gpio(gpio)}
           last == CHOOSE i \in places : \A j \in places : j <= i
<1>1. places \subseteq 1 .. n /\ places # {}
  OBVIOUS
<1>2. \E i \in places : \A j \in places : j <= i
  <2> HIDE DEF places
  <2> QED
    BY <1>1, LastExists
<1>3. last \in places
  <2> HIDE DEF places
  <2> QED
    BY <1>2
<1>4. Contract!physical_pin_by_gpio(pinout, gpio) = pinout[last].pin
  BY Zenon DEF Contract!physical_pin_by_gpio
<1> HIDE DEF last
<1>5. QED
  BY <1>3, <1>4

(* What the contract gate and the CSV gate say of the commit they pass.    *)
Wired(pinout, logical) ==
    /\ Contract!Values(Contract!Column(pinout, LAMBDA p : p.pin))
           = 1 .. PINS \cup {Contract!EP}
    /\ Contract!_duplicate_values(
           Contract!Column(pinout, LAMBDA p : p.pin)) = {}
    /\ Contract!Values(Contract!Column(logical, LAMBDA e : e.gpio))
           = 0 .. (GPIOS - 1)
    /\ Contract!_duplicate_values(
           Contract!Column(logical, LAMBDA e : e.gpio)) = {}
    /\ Contract!Values(Contract!Column(logical, LAMBDA e : e.signal)) = SIGNALS
    /\ \A e \in Contract!Values(logical) :
         /\ e.gpio \in Contract!GpioNames(pinout)
         /\ e.qfn_pin = Contract!physical_pin_by_gpio(pinout, e.gpio)
         /\ e.pad = Contract!SafePad[e.direction]
    /\ \E e \in Contract!Values(logical) :
         e.signal = "host_clk" /\ e.gpio = CLOCK_GPIO
    /\ \E p \in Contract!Values(pinout) :
         p.pin = RESET_PIN /\ p.name = [kind |-> "resetb", n |-> 0]
    /\ \E p \in Contract!Values(pinout) :
         p.pin = VSS_PIN /\ p.name = [kind |-> "vssa1", n |-> 0]
    /\ \E p \in Contract!Values(pinout) :
         p.pin = GPIO0_PIN /\ p.name = Contract!Gpio(0)

(* A contract check that passes establishes every part of Wired.            *)
LEMMA ContractSays ==
    ASSUME NEW t, Contract!validate_main(t, FALSE) = 0
    PROVE  Wired(t.package.qfn_pinout, t.package.logical_io)
<1> DEFINE E == Contract!PackageExpectations(t.release, t.package)
<1>1. Contract!Holds(E)
  BY DEF Contract!validate_main, Contract!validate_contract
<1>2. {"pins", "fixed_pins", "gpios", "signals", "physical", "pads", "clock"}
          \subseteq DOMAIN E
  BY DEF Contract!PackageExpectations
<1> HIDE DEF E
<1>3. /\ E["pins"] /\ E["fixed_pins"] /\ E["gpios"] /\ E["signals"]
      /\ E["physical"] /\ E["pads"] /\ E["clock"]
  BY <1>1, <1>2 DEF Contract!Holds
<1>4. QED
  BY <1>3 DEF E, Wired, Contract!PackageExpectations

(* The committed files hold the rows of the committed manifest.            *)
LEMMA FilesSay ==
    ASSUME NEW p \in Packages, NEW disk,
           Wired(p.qfn_pinout, p.logical_io),
           Contract!fabrication_check(p, disk) = 0
    PROVE  /\ Contract!Values(disk[1]) = Contract!Values(p.qfn_pinout)
           /\ Contract!Values(disk[2]) = Contract!Values(p.logical_io)
<1> DEFINE n == Len(p.qfn_pinout)
           m == Len(p.logical_io)
           pins == Contract!Column(p.qfn_pinout, Contract!pin_key)
           gpios == Contract!Column(p.logical_io, LAMBDA e : e.gpio)
<1>1. /\ n \in Nat /\ DOMAIN p.qfn_pinout = 1 .. n
      /\ m \in Nat /\ DOMAIN p.logical_io = 1 .. m
      /\ PINS \in Nat /\ GPIOS \in Nat
  BY InputsAssumption DEF IsSequence
<1>2. /\ disk[1] = Contract!generate(p)[1]
      /\ disk[2] = Contract!generate(p)[2]
  BY DEF Contract!fabrication_check, Contract!Files
<1>3. /\ disk[1] = Contract!SortRows(p.qfn_pinout, pins)
      /\ disk[2] = Contract!SortRows(p.logical_io, gpios)
  BY <1>2 DEF Contract!generate
<1>4. pins \in [1 .. n -> Int]
  <2>1. ASSUME NEW i \in 1 .. n
        PROVE  p.qfn_pinout[i].pin \in Int
    <3> DEFINE C == Contract!Column(p.qfn_pinout, LAMBDA q : q.pin)
    <3>1. i \in DOMAIN C /\ C[i] = p.qfn_pinout[i].pin
      BY <1>1 DEF Contract!Column
    <3>2. Contract!Values(C) = 1 .. PINS \cup {0}
      BY DEF Wired, Contract!EP
    <3> HIDE DEF C
    <3>3. QED
      BY <1>1, <3>1, <3>2 DEF Contract!Values
  <2>2. QED
    BY <1>1, <2>1 DEF Contract!Column, Contract!pin_key
<1>5. gpios \in [1 .. m -> Int]
  <2>1. ASSUME NEW i \in 1 .. m
        PROVE  p.logical_io[i].gpio \in Int
    <3> DEFINE C == Contract!Column(p.logical_io, LAMBDA e : e.gpio)
    <3>1. i \in DOMAIN C /\ C[i] = p.logical_io[i].gpio
      BY <1>1 DEF Contract!Column
    <3>2. Contract!Values(C) = 0 .. (GPIOS - 1)
      BY DEF Wired
    <3> HIDE DEF C
    <3>3. QED
      BY <1>1, <3>1, <3>2 DEF Contract!Values
  <2>2. QED
    BY <1>1, <2>1 DEF Contract!Column
<1> HIDE DEF n, m, pins, gpios
<1>6. QED
  BY <1>1, <1>3, <1>4, <1>5, SortedRows

(* A wired package: each row of the GPIO map leads to its pin, and no two  *)
(* to the same.                                                            *)
LEMMA WiredPins ==
    ASSUME NEW p \in Packages, Wired(p.qfn_pinout, p.logical_io)
    PROVE  /\ \A e \in Contract!Values(p.logical_io) :
                 \E pin \in Contract!Values(p.qfn_pinout) :
                    pin.pin = e.qfn_pin /\ pin.name = Contract!Gpio(e.gpio)
           /\ \A r, s \in Contract!Values(p.logical_io) :
                 r.qfn_pin = s.qfn_pin => r = s
<1> DEFINE pinout == p.qfn_pinout
           logical == p.logical_io
           n == Len(pinout)
           m == Len(logical)
<1>1. /\ n \in Nat /\ DOMAIN pinout = 1 .. n
      /\ m \in Nat /\ DOMAIN logical = 1 .. m
      /\ \A i \in 1 .. n : pinout[i].name \in [kind : STRING, n : Nat]
  BY InputsAssumption DEF IsSequence
<1>2. Wired(pinout, logical)
  OBVIOUS
<1> HIDE DEF pinout, logical, n, m
<1>3. ASSUME NEW e \in Contract!Values(logical)
      PROVE  \E i \in 1 .. n : /\ pinout[i].pin = e.qfn_pin
                               /\ pinout[i].name = Contract!Gpio(e.gpio)
  <2>1. e.gpio \in Contract!GpioNames(pinout)
    BY <1>2 DEF Wired
  <2>2. PICK i \in 1 .. n : /\ pinout[i].name.kind = "gpio"
                            /\ pinout[i].name.n = e.gpio
    BY <1>1, <2>1 DEF Contract!GpioNames, Contract!Values
  <2>3. pinout[i].name = Contract!Gpio(e.gpio)
    BY <1>1, <2>2 DEF Contract!Gpio
  <2>4. e.qfn_pin = Contract!physical_pin_by_gpio(pinout, e.gpio)
    BY <1>2 DEF Wired
  <2>5. QED
    BY <1>1, <2>3, <2>4, PhysicalPin
<1>4. \A i, j \in 1 .. n : pinout[i].pin = pinout[j].pin => i = j
  <2> DEFINE pins == Contract!Column(pinout, LAMBDA q : q.pin)
  <2>1. DOMAIN pins = 1 .. n /\ \A i \in 1 .. n : pins[i] = pinout[i].pin
    BY <1>1 DEF Contract!Column
  <2>2. Contract!_duplicate_values(pins) = {}
    BY <1>2 DEF Wired
  <2> HIDE DEF pins
  <2>3. SUFFICES ASSUME NEW i \in 1 .. n, NEW j \in 1 .. n,
                        pinout[i].pin = pinout[j].pin
                 PROVE  i = j
    OBVIOUS
  <2>4. pins[i] = pins[j]
    BY <2>1, <2>3
  <2>5. QED
    BY <1>1, <2>1, <2>2, <2>4, NoDuplicates
<1>5. \A i, j \in 1 .. m : logical[i].gpio = logical[j].gpio => i = j
  <2> DEFINE gpios == Contract!Column(logical, LAMBDA q : q.gpio)
  <2>1. DOMAIN gpios = 1 .. m /\ \A i \in 1 .. m : gpios[i] = logical[i].gpio
    BY <1>1 DEF Contract!Column
  <2>2. Contract!_duplicate_values(gpios) = {}
    BY <1>2 DEF Wired
  <2> HIDE DEF gpios
  <2>3. SUFFICES ASSUME NEW i \in 1 .. m, NEW j \in 1 .. m,
                        logical[i].gpio = logical[j].gpio
                 PROVE  i = j
    OBVIOUS
  <2>4. gpios[i] = gpios[j]
    BY <2>1, <2>3
  <2>5. QED
    BY <1>1, <2>1, <2>2, <2>4, NoDuplicates
<1>6. ASSUME NEW r \in Contract!Values(logical),
             NEW s \in Contract!Values(logical), r.qfn_pin = s.qfn_pin
      PROVE  r = s
  <2>1. PICK i \in 1 .. n : /\ pinout[i].pin = r.qfn_pin
                            /\ pinout[i].name = Contract!Gpio(r.gpio)
    BY <1>3
  <2>2. PICK j \in 1 .. n : /\ pinout[j].pin = s.qfn_pin
                            /\ pinout[j].name = Contract!Gpio(s.gpio)
    BY <1>3
  <2>3. i = j
    BY <1>4, <1>6, <2>1, <2>2
  <2>4. r.gpio = s.gpio
    BY <2>1, <2>2, <2>3 DEF Contract!Gpio
  <2>5. QED
    BY <1>1, <1>5, <2>4 DEF Contract!Values
<1>7. \A e \in Contract!Values(logical) :
          \E pin \in Contract!Values(pinout) :
             pin.pin = e.qfn_pin /\ pin.name = Contract!Gpio(e.gpio)
  BY <1>1, <1>3 DEF Contract!Values
<1>8. QED
  BY <1>6, <1>7 DEF pinout, logical

(* A commit that passed the contract gate and the CSV gate is wired as its *)
(* files say (validate_fabrication.py validate_contract,                   *)
(* gen_fabrication_artifacts.py generate and main).                        *)
THEOREM WiredIfGreen == Spec => []GreenMeansWired
<1>1. Inv => GreenMeansWired
  <2> SUFFICES ASSUME Inv, NEW place \in Places,
                      Passed(place, "contract"), Passed(place, "csv")
               PROVE  LET pinout == Contract!Values(head.docs.csv[1])
                          map == Contract!Values(head.docs.csv[2])
                      IN  /\ \A row \in map :
                               /\ \E pin \in pinout :
                                      /\ pin.pin = row.qfn_pin
                                      /\ pin.name = Contract!Gpio(row.gpio)
                               /\ row.pad = Contract!SafePad[row.direction]
                          /\ \A r, s \in map : r.qfn_pin = s.qfn_pin => r = s
                          /\ \A signal \in SIGNALS :
                               \E row \in map : row.signal = signal
                          /\ \E row \in map : /\ row.signal = "host_clk"
                                              /\ row.gpio = CLOCK_GPIO
                          /\ \E pin \in pinout : /\ pin.pin = RESET_PIN
                                                 /\ pin.name.kind = "resetb"
                          /\ \E pin \in pinout : /\ pin.pin = VSS_PIN
                                                 /\ pin.name.kind = "vssa1"
                          /\ \E pin \in pinout : /\ pin.pin = GPIO0_PIN
                                                 /\ pin.name = Contract!Gpio(0)
    BY DEF GreenMeansWired
  <2> DEFINE p == head.tree.package
  <2>1. verdict[place] = Gates(place)
    BY DEF Inv, Standing, Passed, NotRun
  <2>2. /\ Contract!validate_main(head.tree, FALSE) = 0
        /\ Contract!fabrication_check(p, head.docs.csv) = 0
    <3>1. /\ Gates(place).contract = Contract!validate_main(head.tree, FALSE)
          /\ Gates(place).csv = Contract!fabrication_check(p, head.docs.csv)
      BY Zenon DEF Gates
    <3>2. Gates(place).contract = 0 /\ Gates(place).csv = 0
      BY <2>1 DEF Passed
    <3>3. QED
      BY Zenon, <3>1, <3>2
  <2>3. p \in Packages
    BY DEF Inv, Shapes
  <2>4. Wired(p.qfn_pinout, p.logical_io)
    BY <2>2, ContractSays
  <2> HIDE DEF p
  <2>5. /\ Contract!Values(head.docs.csv[1]) = Contract!Values(p.qfn_pinout)
        /\ Contract!Values(head.docs.csv[2]) = Contract!Values(p.logical_io)
    BY <2>2, <2>3, <2>4, FilesSay
  <2>6. \A signal \in SIGNALS :
            \E row \in Contract!Values(p.logical_io) : row.signal = signal
    BY <2>4 DEF Wired, Contract!Values, Contract!Column
  <2>7. /\ \E pin \in Contract!Values(p.qfn_pinout) :
              pin.pin = RESET_PIN /\ pin.name.kind = "resetb"
        /\ \E pin \in Contract!Values(p.qfn_pinout) :
              pin.pin = VSS_PIN /\ pin.name.kind = "vssa1"
        /\ \E pin \in Contract!Values(p.qfn_pinout) :
              pin.pin = GPIO0_PIN /\ pin.name = Contract!Gpio(0)
    BY <2>4 DEF Wired
  <2>8. /\ \A row \in Contract!Values(p.logical_io) :
              row.pad = Contract!SafePad[row.direction]
        /\ \E row \in Contract!Values(p.logical_io) :
              row.signal = "host_clk" /\ row.gpio = CLOCK_GPIO
    BY <2>4 DEF Wired
  <2>9. /\ \A row \in Contract!Values(p.logical_io) :
              \E pin \in Contract!Values(p.qfn_pinout) :
                 pin.pin = row.qfn_pin /\ pin.name = Contract!Gpio(row.gpio)
        /\ \A r, s \in Contract!Values(p.logical_io) :
              r.qfn_pin = s.qfn_pin => r = s
    BY <2>3, <2>4, WiredPins
  <2>10. QED
    BY <2>5, <2>6, <2>7, <2>8, <2>9
<1>2. QED
  BY <1>1, ReleaseInvariant, PTL
-----------------------------------------------------------------------------
(* The planner sorts as the generator does.                                *)
LEMMA SameOrder ==
    ASSUME NEW list, NEW earlier
    PROVE  Sram!InOrder(list, earlier) = Contract!InOrder(list, earlier)
  BY Zenon DEF Sram!InOrder, Contract!InOrder,
               Sram!Cardinality, Contract!Cardinality

(* A macro the planner can use: it holds at least one byte.                *)
Usable(macro) ==
    /\ macro.words \in Nat \ {0}
    /\ macro.word_bits \in Nat \ {0}
    /\ Sram!capacity_bytes(macro) \in Nat \ {0}

(* It has an area too, and an outline unless the area is quoted.           *)
Stocked(macro) ==
    /\ Usable(macro)
    /\ Sram!area(macro) \in Nat
    /\ macro.quoted = 0 =>
         macro.width \in Nat \ {0} /\ macro.height \in Nat \ {0}

(* Division with remainder.                                                *)
LEMMA Division ==
    ASSUME NEW n \in Nat, NEW d \in Nat \ {0}
    PROVE  /\ n \div d \in Nat
           /\ d * (n \div d) <= n
           /\ n < d * (n \div d) + d
<1>1. n \div d \in Int /\ n % d \in Int
  BY SMT
<1>2. n = d * (n \div d) + (n % d) /\ 0 <= n % d /\ n % d < d
  BY SMT
<1>3. n \div d \in Nat
  BY SMT
<1>4. QED
  BY SMT, <1>1, <1>2, <1>3

(* The three kinds of rows of the inventory.                               *)
LEMMA HoldsBytes ==
    ASSUME NEW words \in Nat, words >= 8, NEW word_bits \in Nat \ {0}
    PROVE  (words * word_bits) \div 8 \in Nat \ {0}
<1> DEFINE n == words * word_bits
<1>1. n \in Nat /\ n >= 8
  BY SMT
<1> HIDE DEF n
<1>2. n \div 8 \in Nat /\ n < 8 * (n \div 8) + 8
  BY <1>1, Division
<1>3. QED
  BY <1>1, <1>2 DEF n

(* A macro measured from its LEF is usable: it holds bytes, on an area.     *)
LEMMA MeasuredUsable ==
    ASSUME NEW key, NEW words \in Nat, words >= 8,
           NEW word_bits \in Nat \ {0},
           NEW width \in Nat \ {0}, NEW height \in Nat \ {0}
    PROVE  /\ Sram!Measured(key, words, word_bits, width, height).key = key
           /\ Stocked(Sram!Measured(key, words, word_bits, width, height))
<1> DEFINE M == Sram!Measured(key, words, word_bits, width, height)
<1>1. /\ M.key = key /\ M.words = words /\ M.word_bits = word_bits
      /\ M.width = width /\ M.height = height /\ M.quoted = 0
  BY DEF Sram!Measured
<1>2. width * height \in Nat
  BY SMT
<1> HIDE DEF M
<1>3. M.key = key /\ Stocked(M)
  BY <1>1, <1>2, HoldsBytes DEF Stocked, Usable, Sram!capacity_bytes, Sram!area
<1>4. QED
  BY <1>3 DEF M

(* So is one whose dimensions are published, *)
LEMMA PublishedUsable ==
    ASSUME NEW key, NEW words \in Nat, words >= 8,
           NEW width \in Nat \ {0}, NEW height \in Nat \ {0}
    PROVE  /\ Sram!Published(key, words, width, height).key = key
           /\ Stocked(Sram!Published(key, words, width, height))
<1> DEFINE M == Sram!Published(key, words, width, height)
<1>1. /\ M.key = key /\ M.words = words /\ M.word_bits = 32
      /\ M.width = width /\ M.height = height /\ M.quoted = 0
  BY DEF Sram!Measured, Sram!Published
<1>2. width * height \in Nat
  BY SMT
<1> HIDE DEF M
<1>3. M.key = key /\ Stocked(M)
  BY <1>1, <1>2, HoldsBytes DEF Stocked, Usable, Sram!capacity_bytes, Sram!area
<1>4. QED
  BY <1>3 DEF M

(* and one of a vendor's catalogue, by its quoted area.                    *)
LEMMA CatalogueUsable ==
    ASSUME NEW key, NEW words \in Nat, words >= 8, NEW quoted \in Nat \ {0}
    PROVE  /\ Sram!Catalogue(key, words, quoted).key = key
           /\ Stocked(Sram!Catalogue(key, words, quoted))
<1> DEFINE M == Sram!Catalogue(key, words, quoted)
<1>1. /\ M.key = key /\ M.words = words /\ M.word_bits = 32
      /\ M.quoted = quoted
  BY DEF Sram!Measured, Sram!Published, Sram!Catalogue
<1> HIDE DEF M
<1>2. M.key = key /\ Stocked(M)
  BY <1>1, HoldsBytes DEF Stocked, Usable, Sram!capacity_bytes, Sram!area
<1>3. QED
  BY <1>2 DEF M

(* The twelve macros of the inventory.                                     *)
LEMMA Inventory ==
    /\ DOMAIN Sram!MACROS = 1 .. 12
    /\ \A i \in 1 .. 12 : Stocked(Sram!MACROS[i])
    /\ \A i, j \in 1 .. 12 : Sram!MACROS[i].key = Sram!MACROS[j].key => i = j
<1> DEFINE A == Sram!OPENRAM_MACROS
           B == Sram!OTHER_MACROS
           S == Range(A) \cup Range(B)
<1>1. A \in Seq(S) /\ B \in Seq(S) /\ Len(A) = 6 /\ Len(B) = 6
  BY DEF Sram!OPENRAM_MACROS, Sram!OTHER_MACROS, Range
<1>2. /\ A[1] = Sram!Measured("openram_2kbyte_32x512", 512, 32, 683, 417)
      /\ A[2] = Sram!Measured("openram_1kbyte_32x256", 256, 32, 480, 398)
      /\ A[3] = Sram!Measured("openram_1kbyte_8x1024", 1024, 8, 455, 446)
      /\ A[4] = Sram!Measured("openram_legacy_1kbyte_32x256", 256, 32, 376, 446)
      /\ A[5] = Sram!Published("openram_4kbyte_32x1024", 1024, 694, 669)
      /\ A[6] = Sram!Published("openram_8kbyte_32x2048", 2048, 1094, 721)
  BY DEF Sram!OPENRAM_MACROS
<1>3. /\ B[1] = Sram!Measured("sram22_2048x32", 2048, 32, 674, 782)
      /\ B[2] = Sram!Measured("sram22_1024x32", 1024, 32, 764, 460)
      /\ B[3] = Sram!Measured("sram22_512x32", 512, 32, 443, 449)
      /\ B[4] = Sram!Catalogue("cf_sram_8192x32", 8192, 1340000)
      /\ B[5] = Sram!Catalogue("cf_sram_4096x32", 4096, 670000)
      /\ B[6] = Sram!Catalogue("cf_sram_1024x32", 1024, 165000)
  BY DEF Sram!OTHER_MACROS
<1> HIDE DEF A, B
<1>4. /\ A[1].key = "openram_2kbyte_32x512" /\ Stocked(A[1])
      /\ A[2].key = "openram_1kbyte_32x256" /\ Stocked(A[2])
      /\ A[3].key = "openram_1kbyte_8x1024" /\ Stocked(A[3])
      /\ A[4].key = "openram_legacy_1kbyte_32x256" /\ Stocked(A[4])
      /\ A[5].key = "openram_4kbyte_32x1024" /\ Stocked(A[5])
      /\ A[6].key = "openram_8kbyte_32x2048" /\ Stocked(A[6])
  BY <1>2, MeasuredUsable, PublishedUsable
<1>5. /\ B[1].key = "sram22_2048x32" /\ Stocked(B[1])
      /\ B[2].key = "sram22_1024x32" /\ Stocked(B[2])
      /\ B[3].key = "sram22_512x32" /\ Stocked(B[3])
      /\ B[4].key = "cf_sram_8192x32" /\ Stocked(B[4])
      /\ B[5].key = "cf_sram_4096x32" /\ Stocked(B[5])
      /\ B[6].key = "cf_sram_1024x32" /\ Stocked(B[6])
  BY <1>3, MeasuredUsable, CatalogueUsable
<1>6. \A i \in 1 .. 6 : i \in {1, 2, 3, 4, 5, 6}
  OBVIOUS
<1>7. \A i \in 1 .. 6 : Stocked(A[i]) /\ Stocked(B[i])
  BY <1>4, <1>5, <1>6
<1>8. \A i, j \in 1 .. 6 : A[i].key = A[j].key => i = j
  <2>1. SUFFICES ASSUME NEW i \in 1 .. 6, NEW j \in 1 .. 6,
                        A[i].key = A[j].key
                 PROVE  i = j
    OBVIOUS
  <2>2. i \in {1, 2, 3, 4, 5, 6} /\ j \in {1, 2, 3, 4, 5, 6}
    BY <1>6
  <2>3. QED
    BY <1>4, <2>1, <2>2
<1>9. \A i, j \in 1 .. 6 : B[i].key = B[j].key => i = j
  <2>1. SUFFICES ASSUME NEW i \in 1 .. 6, NEW j \in 1 .. 6,
                        B[i].key = B[j].key
                 PROVE  i = j
    OBVIOUS
  <2>2. i \in {1, 2, 3, 4, 5, 6} /\ j \in {1, 2, 3, 4, 5, 6}
    BY <1>6
  <2>3. QED
    BY <1>5, <2>1, <2>2
<1>10. \A i, j \in 1 .. 6 : A[i].key # B[j].key
  <2>1. SUFFICES ASSUME NEW i \in 1 .. 6, NEW j \in 1 .. 6
                 PROVE  A[i].key # B[j].key
    OBVIOUS
  <2>2. i \in {1, 2, 3, 4, 5, 6} /\ j \in {1, 2, 3, 4, 5, 6}
    BY <1>6
  <2>3. QED
    BY <1>4, <1>5, <2>2
<1> DEFINE M == A \o B
<1>11. /\ DOMAIN M = 1 .. 12
       /\ \A i \in 1 .. 6 : M[i] = A[i]
       /\ \A i \in 7 .. 12 : M[i] = B[i - 6]
  <2> HIDE DEF S
  <2>1. A \in Seq(S)
    BY <1>1
  <2>2. B \in Seq(S)
    BY <1>1
  <2>3. /\ M \in Seq(S) /\ Len(M) = Len(A) + Len(B)
        /\ \A i \in 1 .. Len(A) + Len(B) :
               M[i] = IF i <= Len(A) THEN A[i] ELSE B[i - Len(A)]
    BY Zenon, <2>1, <2>2, ConcatProperties
  <2> HIDE DEF M
  <2>4. QED
    BY <1>1, <2>3
<1>12. Sram!MACROS = M
  BY DEF Sram!MACROS, A, B
<1> HIDE DEF M
<1>13. ASSUME NEW i \in 1 .. 12
       PROVE  \/ i \in 1 .. 6 /\ M[i] = A[i]
              \/ i \in 7 .. 12 /\ i - 6 \in 1 .. 6 /\ M[i] = B[i - 6]
  BY <1>11
<1>14. \A i \in 1 .. 12 : Stocked(M[i])
  BY <1>7, <1>13
<1>15. ASSUME NEW i \in 1 .. 12, NEW j \in 1 .. 12, M[i].key = M[j].key
       PROVE  i = j
  <2>1. CASE i \in 1 .. 6 /\ j \in 1 .. 6
    BY <1>8, <1>11, <1>15, <2>1
  <2>2. CASE i \in 7 .. 12 /\ j \in 7 .. 12
    <3>1. i - 6 \in 1 .. 6 /\ j - 6 \in 1 .. 6 /\ i \in Int /\ j \in Int
      BY <2>2
    <3>2. i - 6 = j - 6
      BY <1>9, <1>11, <1>15, <2>2, <3>1
    <3>3. QED
      BY <3>1, <3>2
  <2>3. CASE i \in 1 .. 6 /\ j \in 7 .. 12
    BY <1>10, <1>13, <1>15, <2>3
  <2>4. CASE i \in 7 .. 12 /\ j \in 1 .. 6
    BY <1>10, <1>13, <1>15, <2>4
  <2>5. QED
    BY <2>1, <2>2, <2>3, <2>4
<1>16. QED
  BY <1>11, <1>12, <1>14, <1>15
(* Rounding a quotient up: the smallest multiple of b that reaches a.      *)
LEMMA CeilDivLeast ==
    ASSUME NEW a \in Nat, NEW b \in Nat \ {0}
    PROVE  /\ Sram!CeilDiv(a, b) \in Nat
           /\ a <= b * Sram!CeilDiv(a, b)
           /\ Sram!CeilDiv(a, b) > 0 => b * (Sram!CeilDiv(a, b) - 1) < a
<1> DEFINE n == a + b - 1
           c == n \div b
<1>1. n \in Nat
  BY SMT
<1> HIDE DEF n
<1>2. c \in Nat /\ b * c <= n /\ n < b * c + b
  BY <1>1, Division
<1>3. Sram!CeilDiv(a, b) = c
  BY DEF Sram!CeilDiv, n
<1>4. n = a + b - 1
  BY DEF n
<1> HIDE DEF c
<1>5. b * c \in Int /\ b * (c - 1) = b * c - b
  BY SMT, <1>2
<1>6. QED
  BY SMT, <1>2, <1>3, <1>4, <1>5

(* A row of macros spans the bus, and stores at least a byte.              *)
LEMMA RowSpansBus ==
    ASSUME NEW macro, Usable(macro), NEW bus_bits \in Nat \ {0}
    PROVE  /\ Sram!macros_per_row(macro, bus_bits) \in Nat \ {0}
           /\ Sram!macros_per_row(macro, bus_bits) * macro.word_bits >= bus_bits
<1> DEFINE w == macro.word_bits
           k == Sram!CeilDiv(bus_bits, w)
<1>1. w \in Nat \ {0}
  BY DEF Usable
<1> HIDE DEF w
<1>2. k \in Nat /\ bus_bits <= w * k
  BY <1>1, CeilDivLeast
<1> HIDE DEF k
<1>3. k # 0
  BY SMT, <1>1, <1>2
<1>4. Sram!Larger(1, k) = k
  BY SMT, <1>2, <1>3 DEF Sram!Larger
<1>5. k * w = w * k
  BY SMT, <1>1, <1>2
<1>6. QED
  BY <1>2, <1>3, <1>4, <1>5 DEF Sram!macros_per_row, k, w

(* Every plan stores the target and would not with a row less, and its     *)
(* rows span the bus (plan_bank, lines 418-434: both roundings go up).     *)
THEOREM PlanCovers ==
    ASSUME NEW macro, Usable(macro),
           NEW target \in Nat, NEW bus_bits \in Nat \ {0}
    PROVE  LET depth == Sram!rows(macro, target, bus_bits)
               row   == Sram!macros_per_row(macro, bus_bits)
                            * Sram!capacity_bytes(macro)
           IN  /\ Sram!realized_bytes(macro, target, bus_bits) = depth * row
               /\ Sram!realized_bytes(macro, target, bus_bits) >= target
               /\ depth > 0 => (depth - 1) * row < target
               /\ Sram!macros_per_row(macro, bus_bits) * macro.word_bits
                      >= bus_bits
<1> DEFINE m == Sram!macros_per_row(macro, bus_bits)
           c == Sram!capacity_bytes(macro)
           row == m * c
           depth == Sram!CeilDiv(target, row)
<1>1. m \in Nat \ {0} /\ c \in Nat \ {0} /\ m * macro.word_bits >= bus_bits
  BY RowSpansBus DEF Usable
<1> HIDE DEF m, c
<1>2. row \in Nat \ {0}
  BY SMT, <1>1
<1>3. row = m * c
  OBVIOUS
<1> HIDE DEF row
<1>4. /\ depth \in Nat /\ target <= row * depth
      /\ depth > 0 => row * (depth - 1) < target
  BY <1>2, CeilDivLeast
<1>5. Sram!rows(macro, target, bus_bits) = depth
  BY DEF Sram!rows, depth, row, m, c
<1> HIDE DEF depth
<1>6. (m * depth) * c = depth * row /\ depth * row = row * depth
      /\ (depth - 1) * row = row * (depth - 1)
  BY SMT, <1>1, <1>2, <1>3, <1>4
<1>7. Sram!realized_bytes(macro, target, bus_bits) = (m * depth) * c
  BY <1>5 DEF Sram!realized_bytes, Sram!instances, m, c
<1>8. depth * row >= target /\ (depth > 0 => (depth - 1) * row < target)
  BY <1>4, <1>6
<1>9. QED
  BY <1>1, <1>5, <1>6, <1>7, <1>8 DEF m, c, row

(* So the planner part of the tool's self-check (lines 686-698) holds of   *)
(* every usable macro and every target.                                    *)
THEOREM SelfCheckHolds ==
    ASSUME NEW macro, Usable(macro), NEW target \in Nat
    PROVE  Sram!PlanConsistent(macro, target)
<1> DEFINE depth == Sram!rows(macro, target, Sram!DEFAULT_BUS_BITS)
           per_row == Sram!macros_per_row(macro, Sram!DEFAULT_BUS_BITS)
           c == Sram!capacity_bytes(macro)
<1>1. Sram!DEFAULT_BUS_BITS \in Nat \ {0}
  BY SMT DEF Sram!DEFAULT_BUS_BITS
<1>2. /\ Sram!realized_bytes(macro, target, Sram!DEFAULT_BUS_BITS) >= target
      /\ depth > 0 => (depth - 1) * (per_row * c) < target
      /\ per_row * macro.word_bits >= Sram!DEFAULT_BUS_BITS
  BY <1>1, PlanCovers
<1>3. per_row \in Nat /\ c \in Nat
  BY <1>1, RowSpansBus DEF Usable
<1>4. depth \in Nat
  <2>1. per_row * c \in Nat \ {0}
    BY SMT, <1>1, RowSpansBus DEF Usable
  <2>2. QED
    BY <2>1, CeilDivLeast DEF Sram!rows
<1> HIDE DEF depth, per_row, c
<1>5. depth > 1 => (depth - 1) * per_row * c < target
  BY SMT, <1>2, <1>3, <1>4
<1>6. QED
  BY <1>2, <1>5 DEF Sram!PlanConsistent, depth, per_row, c
-----------------------------------------------------------------------------
(* In a finite set with a transitive and irreflexive "earlier", something  *)
(* has nothing earlier.                                                    *)
LEMMA FirstExists ==
    ASSUME NEW S, IsFiniteSet(S), S # {}, NEW earlier \in [S -> SUBSET S],
           \A i \in S : i \notin earlier[i],
           \A i, j \in S : i \in earlier[j] => earlier[i] \subseteq earlier[j]
    PROVE  \E i \in S : earlier[i] = {}
<1> DEFINE size(i) == Cardinality(earlier[i])
           sizes == {size(i) : i \in S}
<1>1. ASSUME NEW i \in S
      PROVE  IsFiniteSet(earlier[i]) /\ size(i) \in Nat
  <2>1. earlier[i] \in SUBSET S
    OBVIOUS
  <2>2. IsFiniteSet(earlier[i])
    BY <2>1, FS_Subset
  <2>3. QED
    BY <2>2, FS_CardinalityType
<1>2. PICK least \in sizes : \A m \in sizes : least <= m
  <2>1. sizes \subseteq Nat /\ sizes # {}
    BY <1>1
  <2> HIDE DEF sizes
  <2>2. QED
    BY <2>1, LeastExists
<1>3. PICK i \in S : least = size(i)
  OBVIOUS
<1>4. ASSUME NEW j \in earlier[i]
      PROVE  FALSE
  <2>1. j \in S /\ earlier[j] \in SUBSET earlier[i] /\ earlier[j] # earlier[i]
    BY <1>4
  <2>2. size(j) <= size(i) /\ size(j) # size(i)
    BY <1>1, <2>1, FS_Subset
  <2>3. size(i) <= size(j)
    BY <1>2, <1>3, <2>1
  <2>4. QED
    BY <1>1, <2>1, <2>2, <2>3
<1>5. QED
  BY <1>4

(* Comparing products.                                                     *)
LEMMA TimesPositive ==
    ASSUME NEW a \in Nat, NEW b \in Nat, NEW c \in Nat \ {0}
    PROVE  /\ a * c \in Nat /\ b * c \in Nat
           /\ a <= b <=> a * c <= b * c
  BY SMT

(* Comparing ratios: a/p <= b/q and b/q <= c/r.                            *)
LEMMA RatiosInOrder ==
    ASSUME NEW a \in Nat \ {0}, NEW b \in Nat \ {0}, NEW c \in Nat \ {0},
           NEW p \in Nat \ {0}, NEW q \in Nat \ {0}, NEW r \in Nat \ {0},
           a * q <= b * p, b * r <= c * q
    PROVE  a * r <= c * p
<1>1. (a * q) * r <= (b * p) * r
  BY TimesPositive
<1>2. (b * r) * p <= (c * q) * p
  BY TimesPositive
<1>3. /\ (a * q) * r = (a * r) * q /\ (b * p) * r = (b * r) * p
      /\ (c * q) * p = (c * p) * q
  BY SMT
<1>4. /\ a * r \in Nat /\ c * p \in Nat /\ (a * r) * q \in Nat
      /\ (b * r) * p \in Nat /\ (c * p) * q \in Nat
  BY SMT
<1>5. (a * r) * q <= (c * p) * q
  BY <1>1, <1>2, <1>3, <1>4
<1>6. QED
  BY <1>4, <1>5, TimesPositive

(* The planner's comparison of two boxes.                                  *)
Boxes == [columns : Nat, width : Nat \ {0}, height : Nat \ {0}]
Better(b, c) ==
    Sram!Squarer(b, c) \/ (~Sram!Squarer(c, b) /\ b.columns < c.columns)

(* Squarer compares two ratios of positive numbers: it is irreflexive,      *)
(* asymmetric and its complement is transitive.                            *)
LEMMA NotSquarer ==
    ASSUME NEW b \in Boxes, NEW c \in Boxes, NEW d \in Boxes
    PROVE  /\ ~Sram!Squarer(b, b)
           /\ ~(Sram!Squarer(b, c) /\ Sram!Squarer(c, b))
           /\ ~Sram!Squarer(c, b) /\ ~Sram!Squarer(d, c) => ~Sram!Squarer(d, b)
<1> DEFINE L(e) == Sram!Larger(e.width, e.height)
           S(e) == Sram!Smaller(e.width, e.height)
<1>1. \A e \in Boxes : L(e) \in Nat \ {0} /\ S(e) \in Nat \ {0}
  BY DEF Boxes, Sram!Larger, Sram!Smaller
<1>2. \A e, f : Sram!Squarer(e, f) <=> L(e) * S(f) < L(f) * S(e)
  BY DEF Sram!Squarer
<1> HIDE DEF L, S
<1>3. \A e, f \in Boxes : L(e) * S(f) \in Nat
  BY <1>1
<1>4. \A e, f \in Boxes : ~Sram!Squarer(f, e) <=> L(e) * S(f) <= L(f) * S(e)
  BY <1>2, <1>3
<1>5. ~Sram!Squarer(b, b) /\ ~(Sram!Squarer(b, c) /\ Sram!Squarer(c, b))
  BY <1>2, <1>3
<1>6. ASSUME ~Sram!Squarer(c, b), ~Sram!Squarer(d, c)
      PROVE  ~Sram!Squarer(d, b)
  <2>1. L(b) * S(c) <= L(c) * S(b) /\ L(c) * S(d) <= L(d) * S(c)
    BY <1>4, <1>6
  <2>2. L(b) * S(d) <= L(d) * S(b)
    BY <1>1, <2>1, RatiosInOrder
  <2>3. QED
    BY <1>4, <2>2
<1>7. QED
  BY <1>5, <1>6

(* It is a total order of boxes with different numbers of columns.         *)
LEMMA BetterOrder ==
    ASSUME NEW b \in Boxes, NEW c \in Boxes, NEW d \in Boxes
    PROVE  /\ ~Better(b, b)
           /\ b.columns # c.columns => Better(b, c) \/ Better(c, b)
           /\ Better(b, c) /\ Better(c, d) => Better(b, d)
<1>1. b.columns \in Nat /\ c.columns \in Nat /\ d.columns \in Nat
  BY DEF Boxes
<1>2. ~Better(b, b)
  BY <1>1, NotSquarer DEF Better
<1>3. b.columns # c.columns => Better(b, c) \/ Better(c, b)
  BY <1>1 DEF Better
<1>4. ASSUME Better(b, c), Better(c, d)
      PROVE  Better(b, d)
  <2>1. ~Sram!Squarer(c, b) /\ ~Sram!Squarer(d, c)
    BY <1>4, NotSquarer DEF Better
  <2>2. ~Sram!Squarer(d, b)
    BY <2>1, NotSquarer
  <2>3. CASE Sram!Squarer(b, c) \/ Sram!Squarer(c, d)
    BY <2>1, <2>3, NotSquarer DEF Better
  <2>4. CASE ~Sram!Squarer(b, c) /\ ~Sram!Squarer(c, d)
    BY <1>1, <1>4, <2>2, <2>4 DEF Better
  <2>5. QED
    BY <2>3, <2>4
<1>5. QED
  BY <1>2, <1>3, <1>4

(* A bank of n instances in c full columns: its box is no smaller than its *)
(* macros.                                                                 *)
Gaps == [channel_x : Nat, channel_y : Nat, margin : Nat]

(* The box of a bank in c full columns, and that its macros fit in it.      *)
LEMMA BoxShape ==
    ASSUME NEW macro, Stocked(macro), macro.quoted = 0,
           NEW n \in Nat \ {0}, NEW c \in 1 .. n, n % c = 0, NEW gap \in Gaps
    PROVE  LET box == Sram!Box(macro, n, c, gap)
           IN  /\ box \in Boxes
               /\ box.columns = c
               /\ box.width * box.height >= n * Sram!area(macro)
<1> DEFINE r == n \div c
           w == macro.width
           h == macro.height
           x == (c - 1) * gap.channel_x + 2 * gap.margin
           y == (r - 1) * gap.channel_y + 2 * gap.margin
<1>1. w \in Nat \ {0} /\ h \in Nat \ {0} /\ Sram!area(macro) = w * h
  BY DEF Stocked, Sram!area
<1>2. c \in Nat \ {0} /\ r \in Nat \ {0} /\ c * r = n
  <2>1. c \in Nat \ {0}
    OBVIOUS
  <2>2. r \in Nat /\ n = c * r + (n % c)
    BY SMT, <2>1
  <2>3. n = c * r
    BY <2>2
  <2> HIDE DEF r
  <2>4. r # 0
    BY SMT, <2>1, <2>2, <2>3
  <2>5. QED
    BY <2>1, <2>2, <2>3, <2>4
<1>3. gap.channel_x \in Nat /\ gap.channel_y \in Nat /\ gap.margin \in Nat
  BY DEF Gaps
<1> HIDE DEF r, w, h
<1>4. x \in Nat /\ y \in Nat
  <2>1. c - 1 \in Nat /\ r - 1 \in Nat
    BY <1>2
  <2>2. (c - 1) * gap.channel_x \in Nat /\ (r - 1) * gap.channel_y \in Nat
    BY SMT, <1>3, <2>1
  <2>3. QED
    BY <1>3, <2>2
<1>5. /\ Sram!Box(macro, n, c, gap).columns = c
      /\ Sram!Box(macro, n, c, gap).width
             = c * w + (c - 1) * gap.channel_x + 2 * gap.margin
      /\ Sram!Box(macro, n, c, gap).height
             = r * h + (r - 1) * gap.channel_y + 2 * gap.margin
  BY DEF Sram!Box, r, w, h
<1>6. /\ c * w \in Nat \ {0} /\ r * h \in Nat \ {0}
      /\ (c - 1) * gap.channel_x \in Int /\ (r - 1) * gap.channel_y \in Int
  BY SMT, <1>1, <1>2, <1>3
<1>7. /\ Sram!Box(macro, n, c, gap).width = c * w + x
      /\ Sram!Box(macro, n, c, gap).height = r * h + y
  BY <1>3, <1>5, <1>6
<1>8. Sram!Box(macro, n, c, gap)
          = [columns |-> c, width |-> Sram!Box(macro, n, c, gap).width,
             height |-> Sram!Box(macro, n, c, gap).height]
  BY DEF Sram!Box
<1> DEFINE W == c * w
           H == r * h
<1>9. W * H = n * (w * h)
  <2>1. W * H = (c * r) * (w * h)
    BY SMT, <1>1, <1>2
  <2>2. QED
    BY <1>2, <2>1
<1> HIDE DEF x, y, W, H
<1>10. (W + x) * (H + y) >= W * H
  <2>1. W \in Nat /\ H \in Nat
    BY <1>6 DEF W, H
  <2>2. (W + x) * (H + y) = W * H + (W * y + x * H + x * y)
    BY SMT, <1>4, <2>1
  <2>3. W * H \in Nat /\ W * y \in Nat /\ x * H \in Nat /\ x * y \in Nat
    BY SMT, <1>4, <2>1
  <2>4. QED
    BY <2>2, <2>3
<1>11. c * w + x \in Nat \ {0} /\ r * h + y \in Nat \ {0}
  BY <1>4, <1>6
<1>12. Sram!Box(macro, n, c, gap) \in Boxes
  BY <1>2, <1>7, <1>8, <1>11 DEF Boxes
<1>13. QED
  BY <1>1, <1>5, <1>7, <1>9, <1>10, <1>12 DEF W, H

(* The best box exists, and is the box of some full columns.               *)
LEMMA Envelope ==
    ASSUME NEW macro, Stocked(macro), macro.quoted = 0,
           NEW n \in Nat \ {0}, NEW gap \in Gaps
    PROVE  \E c \in 1 .. n :
               /\ n % c = 0
               /\ Sram!_add_envelope(macro, n, gap) = Sram!Box(macro, n, c, gap)
<1> DEFINE D == {d \in 1 .. n : n % d = 0}
           box(c) == Sram!Box(macro, n, c, gap)
           boxes == {box(c) : c \in D}
           earlier == [d \in D |-> {e \in D : Better(box(e), box(d))}]
<1>1. \A d \in D : box(d) \in Boxes /\ box(d).columns = d
  BY BoxShape
<1>2. IsFiniteSet(D) /\ D # {}
  <2>1. IsFiniteSet(1 .. n) /\ D \in SUBSET (1 .. n)
    BY FS_Interval
  <2>2. 1 \in 1 .. n /\ n % 1 = 0
    BY SMT
  <2>3. QED
    BY <2>1, <2>2, FS_Subset
<1> HIDE DEF D, box
<1>3. /\ earlier \in [D -> SUBSET D]
      /\ \A i \in D : i \notin earlier[i]
      /\ \A i, j \in D : i \in earlier[j] => earlier[i] \subseteq earlier[j]
  BY <1>1, BetterOrder
<1>4. PICK d \in D : earlier[d] = {}
  <2> HIDE DEF earlier
  <2> QED
    BY Zenon, <1>2, <1>3, FirstExists
<1>5. \A e \in D : e # d => Better(box(d), box(e))
  <2>1. SUFFICES ASSUME NEW e \in D, e # d
                 PROVE  Better(box(d), box(e))
    OBVIOUS
  <2>2. ~Better(box(e), box(d))
    BY <1>4
  <2>3. QED
    BY <1>1, <2>1, <2>2, BetterOrder
<1>6. \E b \in boxes : \A c \in boxes \ {b} : Better(b, c)
  BY <1>5
<1> DEFINE best == CHOOSE b \in boxes : \A c \in boxes \ {b} : Better(b, c)
<1>7. best \in boxes
  <2> HIDE DEF boxes
  <2> QED
    BY <1>6
<1>8. Sram!_add_envelope(macro, n, gap) = best
  BY Zenon DEF Sram!_add_envelope, Better, D, box
<1> HIDE DEF best
<1>9. PICK c \in D : best = box(c)
  BY <1>7
<1>10. QED
  BY <1>8, <1>9 DEF D, box
-----------------------------------------------------------------------------
(* What the property asks of a plan that is not skipped.                   *)
Covers(p, macro) ==
    LET row == p.macros_per_row * Sram!capacity_bytes(macro)
    IN  /\ p.realized = p.rows * row
        /\ p.realized >= p.target /\ p.realized - row < p.target
        /\ p.macros_per_row * macro.word_bits >= p.bus_bits
        /\ p.box # Sram!NoBox =>
             /\ p.instances % p.box.columns = 0
             /\ p.box.width * p.box.height >= p.area

(* How many macros a bank has.                                             *)
LEMMA Counts ==
    ASSUME NEW macro, Stocked(macro),
           NEW target \in Nat, NEW bus_bits \in Nat \ {0}
    PROVE  /\ Sram!macros_per_row(macro, bus_bits) \in Nat \ {0}
           /\ Sram!rows(macro, target, bus_bits) \in Nat
           /\ Sram!instances(macro, target, bus_bits) \in Nat
<1>1. Usable(macro)
  BY DEF Stocked
<1>2. Sram!macros_per_row(macro, bus_bits) \in Nat \ {0}
  BY <1>1, RowSpansBus
<1>3. Sram!rows(macro, target, bus_bits) \in Nat
  <2>1. Sram!macros_per_row(macro, bus_bits) * Sram!capacity_bytes(macro)
            \in Nat \ {0}
    BY SMT, <1>1, <1>2 DEF Usable
  <2>2. QED
    BY <2>1, CeilDivLeast DEF Sram!rows
<1>4. QED
  BY <1>2, <1>3 DEF Sram!instances

(* plan_bank and _add_envelope: a plan covers its target, and its box holds*)
(* its macros.                                                             *)
LEMMA BankCovers ==
    ASSUME NEW macro, Stocked(macro),
           NEW target \in Nat, NEW bus_bits \in Nat \ {0}, NEW gap \in Gaps,
           ~(/\ gap # Sram!NoGap /\ macro.quoted = 0
             /\ Sram!instances(macro, target, bus_bits) = 0)
    PROVE  Covers(Sram!plan_bank(macro, target, bus_bits, gap), macro)
<1> DEFINE p == Sram!plan_bank(macro, target, bus_bits, gap)
           n == Sram!instances(macro, target, bus_bits)
           m == Sram!macros_per_row(macro, bus_bits)
           depth == Sram!rows(macro, target, bus_bits)
           row == m * Sram!capacity_bytes(macro)
<1>1. /\ p.target = target /\ p.bus_bits = bus_bits
      /\ p.macros_per_row = m /\ p.rows = depth /\ p.instances = n
      /\ p.realized = Sram!realized_bytes(macro, target, bus_bits)
      /\ p.area = n * Sram!area(macro)
      /\ p.box = IF gap = Sram!NoGap \/ macro.quoted # 0 THEN Sram!NoBox
                 ELSE Sram!_add_envelope(macro, n, gap)
  BY DEF Sram!plan_bank, Sram!realized_bytes
<1>2. m \in Nat \ {0} /\ depth \in Nat /\ n \in Nat
  BY Counts
<1>3. Usable(macro) /\ Sram!capacity_bytes(macro) \in Nat \ {0}
  BY DEF Stocked, Usable
<1>4. /\ p.realized = depth * row /\ p.realized >= target
      /\ depth > 0 => (depth - 1) * row < target
      /\ m * macro.word_bits >= bus_bits
  BY <1>1, <1>3, PlanCovers
<1> HIDE DEF p, n, m, depth
<1>5. row \in Nat \ {0}
  BY SMT, <1>2, <1>3
<1> HIDE DEF row
<1>6. p.realized - row < target
  <2>1. CASE depth = 0
    BY <1>4, <1>5, <2>1
  <2>2. CASE depth > 0
    <3>1. (depth - 1) * row = depth * row - row
      BY SMT, <1>2, <1>5
    <3>2. QED
      BY <1>4, <2>2, <3>1
  <2>3. QED
    BY <1>2, <2>1, <2>2
<1>7. ASSUME p.box # Sram!NoBox
      PROVE  n % p.box.columns = 0 /\ p.box.width * p.box.height >= p.area
  <2>1. /\ p.box = Sram!_add_envelope(macro, n, gap)
        /\ macro.quoted = 0 /\ n \in Nat \ {0}
    BY <1>1, <1>2, <1>7 DEF n
  <2>2. PICK c \in 1 .. n : n % c = 0 /\ p.box = Sram!Box(macro, n, c, gap)
    BY <2>1, Envelope
  <2>3. /\ p.box.columns = c
        /\ p.box.width * p.box.height >= n * Sram!area(macro)
    BY <2>1, <2>2, BoxShape
  <2>4. QED
    BY <1>1, <2>2, <2>3
<1>8. QED
  BY <1>1, <1>4, <1>6, <1>7 DEF Covers, p, row

(* The plans of a report, macro by macro.                                  *)
LEMMA PlanOfMacro ==
    ASSUME NEW target \in Nat, NEW bus_bits \in Nat \ {0}, NEW gap \in Gaps,
           NEW i \in 1 .. 12
    PROVE  LET p == Sram!Plans(target, bus_bits, gap)[i]
           IN  /\ p.macro = Sram!MACROS[i].key
               /\ p.skipped \in BOOLEAN
               /\ ~p.skipped =>
                    /\ Sram!Tiles(Sram!MACROS[i], bus_bits)
                    /\ p = Sram!plan_bank(Sram!MACROS[i], target, bus_bits, gap)
                    /\ p.area \in Nat
<1> DEFINE macro == Sram!MACROS[i]
           bank == Sram!plan_bank(macro, target, bus_bits, gap)
           p == Sram!Plans(target, bus_bits, gap)[i]
<1>1. Stocked(macro) /\ i \in DOMAIN Sram!MACROS
  BY Inventory
<1>2. p = IF Sram!Tiles(macro, bus_bits) THEN bank ELSE Sram!SkippedPlan(macro)
  BY <1>1 DEF Sram!Plans
<1> HIDE DEF p, macro
<1>3. bank.macro = macro.key /\ bank.skipped = FALSE
  BY Zenon DEF Sram!plan_bank
<1>4. bank.area = Sram!instances(macro, target, bus_bits) * Sram!area(macro)
  BY Zenon DEF Sram!plan_bank
<1>5. bank.area \in Nat
  BY <1>1, <1>4, Counts DEF Stocked
<1>6. /\ Sram!SkippedPlan(macro).macro = macro.key
      /\ Sram!SkippedPlan(macro).skipped = TRUE
  BY DEF Sram!SkippedPlan, Sram!plan_bank
<1> HIDE DEF bank
<1>7. CASE Sram!Tiles(macro, bus_bits)
  BY <1>2, <1>3, <1>5, <1>7 DEF p, macro, bank
<1>8. CASE ~Sram!Tiles(macro, bus_bits)
  BY <1>2, <1>6, <1>8 DEF p, macro
<1>9. QED
  BY <1>7, <1>8

(* The order of the report: a total order of the plans, kept plans by area *)
(* and before the skipped ones.                                            *)
EarlierPlans(plans) ==
    [i \in DOMAIN plans |-> {j \in DOMAIN plans : Sram!Before(plans, j, i)}]

(* Before is a total order of the plans, whatever the plans are.            *)
LEMMA BeforeOrder ==
    ASSUME NEW n \in Nat, NEW plans, DOMAIN plans = 1 .. n,
           \A i \in 1 .. n : plans[i].skipped \in BOOLEAN,
           \A i \in 1 .. n : ~plans[i].skipped => plans[i].area \in Nat
    PROVE  /\ TotalOrder(n, EarlierPlans(plans))
           /\ \A i, j \in 1 .. n :
                 i \in EarlierPlans(plans)[j] /\ ~plans[j].skipped =>
                     ~plans[i].skipped /\ plans[i].area <= plans[j].area
<1> DEFINE K == {i \in 1 .. n : ~plans[i].skipped}
           a(i) == plans[i].area
           B(i, j) == Sram!Before(plans, i, j)
<1>1. ASSUME NEW i \in 1 .. n, NEW j \in 1 .. n
      PROVE  B(i, j) <=> \/ i \in K /\ j \notin K
                         \/ /\ i \in K /\ j \in K
                            /\ a(i) < a(j) \/ (a(i) = a(j) /\ i < j)
                         \/ i \notin K /\ j \notin K /\ i < j
  <2>1. CASE i \in K /\ j \in K
    <3>1. plans[i].skipped = FALSE /\ plans[j].skipped = FALSE
      BY <2>1
    <3>2. a(i) \in Nat /\ a(j) \in Nat
      BY <2>1
    <3>3. QED
      BY <2>1, <3>1, <3>2 DEF Sram!Before
  <2>2. CASE i \in K /\ j \notin K
    <3>1. plans[i].skipped = FALSE /\ plans[j].skipped = TRUE
      BY <2>2
    <3>2. QED
      BY <2>2, <3>1 DEF Sram!Before
  <2>3. CASE i \notin K /\ j \in K
    <3>1. plans[i].skipped = TRUE /\ plans[j].skipped = FALSE
      BY <2>3
    <3>2. QED
      BY <2>3, <3>1 DEF Sram!Before
  <2>4. CASE i \notin K /\ j \notin K
    <3>1. plans[i].skipped = TRUE /\ plans[j].skipped = TRUE
      BY <2>4
    <3>2. QED
      BY <2>4, <3>1 DEF Sram!Before
  <2>5. QED
    BY <2>1, <2>2, <2>3, <2>4
<1>2. \A i \in K : i \in 1 .. n /\ a(i) \in Nat
  OBVIOUS
<1>3. /\ EarlierPlans(plans) \in [1 .. n -> SUBSET (1 .. n)]
      /\ \A i, j \in 1 .. n : i \in EarlierPlans(plans)[j] <=> B(i, j)
  BY DEF EarlierPlans
<1>4. \A i \in 1 .. n : ~plans[i].skipped <=> i \in K
  OBVIOUS
<1> HIDE DEF B, K, a
<1>5. \A i \in 1 .. n : ~B(i, i)
  BY <1>1, <1>2
<1>6. \A i, j \in 1 .. n : i # j => B(i, j) \/ B(j, i)
  BY <1>1, <1>2
<1>7. ASSUME NEW i \in 1 .. n, NEW j \in 1 .. n, NEW k \in 1 .. n,
             B(k, i), B(i, j)
      PROVE  B(k, j)
  BY <1>1, <1>2, <1>7
<1>8. TotalOrder(n, EarlierPlans(plans))
  BY <1>3, <1>5, <1>6, <1>7 DEF TotalOrder
<1>9. \A i, j \in 1 .. n : B(i, j) /\ j \in K => i \in K /\ a(i) <= a(j)
  BY <1>1, <1>2
<1>10. QED
  BY <1>3, <1>4, <1>8, <1>9 DEF a

(* The macro of a plan is found by its key.                                *)
LEMMA MacroByKey ==
    ASSUME NEW p, NEW i \in 1 .. 12, p.macro = Sram!MACROS[i].key
    PROVE  Sram!MACROS[CHOOSE k \in DOMAIN Sram!MACROS :
                           Sram!MACROS[k].key = p.macro] = Sram!MACROS[i]
<1> DEFINE k == CHOOSE j \in DOMAIN Sram!MACROS :
                    Sram!MACROS[j].key = p.macro
<1>1. i \in DOMAIN Sram!MACROS
  BY Inventory
<1>2. k \in DOMAIN Sram!MACROS /\ Sram!MACROS[k].key = p.macro
  BY <1>1
<1> HIDE DEF k
<1>3. k = i
  BY <1>2, Inventory
<1>4. QED
  BY <1>3 DEF k

(* Every plan the T1 report holds covers its capacity with no row to spare *)
(* and covers the data bus, its box is no smaller than its macros, and the *)
(* report is ordered by area with the skipped macros last and loses no     *)
(* macro (sram_area.py plan_bank, _add_envelope and build_report).         *)
THEOREM PlansAlwaysCover == Spec => []PlansCover
<1>1. Inv => PlansCover
  <2>1. SUFFICES ASSUME Inv, report # NoReport, ~report.raised
                 PROVE  PlansCover
    BY DEF PlansCover
  <2>2. PICK a \in T1Args :
            report = Sram!build_report(a.target, a.bus_bits, a.gap)
    BY <2>1 DEF Inv, Planned
  <2>3. /\ a.target \in Nat /\ a.bus_bits \in Nat \ {0} /\ a.gap \in Gaps
    BY InputsAssumption DEF Gaps
  <2> DEFINE P == Sram!Plans(a.target, a.bus_bits, a.gap)
             plans == report.plans
             macro(p) == Sram!MACROS[CHOOSE i \in DOMAIN Sram!MACROS :
                                         Sram!MACROS[i].key = p.macro]
             kept == {i \in DOMAIN plans : ~plans[i].skipped}
  <2>4. /\ plans = Sram!InOrder(P, EarlierPlans(P))
        /\ \A i \in 1 .. 12 :
              ~Sram!Raises(Sram!MACROS[i], a.target, a.bus_bits, a.gap)
    BY <2>1, <2>2, Inventory DEF Sram!build_report, EarlierPlans
  <2>5. DOMAIN P = 1 .. 12
    BY Inventory DEF Sram!Plans
  <2>6. \A i \in 1 .. 12 :
          /\ P[i].macro = Sram!MACROS[i].key
          /\ P[i].skipped \in BOOLEAN
          /\ ~P[i].skipped =>
               /\ Sram!Tiles(Sram!MACROS[i], a.bus_bits)
               /\ P[i] = Sram!plan_bank(Sram!MACROS[i], a.target,
                                        a.bus_bits, a.gap)
               /\ P[i].area \in Nat
    BY <2>3, PlanOfMacro
  <2> HIDE DEF P, plans
  <2>7. /\ TotalOrder(12, EarlierPlans(P))
        /\ \A i, j \in 1 .. 12 :
              i \in EarlierPlans(P)[j] /\ ~P[j].skipped =>
                  ~P[i].skipped /\ P[i].area <= P[j].area
    BY <2>5, <2>6, BeforeOrder
  <2>8. PICK order : Lists(order, 12, P, EarlierPlans(P), plans)
    BY <2>4, <2>5, <2>7, Sorting, SameOrder
  <2>9. /\ order \in [1 .. 12 -> 1 .. 12] /\ DOMAIN plans = 1 .. 12
        /\ \A p \in 1 .. 12 : plans[p] = P[order[p]]
        /\ \A i \in 1 .. 12 : \E p \in 1 .. 12 : order[p] = i
        /\ \A p, q \in 1 .. 12 :
              p < q => order[p] \in EarlierPlans(P)[order[q]]
    BY <2>8 DEF Lists
  <2>10. {plans[i].macro : i \in DOMAIN plans} =
             {Sram!MACROS[i].key : i \in DOMAIN Sram!MACROS}
    <3>1. \A p \in 1 .. 12 : plans[p].macro = Sram!MACROS[order[p]].key
      BY <2>6, <2>9
    <3>2. DOMAIN Sram!MACROS = 1 .. 12
      BY Inventory
    <3>3. QED
      BY <2>9, <3>1, <3>2
  <2>11. \A i, j \in DOMAIN plans : i < j /\ j \in kept =>
             i \in kept /\ plans[i].area <= plans[j].area
    <3>1. SUFFICES ASSUME NEW i \in 1 .. 12, NEW j \in 1 .. 12, i < j,
                          ~plans[j].skipped
                   PROVE  ~plans[i].skipped /\ plans[i].area <= plans[j].area
      BY <2>9
    <3>2. order[i] \in EarlierPlans(P)[order[j]] /\ ~P[order[j]].skipped
      BY <2>9, <3>1
    <3>3. ~P[order[i]].skipped /\ P[order[i]].area <= P[order[j]].area
      BY <2>7, <2>9, <3>2
    <3>4. QED
      BY <2>9, <3>3
  <2>12. ASSUME NEW i \in kept
         PROVE  Covers(plans[i], macro(plans[i]))
    <3> DEFINE k == order[i]
               m == Sram!MACROS[k]
    <3>1. k \in 1 .. 12 /\ plans[i] = P[k] /\ ~P[k].skipped
      BY <2>9
    <3>2. /\ Sram!Tiles(m, a.bus_bits) /\ plans[i].macro = m.key
          /\ plans[i] = Sram!plan_bank(m, a.target, a.bus_bits, a.gap)
      BY <2>6, <3>1
    <3>3. ~(/\ a.gap # Sram!NoGap /\ m.quoted = 0
            /\ Sram!instances(m, a.target, a.bus_bits) = 0)
      BY <2>4, <3>1, <3>2 DEF Sram!Raises
    <3>4. Stocked(m)
      BY <3>1, Inventory
    <3>5. macro(plans[i]) = m
      <4> HIDE DEF k
      <4> QED
        BY <3>1, <3>2, MacroByKey
    <3> HIDE DEF macro, m
    <3>6. QED
      BY <2>3, <3>2, <3>3, <3>4, <3>5, BankCovers
  <2>13. QED
    BY <2>10, <2>11, <2>12 DEF PlansCover, Covers, plans
<1>2. QED
  BY <1>1, ReleaseInvariant, PTL
-----------------------------------------------------------------------------
(* An entry of the document, and what is left of it when it is written.    *)
IsEntry(c) ==
    c = [at |-> c.at, ref |-> c.ref, licenses |-> c.licenses,
         reason |-> c.reason, properties |-> c.properties]
Placeless(c) == [c EXCEPT !.at = <<>>]

(* An entry keeps all but its place.                                       *)
LEMMA PlacelessKeeps ==
    ASSUME NEW c, IsEntry(c)
    PROVE  /\ Placeless(c).ref = c.ref
           /\ Placeless(c).licenses = c.licenses
           /\ Placeless(c).reason = c.reason
           /\ Placeless(c).properties = c.properties
  BY DEF IsEntry, Placeless

(* c is an entry of a kind, with a name and a version.                     *)
Entry(c, kind, name, version) ==
    /\ IsEntry(c)
    /\ c.ref[1] = kind /\ c.ref[2] = name /\ c.ref[3] = version

(* What component() makes.                                                 *)
LEMMA ComponentEntry ==
    ASSUME NEW at, NEW kind, NEW name, NEW version, NEW licenses,
           NEW reason, NEW properties, NEW c,
           c = Bill!component(at, kind, name, version, licenses, reason,
                              properties)
    PROVE  Entry(c, kind, name, version)
  BY DEF Bill!component, IsEntry, Entry

(* Every entry of S is of one of the kinds.                                *)
Listing(S, kinds) == \A c \in S : IsEntry(c) /\ c.ref[1] \in kinds

(* The entries of the lock file are the packages it locks.                 *)
LEMMA NpmEntries ==
    ASSUME NEW t, NEW c
    PROVE  c \in Bill!collect_npm(t) =>
             \E e \in t.lock : /\ e.dir = "node_modules"
                               /\ Entry(c, "npm", e.name, e.version)
<1> SUFFICES ASSUME c \in Bill!collect_npm(t)
             PROVE  \E e \in t.lock : /\ e.dir = "node_modules"
                                      /\ Entry(c, "npm", e.name, e.version)
  BY Zenon
<1>1. PICK e \in {entry \in t.lock : entry.dir = "node_modules"} :
        c = Bill!component(<<"lock", e.name>>, "npm", e.name, e.version,
              e.license,
              IF e.license = {} THEN "no license field" ELSE Bill!NoText,
              {<<"source", "package-lock.json">>})
  BY Zenon DEF Bill!collect_npm
<1>2. Entry(c, "npm", e.name, e.version)
  BY Zenon, <1>1, ComponentEntry
<1>3. e \in t.lock /\ e.dir = "node_modules"
  BY Zenon
<1>4. QED
  BY Zenon, <1>2, <1>3

(* Every locked package is listed at its locked version.                   *)
LEMMA NpmListed ==
    ASSUME NEW t, NEW e \in t.lock, e.dir = "node_modules"
    PROVE  \E c \in Bill!collect_npm(t) : Entry(c, "npm", e.name, e.version)
<1> DEFINE C(x) == Bill!component(<<"lock", x.name>>, "npm", x.name, x.version,
              x.license,
              IF x.license = {} THEN "no license field" ELSE Bill!NoText,
              {<<"source", "package-lock.json">>})
<1>1. C(e) \in Bill!collect_npm(t)
  BY Zenon DEF Bill!collect_npm
<1>2. Entry(C(e), "npm", e.name, e.version)
  BY Zenon, ComponentEntry
<1>3. QED
  BY Zenon, <1>1, <1>2

(* The build requirements, under a kind of their own.                      *)
LEMMA RequirementKind ==
    ASSUME NEW t
    PROVE  Listing(Bill!collect_python(t).requirements, {"pypi"})
<1> DEFINE C(i) == Bill!component(<<"requires", i>>, "pypi",
                     t.project.requires[i].name, Bill!NoText,
                     {}, "version range, not a license",
                     {<<"build-requirement", t.project.requires[i].range>>})
<1>1. ASSUME NEW i
      PROVE  Entry(C(i), "pypi", t.project.requires[i].name, Bill!NoText)
  BY Zenon, ComponentEntry
<1>2. Bill!collect_python(t).requirements =
        {C(i) : i \in DOMAIN t.project.requires}
  <2>1. \A r, x : [root |-> r, requirements |-> x].requirements = x
    OBVIOUS
  <2>2. QED
    BY Zenon, <2>1 DEF Bill!collect_python
<1> HIDE DEF C
<1>3. ASSUME NEW c \in Bill!collect_python(t).requirements
      PROVE  IsEntry(c) /\ c.ref[1] \in {"pypi"}
  <2>1. PICK i \in DOMAIN t.project.requires : c = C(i)
    BY Zenon, <1>2
  <2>2. QED
    BY Zenon, <1>1, <2>1 DEF Entry
<1>4. QED
  BY Zenon, <1>3 DEF Listing

(* The derived files, at their digests.                                    *)
LEMMA NoticeEntries ==
    ASSUME NEW t
    PROVE  /\ Listing(Bill!collect_notice_files(t), {"file"})
           /\ \A f \in DOMAIN NoticeFiles \cap DOMAIN t.notices :
                \E c \in Bill!collect_notice_files(t) :
                  /\ Entry(c, "file", f, Bill!NoText)
                  /\ <<"sha256", t.notices[f]>> \in c.properties
<1> DEFINE C(f) == Bill!component(<<"notice", f>>, "file", f, Bill!NoText,
                     {NoticeFiles[f]}, Bill!NoText,
                     {<<"sha256", t.notices[f]>>})
<1>1. ASSUME NEW f PROVE Entry(C(f), "file", f, Bill!NoText)
  BY Zenon, ComponentEntry
<1>2. ASSUME NEW f PROVE <<"sha256", t.notices[f]>> \in C(f).properties
  <2>1. C(f).properties = {<<"sha256", t.notices[f]>>}
    BY DEF Bill!component
  <2>2. QED
    BY Zenon, <2>1
<1>3. Bill!collect_notice_files(t) =
        {C(f) : f \in DOMAIN NoticeFiles \cap DOMAIN t.notices}
  BY Zenon DEF Bill!collect_notice_files
<1> HIDE DEF C
<1>4. ASSUME NEW c \in Bill!collect_notice_files(t)
      PROVE  IsEntry(c) /\ c.ref[1] \in {"file"}
  <2>1. PICK f \in DOMAIN NoticeFiles \cap DOMAIN t.notices : c = C(f)
    BY Zenon, <1>3
  <2>2. QED
    BY Zenon, <1>1, <2>1 DEF Entry
<1>5. ASSUME NEW f \in DOMAIN NoticeFiles \cap DOMAIN t.notices
      PROVE  \E c \in Bill!collect_notice_files(t) :
                  /\ Entry(c, "file", f, Bill!NoText)
                  /\ <<"sha256", t.notices[f]>> \in c.properties
  <2>1. C(f) \in Bill!collect_notice_files(t)
    BY Zenon, <1>3
  <2>2. QED
    BY Zenon, <1>1, <1>2, <2>1
<1>6. QED
  BY Zenon, <1>4, <1>5 DEF Listing

HardwareKinds ==
    {"hardware/device", "hardware/harness", "hardware/pdk", "hardware/stdcells",
     "hardware/macro"}

(* The device and what it is built from.                                   *)
LEMMA HardwareKind ==
    ASSUME NEW t
    PROVE  Listing(Bill!collect_hardware(t), HardwareKinds)
<1> DEFINE
      device == Bill!component(<<"release", "device">>, "hardware/device",
        t.release.release_id, Bill!NoText, {"Apache-2.0"}, Bill!NoText,
        {<<"as-of", t.release.as_of>>,
         <<"package-status", t.package.package_status>>})
      shell == Bill!component(<<"release", "shell">>, "hardware/harness",
        "openframe", t.release.shell_commit, {}, "terms not inventoried", {})
      pdk == Bill!component(<<"harden", "pdk">>, "hardware/pdk", t.harden.PDK,
        Bill!NoText, {}, "no PDK files vendored", {})
      cells == Bill!component(<<"harden", "cells">>, "hardware/stdcells",
        t.harden.STD_CELL_LIBRARY, Bill!NoText, {}, "no cell views vendored",
        {<<"pdk", t.harden.PDK>>})
      macro == Bill!component(<<"release", "macro">>, "hardware/macro",
        t.release.macro, Bill!NoText, {}, "commercial IP", {})
<1>1. /\ Entry(device, "hardware/device", t.release.release_id, Bill!NoText)
      /\ Entry(shell, "hardware/harness", "openframe", t.release.shell_commit)
      /\ Entry(pdk, "hardware/pdk", t.harden.PDK, Bill!NoText)
      /\ Entry(cells, "hardware/stdcells", t.harden.STD_CELL_LIBRARY,
               Bill!NoText)
      /\ Entry(macro, "hardware/macro", t.release.macro, Bill!NoText)
  <2>1. Entry(device, "hardware/device", t.release.release_id, Bill!NoText)
    BY Zenon, ComponentEntry
  <2>2. Entry(shell, "hardware/harness", "openframe", t.release.shell_commit)
    BY Zenon, ComponentEntry
  <2>3. Entry(pdk, "hardware/pdk", t.harden.PDK, Bill!NoText)
    BY Zenon, ComponentEntry
  <2>4. Entry(cells, "hardware/stdcells", t.harden.STD_CELL_LIBRARY,
              Bill!NoText)
    BY Zenon, ComponentEntry
  <2>5. Entry(macro, "hardware/macro", t.release.macro, Bill!NoText)
    BY Zenon, ComponentEntry
  <2>6. QED
    BY Zenon, <2>1, <2>2, <2>3, <2>4, <2>5
<1>2. Bill!collect_hardware(t) = {device, shell, pdk, cells, macro}
  BY Zenon DEF Bill!collect_hardware
<1> HIDE DEF device, shell, pdk, cells, macro
<1>3. ASSUME NEW c \in {device, shell, pdk, cells, macro}
      PROVE  IsEntry(c) /\ c.ref[1] \in HardwareKinds
  BY Zenon, <1>1 DEF Entry, HardwareKinds
<1>4. QED
  BY Zenon, <1>2, <1>3 DEF Listing

(* The entries of a scan, one for each of its names and versions.          *)
LEMMA ScannedEntries ==
    ASSUME NEW kind, NEW entries, NEW reason
    PROVE  /\ Listing(Bill!Scanned(kind, entries, reason), {kind})
           /\ \A e \in entries :
                \E c \in Bill!Scanned(kind, entries, reason) :
                  Entry(c, kind, e.name, e.version)
<1> DEFINE C(e) == Bill!component(<<kind, e.name, e.version>>, kind, e.name,
                     e.version, {}, reason, {<<"source", f>> : f \in e.files})
<1>1. ASSUME NEW e PROVE Entry(C(e), kind, e.name, e.version)
  BY Zenon, ComponentEntry
<1>2. Bill!Scanned(kind, entries, reason) = {C(e) : e \in entries}
  BY Zenon DEF Bill!Scanned
<1> HIDE DEF C
<1>3. ASSUME NEW c \in Bill!Scanned(kind, entries, reason)
      PROVE  IsEntry(c) /\ c.ref[1] \in {kind}
  <2>1. PICK e \in entries : c = C(e)
    BY Zenon, <1>2
  <2>2. QED
    BY Zenon, <1>1, <2>1 DEF Entry
<1>4. ASSUME NEW e \in entries
      PROVE  \E c \in Bill!Scanned(kind, entries, reason) :
                  Entry(c, kind, e.name, e.version)
  BY Zenon, <1>1, <1>2
<1>5. QED
  BY Zenon, <1>3, <1>4 DEF Listing

(* An entry that gets more properties is the same entry.                   *)
LEMMA MoreProperties ==
    ASSUME NEW c, NEW more, NEW kind, NEW name, NEW version
    PROVE  LET d == [c EXCEPT !.properties = @ \cup more]
           IN  /\ IsEntry(c) => IsEntry(d) /\ d.ref = c.ref
               /\ Entry(c, kind, name, version) => Entry(d, kind, name, version)
<1> DEFINE d == [c EXCEPT !.properties = @ \cup more]
<1>1. IsEntry(c) => IsEntry(d) /\ d.ref = c.ref
  BY DEF IsEntry
<1>2. QED
  BY Zenon, <1>1 DEF Entry

(* The actions a scan found at a commit.                                   *)
LEMMA ActionEntries ==
    ASSUME NEW scan
    PROVE  /\ Listing(Bill!collect_actions(scan), {"action"})
           /\ \A e \in scan.actions :
                \E c \in Bill!collect_actions(scan) :
                  Entry(c, "action", e.name, e.version)
<1> DEFINE S == Bill!Scanned("action", scan.actions, "licenses not inventoried")
           More(c) == {<<"release-tag", e.tag>> :
                         e \in {x \in scan.actions :
                                  <<"action", x.name, x.version>> = c.ref}}
           D(c) == [c EXCEPT !.properties = @ \cup More(c)]
<1>1. Bill!collect_actions(scan) = {D(c) : c \in S}
  BY Zenon DEF Bill!collect_actions
<1>2. /\ Listing(S, {"action"})
      /\ \A e \in scan.actions :
           \E c \in S : Entry(c, "action", e.name, e.version)
  BY Zenon, ScannedEntries
<1> HIDE DEF S, More
<1>3. \A c : IsEntry(c) => IsEntry(D(c)) /\ D(c).ref = c.ref
  BY Zenon, MoreProperties
<1>4. \A c, name, version :
        Entry(c, "action", name, version)
          => Entry(D(c), "action", name, version)
  BY Zenon, MoreProperties
<1> HIDE DEF D
<1>5. ASSUME NEW c \in Bill!collect_actions(scan)
      PROVE  IsEntry(c) /\ c.ref[1] \in {"action"}
  BY Zenon, <1>1, <1>2, <1>3 DEF Listing
<1>6. ASSUME NEW e \in scan.actions
      PROVE  \E c \in Bill!collect_actions(scan) :
                  Entry(c, "action", e.name, e.version)
  <2>1. PICK c \in S : Entry(c, "action", e.name, e.version)
    BY Zenon, <1>2
  <2>2. D(c) \in Bill!collect_actions(scan)
    BY Zenon, <1>1
  <2>3. QED
    BY Zenon, <1>4, <2>1, <2>2
<1>7. QED
  BY Zenon, <1>5, <1>6 DEF Listing

ToolKinds == {"toolchain", "toolchain/apt", "pypi", "repo", "container"}

(* The tools: what a scan found of each kind is listed.                    *)
LEMMA ToolEntries ==
    ASSUME NEW t, NEW scan
    PROVE  LET S == Bill!collect_toolchain(t, scan)
           IN  /\ Listing(S, ToolKinds)
               /\ \A e \in scan.apt :
                    \E c \in S : Entry(c, "toolchain/apt", e.name, e.version)
               /\ \A e \in scan.pip :
                    \E c \in S : Entry(c, "pypi", e.name, e.version)
               /\ \A e \in scan.containers :
                    \E c \in S : Entry(c, "container", e.name, e.version)
               /\ \A e \in scan.repo_refs :
                    \E c \in S : Entry(c, "repo", e.name, e.version)
               /\ \A n \in DOMAIN t.engines :
                    \E c \in S : Entry(c, "toolchain", n, t.engines[n])
               /\ \A v \in scan.python_versions :
                    \E c \in S : Entry(c, "toolchain", "python", v)
<1> DEFINE
      E(n) == Bill!component(<<"engines", n>>, "toolchain", n, t.engines[n], {},
                             "installed by CI", {<<"source", "package.json">>})
      P(v) == Bill!component(<<"python-version", v>>, "toolchain", "python", v,
                             {}, "installed by CI", {<<"source", "ci.yml">>})
      Engines == {E(n) : n \in DOMAIN t.engines}
      Pythons == {P(v) : v \in scan.python_versions}
      Apt == Bill!Scanned("toolchain/apt", scan.apt,
                          "neither version nor license pinned")
      Pip == Bill!Scanned("pypi", scan.pip, "license not declared")
      Repo == Bill!Scanned("repo", scan.repo_refs, "not inventoried in NOTICE")
      Container == Bill!Scanned("container", scan.containers,
                                "image license not declared")
<1>1. \A n : Entry(E(n), "toolchain", n, t.engines[n])
  BY Zenon, ComponentEntry
<1>2. \A v : Entry(P(v), "toolchain", "python", v)
  BY Zenon, ComponentEntry
<1>3. Bill!collect_toolchain(t, scan)
        = Engines \cup Pythons \cup Apt \cup Pip \cup Repo \cup Container
  BY Zenon DEF Bill!collect_toolchain
<1> HIDE DEF E, P
<1>4. Listing(Engines, {"toolchain"}) /\ Listing(Pythons, {"toolchain"})
  <2>1. ASSUME NEW c \in Engines PROVE IsEntry(c) /\ c.ref[1] \in {"toolchain"}
    <3>1. PICK n \in DOMAIN t.engines : c = E(n)
      BY Zenon
    <3>2. QED
      BY Zenon, <1>1, <3>1 DEF Entry
  <2>2. ASSUME NEW c \in Pythons PROVE IsEntry(c) /\ c.ref[1] \in {"toolchain"}
    <3>1. PICK v \in scan.python_versions : c = P(v)
      BY Zenon
    <3>2. QED
      BY Zenon, <1>2, <3>1 DEF Entry
  <2>3. QED
    BY Zenon, <2>1, <2>2 DEF Listing
<1>5. /\ Listing(Repo, {"repo"})
      /\ \A e \in scan.repo_refs :
           \E c \in Repo : Entry(c, "repo", e.name, e.version)
  BY Zenon, ScannedEntries
<1>6. /\ Listing(Apt, {"toolchain/apt"})
      /\ \A e \in scan.apt :
           \E c \in Apt : Entry(c, "toolchain/apt", e.name, e.version)
  BY Zenon, ScannedEntries
<1>7. /\ Listing(Pip, {"pypi"})
      /\ \A e \in scan.pip :
           \E c \in Pip : Entry(c, "pypi", e.name, e.version)
  BY Zenon, ScannedEntries
<1>8. /\ Listing(Container, {"container"})
      /\ \A e \in scan.containers :
           \E c \in Container : Entry(c, "container", e.name, e.version)
  BY Zenon, ScannedEntries
<1>9. /\ \A n \in DOMAIN t.engines :
           \E c \in Engines : Entry(c, "toolchain", n, t.engines[n])
      /\ \A v \in scan.python_versions :
           \E c \in Pythons : Entry(c, "toolchain", "python", v)
  BY Zenon, <1>1, <1>2
<1> HIDE DEF Engines, Pythons, Apt, Pip, Repo, Container
<1>10. Listing(Bill!collect_toolchain(t, scan), ToolKinds)
  BY Zenon, <1>3, <1>4, <1>5, <1>6, <1>7, <1>8 DEF Listing, ToolKinds
<1>11. /\ \A c \in Engines : c \in Bill!collect_toolchain(t, scan)
       /\ \A c \in Pythons : c \in Bill!collect_toolchain(t, scan)
       /\ \A c \in Apt : c \in Bill!collect_toolchain(t, scan)
       /\ \A c \in Pip : c \in Bill!collect_toolchain(t, scan)
       /\ \A c \in Repo : c \in Bill!collect_toolchain(t, scan)
       /\ \A c \in Container : c \in Bill!collect_toolchain(t, scan)
  BY Zenon, <1>3
<1>12. QED
  BY Zenon, <1>5, <1>6, <1>7, <1>8, <1>9, <1>10, <1>11

(* The submodules, each at its gitlink or given as unpinned.               *)
LEMMA SubmoduleEntries ==
    ASSUME NEW t, NEW git
    PROVE  LET modules == Bill!parse_gitmodules(t.gitmodules)
               S == Bill!collect_submodules(t, git)
               At(i) == LET sha == Bill!ls_tree(git, modules[i].path)
                        IN  IF sha = Bill!NoText THEN "unpinned" ELSE sha
           IN  /\ \A c \in S : \E i \in DOMAIN modules :
                    Entry(c, "submodule", modules[i].path, At(i))
               /\ \A i \in DOMAIN modules : \E c \in S :
                    Entry(c, "submodule", modules[i].path, At(i))
<1> DEFINE
      modules == Bill!parse_gitmodules(t.gitmodules)
      sha(i) == Bill!ls_tree(git, modules[i].path)
      present(i) == Bill!submodule_status(git, modules, modules[i].path)
      licenses(i) == IF modules[i].path \in DOMAIN Declared
                     THEN Declared[modules[i].path] ELSE {}
      At(i) == IF sha(i) = Bill!NoText THEN "unpinned" ELSE sha(i)
      C(i) == Bill!component(<<"gitmodules", i>>, "submodule", modules[i].path,
                At(i), licenses(i),
                IF licenses(i) = {} THEN "not inventoried in NOTICE"
                                    ELSE Bill!NoText,
                {<<"url", modules[i].url>>, <<"checked-out", present(i)>>}
                  \cup (IF sha(i) = Bill!NoText THEN {<<"gap", "gitlink">>}
                        ELSE {})
                  \cup (IF present(i) = "false" THEN {<<"gap", "files">>}
                        ELSE {}))
<1>1. \A i : Entry(C(i), "submodule", modules[i].path, At(i))
  BY Zenon, ComponentEntry
<1>2. Bill!collect_submodules(t, git) = {C(i) : i \in DOMAIN modules}
  BY Zenon DEF Bill!collect_submodules
<1> HIDE DEF C, At, modules
<1>3. /\ \A c \in Bill!collect_submodules(t, git) : \E i \in DOMAIN modules :
           Entry(c, "submodule", modules[i].path, At(i))
      /\ \A i \in DOMAIN modules : \E c \in Bill!collect_submodules(t, git) :
           Entry(c, "submodule", modules[i].path, At(i))
  BY Zenon, <1>1, <1>2
<1>4. QED
  BY Zenon, <1>3 DEF At, modules

(* What a scan groups it keeps, one entry for each name and version.       *)
LEMMA GroupedCovers ==
    ASSUME NEW texts, NEW found, NEW f \in found
    PROVE  \E e \in Bill!Grouped(texts, found) :
             e.name = f[1][1] /\ e.version = f[1][2]
<1> DEFINE places(k) == {g[2] : g \in {h \in found : h[1] = k}}
           tag(k) == Bill!Line(texts, Bill!FirstOf(places(k))).tag
           files(k) == {texts[p[1]].file : p \in places(k)}
           e(k) == [name |-> k[1], version |-> k[2], tag |-> tag(k),
                    files |-> files(k)]
<1>1. Bill!Grouped(texts, found) = {e(k) : k \in {g[1] : g \in found}}
  BY Zenon DEF Bill!Grouped
<1> HIDE DEF places, tag, files
<1>2. \A k : e(k).name = k[1] /\ e(k).version = k[2]
  OBVIOUS
<1> HIDE DEF e
<1>3. e(f[1]) \in Bill!Grouped(texts, found)
  BY Zenon, <1>1
<1>4. QED
  BY Zenon, <1>2, <1>3

(* What the scan finds in a line of a workflow.                            *)
LEMMA ScanFinds ==
    ASSUME NEW t, NEW i \in DOMAIN t.workflows,
           NEW j \in DOMAIN t.workflows[i].lines
    PROVE  LET l == t.workflows[i].lines[j]
               scan == Bill!scan_workflows(t)
           IN  /\ l.kind = "uses" /\ l.at \notin Sha
                    => <<l.name, l.at>> \in scan.unpinned
               /\ l.kind = "uses" /\ l.at \in Sha /\ l.tag # Bill!NoText
                    => \E e \in scan.actions :
                         e.name = l.name /\ e.version = l.at
               /\ l.kind = "pip" /\ l.at # Bill!NoText
                    => \E e \in scan.pip : e.name = l.name /\ e.version = l.at
               /\ l.kind = "apt"
                    => \E e \in scan.apt :
                         e.name = l.name /\ e.version = Bill!NoText
               /\ l.kind = "container"
                    => \E e \in scan.containers :
                         e.name = l.name /\ e.version = Bill!NoText
               /\ l.kind = "python" => l.name \in scan.python_versions
<1> DEFINE texts == t.workflows
           scan == Bill!scan_workflows(t)
           l == t.workflows[i].lines[j]
           p == <<i, j>>
           of(kind) == Bill!LinesOf(texts, kind)
           at(q) == Bill!Line(texts, q).at
           named(q, version) == <<<<Bill!Line(texts, q).name, version>>, q>>
           uses == {q \in of("uses") :
                      at(q) \in Sha /\ Bill!Line(texts, q).tag # Bill!NoText}
<1>1. /\ scan.actions = Bill!Grouped(texts, {named(q, at(q)) : q \in uses})
      /\ scan.unpinned = {<<Bill!Line(texts, q).name, at(q)>> :
                            q \in {x \in of("uses") : at(x) \notin Sha}}
      /\ scan.containers =
           Bill!Grouped(texts, {named(q, Bill!NoText) : q \in of("container")})
      /\ scan.pip = Bill!Grouped(texts, {named(q, at(q)) :
                         q \in {x \in of("pip") : at(x) # Bill!NoText}})
      /\ scan.apt =
           Bill!Grouped(texts, {named(q, Bill!NoText) : q \in of("apt")})
      /\ scan.python_versions =
           {Bill!Line(texts, q).name : q \in of("python")}
  <2>1. \A a, b, c, d, e, f, g :
          LET r == [actions |-> a, unpinned |-> b, repo_refs |-> c,
                    containers |-> d, pip |-> e, apt |-> f,
                    python_versions |-> g]
          IN  /\ r.actions = a /\ r.unpinned = b /\ r.containers = d
              /\ r.pip = e /\ r.apt = f /\ r.python_versions = g
    OBVIOUS
  <2>2. QED
    BY Zenon, <2>1 DEF Bill!scan_workflows
<1>2. Bill!Line(texts, p) = l
  BY DEF Bill!Line
<1>3. \A kind : l.kind = kind => p \in of(kind)
  <2>1. p \in UNION {{x} \X DOMAIN texts[x].lines : x \in DOMAIN texts}
    OBVIOUS
  <2>2. QED
    BY Zenon, <1>2, <2>1 DEF Bill!LinesOf
<1>4. \A version : named(p, version)[1] = <<l.name, version>>
  BY <1>2
<1>5. \A version : /\ named(p, version)[1][1] = l.name
                   /\ named(p, version)[1][2] = version
  BY <1>4
<1>6. at(p) = l.at
  BY Zenon, <1>2
<1> HIDE DEF of, named, at, p, l, scan, texts
<1> DEFINE Uses == {named(q, at(q)) : q \in uses}
           Pips == {named(q, at(q)) :
                      q \in {x \in of("pip") : at(x) # Bill!NoText}}
           Apts == {named(q, Bill!NoText) : q \in of("apt")}
           Containers == {named(q, Bill!NoText) : q \in of("container")}
<1>7. /\ scan.actions = Bill!Grouped(texts, Uses)
      /\ scan.pip = Bill!Grouped(texts, Pips)
      /\ scan.apt = Bill!Grouped(texts, Apts)
      /\ scan.containers = Bill!Grouped(texts, Containers)
  BY Zenon, <1>1
<1>8. /\ l.kind = "uses" /\ l.at \notin Sha
           => <<l.name, l.at>> \in scan.unpinned
      /\ l.kind = "uses" /\ l.at \in Sha /\ l.tag # Bill!NoText
           => named(p, l.at) \in Uses
      /\ l.kind = "pip" /\ l.at # Bill!NoText => named(p, l.at) \in Pips
      /\ l.kind = "apt" => named(p, Bill!NoText) \in Apts
      /\ l.kind = "container" => named(p, Bill!NoText) \in Containers
      /\ l.kind = "python" => l.name \in scan.python_versions
  BY Zenon, <1>1, <1>2, <1>3, <1>6
<1> HIDE DEF Uses, Pips, Apts, Containers
<1>9. \A found, version : named(p, version) \in found =>
        \E e \in Bill!Grouped(texts, found) :
          e.name = l.name /\ e.version = version
  <2>1. SUFFICES ASSUME NEW found, NEW version, named(p, version) \in found
                 PROVE  \E e \in Bill!Grouped(texts, found) :
                          e.name = l.name /\ e.version = version
    BY Zenon
  <2>2. PICK e \in Bill!Grouped(texts, found) :
          /\ e.name = named(p, version)[1][1]
          /\ e.version = named(p, version)[1][2]
    BY Zenon, <2>1, GroupedCovers
  <2>3. QED
    BY Zenon, <1>5, <2>2
<1>10. /\ l.kind = "uses" /\ l.at \notin Sha
            => <<l.name, l.at>> \in scan.unpinned
       /\ l.kind = "uses" /\ l.at \in Sha /\ l.tag # Bill!NoText
            => \E e \in scan.actions : e.name = l.name /\ e.version = l.at
       /\ l.kind = "pip" /\ l.at # Bill!NoText
            => \E e \in scan.pip : e.name = l.name /\ e.version = l.at
       /\ l.kind = "apt"
            => \E e \in scan.apt : e.name = l.name /\ e.version = Bill!NoText
       /\ l.kind = "container"
            => \E e \in scan.containers :
                 e.name = l.name /\ e.version = Bill!NoText
       /\ l.kind = "python" => l.name \in scan.python_versions
  BY <1>7, <1>8, <1>9
<1>11. QED
  BY Zenon, <1>10 DEF l, scan

(* A checkout of another repository is found at the first commit that the  *)
(* next lines name.                                                        *)
LEMMA ScanFindsCheckout ==
    ASSUME NEW t, NEW i \in DOMAIN t.workflows,
           NEW j \in DOMAIN t.workflows[i].lines,
           t.workflows[i].lines[j].kind = "repository",
           NEW k \in RefsBelow(t, i, j),
           \A m \in RefsBelow(t, i, j) : k <= m
    PROVE  \E e \in Bill!scan_workflows(t).repo_refs :
             /\ e.name = t.workflows[i].lines[j].name
             /\ e.version = t.workflows[i].lines[k].at
<1> DEFINE texts == t.workflows
           p == <<i, j>>
           of(kind) == Bill!LinesOf(texts, kind)
           at(q) == Bill!Line(texts, q).at
           named(q, version) == <<<<Bill!Line(texts, q).name, version>>, q>>
           refs(x) == {q \in of("ref") :
                         /\ q[1] = x[1]
                         /\ q[2] \in (x[2] + 1)..(x[2] + Bill!ROW_WINDOW)
                         /\ at(q) \in Sha}
           ref(x) == CHOOSE q \in refs(x) : \A r \in refs(x) : q[2] <= r[2]
           Found == {named(q, at(ref(q))) :
                       q \in {x \in of("repository") : refs(x) # {}}}
<1>1. Bill!scan_workflows(t).repo_refs = Bill!Grouped(texts, Found)
  <2>1. \A a, b, c, d, e, f, g :
          [actions |-> a, unpinned |-> b, repo_refs |-> c, containers |-> d,
           pip |-> e, apt |-> f, python_versions |-> g].repo_refs = c
    OBVIOUS
  <2>2. QED
    BY Zenon, <2>1 DEF Bill!scan_workflows
<1>2. \A q : q \in refs(p) <=> q[1] = i /\ q = <<i, q[2]>> /\ q[2] \in RefsBelow(t, i, j)
  <2>1. \A q : q \in of("ref") <=>
          \E x \in DOMAIN texts : /\ q \in {x} \X DOMAIN texts[x].lines
                                  /\ Bill!Line(texts, q).kind = "ref"
    BY Zenon DEF Bill!LinesOf
  <2>2. \A q : q \in of("ref") /\ q[1] = i <=>
          /\ q = <<i, q[2]>> /\ q[2] \in DOMAIN texts[i].lines
          /\ texts[i].lines[q[2]].kind = "ref"
    BY <2>1 DEF Bill!Line
  <2>3. \A x : at(<<i, x>>) = texts[i].lines[x].at
    BY DEF Bill!Line
  <2>4. p[1] = i /\ p[2] = j
    OBVIOUS
  <2>5. \A q : q = <<i, q[2]>> => q[1] = i
    OBVIOUS
  <2>6. \A q : q[1] = i /\ q = <<i, q[2]>> => at(q) = texts[i].lines[q[2]].at
    BY <2>3
  <2> HIDE DEF of, at, p
  <2>7. QED
    BY Zenon, <2>2, <2>4, <2>5, <2>6 DEF RefsBelow, texts
<1>3. RefsBelow(t, i, j) \subseteq Int
  BY DEF RefsBelow
<1>4. p \in of("repository")
  BY DEF Bill!LinesOf, Bill!Line
<1>5. /\ named(p, at(ref(p)))[1][1] = texts[i].lines[j].name
      /\ named(p, at(ref(p)))[1][2] = at(ref(p))
  BY DEF Bill!Line
<1>6. at(<<i, k>>) = texts[i].lines[k].at
  BY DEF Bill!Line
<1> HIDE DEF of, at, named, refs, p, texts
<1>7. <<i, k>> \in refs(p) /\ \A r \in refs(p) : k <= r[2]
  <2>1. <<i, k>>[1] = i /\ <<i, k>>[2] = k
    OBVIOUS
  <2>2. QED
    BY Zenon, <1>2, <2>1
<1>8. ref(p) \in refs(p) /\ \A r \in refs(p) : ref(p)[2] <= r[2]
  <2>1. \E q \in refs(p) : \A r \in refs(p) : q[2] <= r[2]
    <3>1. <<i, k>>[2] = k
      OBVIOUS
    <3>2. QED
      BY Zenon, <1>7, <3>1
  <2>2. QED
    BY Zenon, <2>1
<1> HIDE DEF ref
<1>9. ref(p) = <<i, k>>
  <2>1. ref(p)[2] \in Int /\ k \in Int /\ ref(p) = <<i, ref(p)[2]>>
    BY Zenon, <1>2, <1>3, <1>8
  <2>2. <<i, k>>[2] = k
    OBVIOUS
  <2>3. ref(p)[2] <= k /\ k <= ref(p)[2]
    BY Zenon, <1>7, <1>8, <2>2
  <2>4. ref(p)[2] = k
    BY <2>1, <2>3
  <2>5. QED
    BY Zenon, <2>1, <2>4
<1>10. named(p, at(ref(p))) \in Found
  BY Zenon, <1>4, <1>7
<1> HIDE DEF Found
<1>11. PICK e \in Bill!Grouped(texts, Found) :
         /\ e.name = named(p, at(ref(p)))[1][1]
         /\ e.version = named(p, at(ref(p)))[1][2]
  BY Zenon, <1>10, GroupedCovers
<1>12. QED
  BY Zenon, <1>1, <1>5, <1>6, <1>9, <1>11 DEF texts

(* Everything that is listed is an entry; what each collector lists is     *)
(* there, and the npm packages and the submodules come from nowhere else.  *)
LEMMA CollectedEntries ==
    ASSUME NEW t, NEW git
    PROVE  LET S == Bill!collected(t, git)
               scan == Bill!scan_workflows(t)
           IN  /\ \A c \in S : IsEntry(c)
               /\ \A c \in S : c.ref[1] = "npm" => c \in Bill!collect_npm(t)
               /\ \A c \in S : c.ref[1] = "submodule"
                                 => c \in Bill!collect_submodules(t, git)
               /\ Bill!collect_npm(t) \subseteq S
               /\ Bill!collect_submodules(t, git) \subseteq S
               /\ Bill!collect_notice_files(t) \subseteq S
               /\ Bill!collect_toolchain(t, scan) \subseteq S
               /\ Bill!collect_actions(scan) \subseteq S
<1> DEFINE scan == Bill!scan_workflows(t)
           Npm == Bill!collect_npm(t)
           Req == Bill!collect_python(t).requirements
           Sub == Bill!collect_submodules(t, git)
           File == Bill!collect_notice_files(t)
           Hard == Bill!collect_hardware(t)
           Tool == Bill!collect_toolchain(t, scan)
           Act == Bill!collect_actions(scan)
<1>1. Bill!collected(t, git)
        = Npm \cup Req \cup Sub \cup File \cup Hard \cup Tool \cup Act
  BY Zenon DEF Bill!collected
<1>2. Listing(Npm, {"npm"})
  BY Zenon, NpmEntries DEF Listing, Entry
<1>3. Listing(Sub, {"submodule"})
  BY Zenon, SubmoduleEntries DEF Listing, Entry
<1>4. Listing(Req, {"pypi"})
  BY Zenon, RequirementKind
<1>5. Listing(File, {"file"})
  BY Zenon, NoticeEntries
<1>6. Listing(Hard, HardwareKinds)
  BY Zenon, HardwareKind
<1>7. Listing(Tool, ToolKinds)
  BY Zenon, ToolEntries
<1>8. Listing(Act, {"action"})
  BY Zenon, ActionEntries
<1> HIDE DEF scan, Npm, Req, Sub, File, Hard, Tool, Act
<1>9. \A c : c \in Req \/ c \in File \/ c \in Hard \/ c \in Tool \/ c \in Act
               => IsEntry(c) /\ c.ref[1] # "npm" /\ c.ref[1] # "submodule"
  <2>1. /\ "npm" \notin {"pypi"} /\ "submodule" \notin {"pypi"}
        /\ "npm" \notin {"file"} /\ "submodule" \notin {"file"}
        /\ "npm" \notin {"action"} /\ "submodule" \notin {"action"}
    BY Zenon
  <2>2. "npm" \notin HardwareKinds /\ "submodule" \notin HardwareKinds
    BY Zenon DEF HardwareKinds
  <2>3. "npm" \notin ToolKinds /\ "submodule" \notin ToolKinds
    BY Zenon DEF ToolKinds
  <2>4. \A S, kinds, c : /\ Listing(S, kinds) /\ c \in S
                         /\ "npm" \notin kinds /\ "submodule" \notin kinds
          => IsEntry(c) /\ c.ref[1] # "npm" /\ c.ref[1] # "submodule"
    BY Zenon DEF Listing
  <2>5. QED
    BY Zenon, <1>4, <1>5, <1>6, <1>7, <1>8, <2>1, <2>2, <2>3, <2>4
<1>10. \A c : /\ c \in Npm => IsEntry(c) /\ c.ref[1] # "submodule"
              /\ c \in Sub => IsEntry(c) /\ c.ref[1] # "npm"
  <2>1. "npm" # "submodule"
    BY Zenon
  <2>2. QED
    BY Zenon, <1>2, <1>3, <2>1 DEF Listing
<1>11. QED
  BY Zenon, <1>1, <1>9, <1>10
     DEF Npm, Req, Sub, File, Hard, Tool, Act, scan

(* What the generator writes when it does not refuse its inputs: every     *)
(* entry without its place, no reference twice, and one decision on the    *)
(* license of each.                                                        *)
LEMMA BuiltBom ==
    ASSUME NEW t, NEW git, NEW built, built = Bill!build_bom(t, git)
    PROVE  /\ built.bom.components =
                {Placeless(c) : c \in Bill!collected(t, git)}
           /\ built.bom.unpinned = Bill!scan_workflows(t).unpinned
           /\ ~built.raised =>
                \A c \in Bill!collected(t, git) :
                  /\ ~Bill!Undecided(c)
                  /\ \A d \in Bill!collected(t, git) : d.ref = c.ref => d = c
<1> DEFINE S == Bill!collected(t, git)
           duplicates == {c \in S : \E d \in S \ {c} : d.ref = c.ref}
           raised == duplicates # {} \/ \E c \in S : Bill!Undecided(c)
           placed == {Placeless(c) : c \in S}
           root == Bill!collect_python(t).root
           unpinned == Bill!scan_workflows(t).unpinned
           parts == Bill!_compositions(S)
<1>1. built = [raised |-> raised,
               bom |-> [root |-> root, components |-> placed,
                        unpinned |-> unpinned, compositions |-> parts]]
  BY Zenon DEF Bill!build_bom, Placeless
<1> HIDE DEF raised, placed, root, unpinned, parts, S
<1>3. /\ built.raised = raised /\ built.bom.components = placed
      /\ built.bom.unpinned = unpinned
  BY <1>1
<1>4. ~raised => \A c \in S : /\ ~Bill!Undecided(c)
                              /\ \A d \in S : d.ref = c.ref => d = c
  BY Zenon DEF raised
<1>5. QED
  BY Zenon, <1>3, <1>4 DEF placed, unpinned, S
-----------------------------------------------------------------------------
(* The inductive invariant about gitlinks: the submodules are those of the *)
(* first commit and each is pinned to a commit, .gitmodules is one of the  *)
(* inputs, and no document that was written calls a submodule that has a   *)
(* gitlink unpinned.                                                       *)
IsLinks(links) ==
    /\ DOMAIN links = DOMAIN BaseLinks
    /\ \A path \in DOMAIN links : IsCommit(links[path])

Pinned(bill) ==
    \A c \in bill.components :
      c.ref[1] = "submodule" /\ c.ref[2] \in DOMAIN BaseLinks
        => c.ref[3] # "unpinned"

Linked ==
    /\ "gitmodules" \in DOMAIN tree
    /\ tree.gitmodules \in Gitmodules /\ head.tree.gitmodules \in Gitmodules
    /\ IsLinks(index) /\ IsLinks(head.links)
    /\ Pinned(docs.sbom) /\ Pinned(head.docs.sbom)

(* A document written where git can be asked pins what has a gitlink.      *)
LEMMA WritesPinned ==
    ASSUME NEW t, NEW git, NEW file, git.here, IsLinks(git.head), Pinned(file)
    PROVE  Pinned(Bill!main_write(t, git, file))
<1> DEFINE built == Bill!build_bom(t, git)
           modules == Bill!parse_gitmodules(t.gitmodules)
<1>1. CASE built.raised
  BY Zenon, <1>1 DEF Bill!main_write
<1>2. CASE ~built.raised
  <2>1. Bill!main_write(t, git, file) = built.bom
    BY Zenon, <1>2 DEF Bill!main_write
  <2>2. built.bom.components = {Placeless(c) : c \in Bill!collected(t, git)}
    BY Zenon, BuiltBom
  <2>3. SUFFICES ASSUME NEW d \in built.bom.components,
                        d.ref[1] = "submodule", d.ref[2] \in DOMAIN BaseLinks
                 PROVE  d.ref[3] # "unpinned"
    BY Zenon, <2>1 DEF Pinned
  <2>4. PICK c \in Bill!collected(t, git) : d = Placeless(c)
    BY Zenon, <2>2
  <2>5. d.ref = c.ref
    BY Zenon, <2>4, CollectedEntries, PlacelessKeeps
  <2>6. c \in Bill!collect_submodules(t, git)
    BY Zenon, <2>3, <2>5, CollectedEntries
  <2>7. PICK i \in DOMAIN modules :
          LET sha == Bill!ls_tree(git, modules[i].path)
          IN  Entry(c, "submodule", modules[i].path,
                    IF sha = Bill!NoText THEN "unpinned" ELSE sha)
    BY Zenon, <2>6, SubmoduleEntries
  <2> DEFINE path == modules[i].path
  <2>8. path \in DOMAIN git.head
    BY Zenon, <2>3, <2>5, <2>7 DEF Entry, IsLinks
  <2>9. Bill!ls_tree(git, path) = git.head[path]
    BY Zenon, <2>8 DEF Bill!ls_tree
  <2>10. git.head[path] # Bill!NoText /\ git.head[path] # "unpinned"
    BY Zenon, <2>8 DEF IsLinks, IsCommit
  <2>11. d.ref[3] = git.head[path]
    BY Zenon, <2>5, <2>7, <2>9, <2>10 DEF Entry
  <2>12. QED
    BY Zenon, <2>10, <2>11
<1>3. QED
  BY Zenon, <1>1, <1>2

(* The first commit has the gitlinks it is given.                          *)
LEMMA InitLinked == Init => Linked
<1> SUFFICES ASSUME Init PROVE Linked
  OBVIOUS
<1> DEFINE git == [here |-> TRUE, head |-> BaseLinks, index |-> BaseLinks,
                   populated |-> {}]
           bill == Bill!main_write(BaseTree, git, Bill!Missing)
<1>1. /\ tree = BaseTree /\ index = BaseLinks /\ docs.sbom = bill
      /\ head.tree = BaseTree /\ head.links = BaseLinks
      /\ head.docs.sbom = bill
  BY DEF Init
<1>2. IsLinks(BaseLinks)
  BY SubmodulesAssumption DEF IsLinks
<1>3. Pinned(Bill!Missing)
  BY DEF Pinned, Bill!Missing
<1>4. git.here /\ git.head = BaseLinks
  OBVIOUS
<1> HIDE DEF git
<1>5. Pinned(bill)
  BY Zenon, <1>2, <1>3, <1>4, WritesPinned
<1> HIDE DEF bill
<1>6. "gitmodules" \in DOMAIN BaseTree /\ BaseTree.gitmodules \in Gitmodules
  BY SubmodulesAssumption DEF Gitmodules
<1>7. QED
  BY Zenon, <1>1, <1>2, <1>5, <1>6 DEF Linked

(* Only a bump moves a gitlink, and only the generator writes the SBOM.    *)
LEMMA LinkedStep == Inv /\ Linked /\ [Next]_vars => Linked'
<1> SUFFICES ASSUME Inv, Linked, [Next]_vars PROVE Linked'
  OBVIOUS
<1>1. \/ UNCHANGED <<tree, index, docs, head>>
      \/ Edit
      \/ \E path \in DOMAIN BaseLinks : Bump(path)
      \/ WriteSbom
      \/ \E written \in 1 .. Len(Contract!Files) : WriteFabrication(written)
      \/ Commit
  BY DEF Next, Populate, Verify, PlanMemory, vars
<1>2. CASE UNCHANGED <<tree, index, docs, head>>
  BY Zenon, <1>2 DEF Linked
<1>3. CASE Edit
  <2>1. /\ index' = index /\ docs' = docs /\ head' = head
        /\ \E field \in DOMAIN Variants : \E value \in Variants[field] :
             tree' = [tree EXCEPT ![field] = value]
    BY <1>3 DEF Edit
  <2>2. PICK field \in DOMAIN Variants : \E value \in Variants[field] :
          tree' = [tree EXCEPT ![field] = value]
    BY <2>1
  <2>3. "gitmodules" \in DOMAIN tree' /\ tree'.gitmodules \in Gitmodules
    <3>1. CASE field = "gitmodules"
      BY <2>2, <3>1 DEF Linked, Gitmodules
    <3>2. CASE field # "gitmodules"
      BY <2>2, <3>2 DEF Linked
    <3>3. QED
      BY <3>1, <3>2
  <2>4. QED
    BY Zenon, <2>1, <2>3 DEF Linked
<1>4. ASSUME NEW path \in DOMAIN BaseLinks, Bump(path)
      PROVE  Linked'
  <2>1. /\ tree' = tree /\ docs' = docs /\ head' = head
        /\ index' = [index EXCEPT ![path] = NewSha]
    BY <1>4 DEF Bump
  <2>2. IsLinks(index')
    BY <2>1, SubmodulesAssumption DEF Linked, IsLinks
  <2>3. QED
    BY Zenon, <2>1, <2>2 DEF Linked
<1>5. CASE WriteSbom
  <2>1. /\ tree' = tree /\ index' = index /\ head' = head
        /\ docs' = [docs EXCEPT !.sbom =
                      Bill!main_write(tree, GitAt("checkout"), @)]
    BY <1>5 DEF WriteSbom
  <2>2. docs'.sbom = Bill!main_write(tree, GitAt("checkout"), docs.sbom)
    BY <2>1 DEF Inv, Shapes
  <2>3. GitAt("checkout").here /\ GitAt("checkout").head = head.links
    BY DEF GitAt
  <2>4. Pinned(docs'.sbom)
    BY Zenon, <2>2, <2>3, WritesPinned DEF Linked
  <2>5. QED
    BY Zenon, <2>1, <2>4 DEF Linked
<1>6. ASSUME NEW written \in 1 .. Len(Contract!Files), WriteFabrication(written)
      PROVE  Linked'
  <2>1. /\ tree' = tree /\ index' = index /\ head' = head
        /\ docs' = [docs EXCEPT !.csv =
                      Contract!fabrication_write(tree.package, @, written)]
    BY <1>6 DEF WriteFabrication
  <2>2. docs'.sbom = docs.sbom
    BY <2>1 DEF Inv, Shapes
  <2>3. QED
    BY Zenon, <2>1, <2>2 DEF Linked
<1>7. CASE Commit
  <2>1. /\ tree' = tree /\ index' = index /\ docs' = docs
        /\ head'.tree = tree /\ head'.links = index /\ head'.docs = docs
    BY <1>7 DEF Commit
  <2>2. QED
    BY Zenon, <2>1 DEF Linked
<1>8. QED
  BY Zenon, <1>1, <1>2, <1>3, <1>4, <1>5, <1>6, <1>7

(* The gitlinks and the documents agree throughout every behaviour.        *)
LEMMA LinksInvariant == Spec => []Linked
  BY InitInv, InvStep, InitLinked, LinkedStep, PTL DEF Spec
-----------------------------------------------------------------------------
(* A path line of a submodule with a gitlink is the path of its section.   *)
LEMMA PathParsed ==
    ASSUME NEW text \in Gitmodules, NEW j \in DOMAIN text,
           text[j].key = "path", text[j].value \in DOMAIN BaseLinks
    PROVE  LET modules == Bill!parse_gitmodules(text)
           IN  \E i \in DOMAIN modules : modules[i].path = text[j].value
<1>1. /\ IsSequence(text)
      /\ \E i \in DOMAIN text :
           /\ text[i].kind = "section"
           /\ j \in Bill!Given(text, i, "path")
           /\ \A k \in Bill!Given(text, i, "path") : k <= j
  BY Zenon, SubmodulesAssumption
<1>2. PICK i \in DOMAIN text :
        /\ text[i].kind = "section"
        /\ j \in Bill!Given(text, i, "path")
        /\ \A k \in Bill!Given(text, i, "path") : k <= j
  BY Zenon, <1>1
<1>3. Bill!Value(text, i, "path") = text[j].value
  <2> DEFINE lines == Bill!Given(text, i, "path")
  <2>1. lines \subseteq Int
    BY <1>1 DEF Bill!Given, IsSequence
  <2>2. \E x \in lines : \A k \in lines : k <= x
    BY Zenon, <1>2
  <2>3. Bill!Value(text, i, "path")
          = text[CHOOSE x \in lines : \A k \in lines : k <= x].value
    BY Zenon, <1>2 DEF Bill!Value
  <2> HIDE DEF lines
  <2> DEFINE last == CHOOSE x \in lines : \A k \in lines : k <= x
  <2>4. last \in lines /\ \A k \in lines : k <= last
    BY Zenon, <2>2
  <2>5. j \in lines /\ \A k \in lines : k <= j
    BY Zenon, <1>2 DEF lines
  <2> HIDE DEF last
  <2>6. last = j
    <3>1. last \in Int /\ j \in Int /\ last <= j /\ j <= last
      BY Zenon, <2>1, <2>4, <2>5
    <3>2. QED
      BY <3>1
  <2>7. QED
    BY Zenon, <2>3, <2>6 DEF last
<1>4. i \in DOMAIN Bill!parse_gitmodules(text)
  BY Zenon, <1>2 DEF Bill!parse_gitmodules
<1>5. Bill!parse_gitmodules(text)[i].path = Bill!Value(text, i, "path")
  BY <1>4 DEF Bill!parse_gitmodules
<1>6. QED
  BY Zenon, <1>3, <1>4, <1>5

(* What a passed check of a document says of the inputs.                   *)
LEMMA CheckAccounts ==
    ASSUME NEW t, NEW git, NEW bill, NEW links,
           t.gitmodules \in Gitmodules, IsLinks(links),
           git.here => git.head = links, Pinned(bill),
           Bill!main_check(t, git, bill) = 0
    PROVE  Accounts(bill, t, links)
<1> DEFINE built == Bill!build_bom(t, git)
           S == Bill!collected(t, git)
           scan == Bill!scan_workflows(t)
           modules == Bill!parse_gitmodules(t.gitmodules)
<1>1. ~built.raised /\ bill = built.bom
  BY DEF Bill!main_check
<1>2. /\ bill.components = {Placeless(c) : c \in S}
      /\ bill.unpinned = scan.unpinned
      /\ \A c \in S : /\ ~Bill!Undecided(c)
                      /\ \A d \in S : d.ref = c.ref => d = c
  BY Zenon, <1>1, BuiltBom
<1>3. \A c \in S : /\ Placeless(c) \in bill.components
                   /\ Placeless(c).ref = c.ref
                   /\ Placeless(c).licenses = c.licenses
                   /\ Placeless(c).reason = c.reason
                   /\ Placeless(c).properties = c.properties
  BY Zenon, <1>2, CollectedEntries, PlacelessKeeps
<1>4. /\ Bill!collect_npm(t) \subseteq S
      /\ Bill!collect_submodules(t, git) \subseteq S
      /\ Bill!collect_notice_files(t) \subseteq S
      /\ Bill!collect_toolchain(t, scan) \subseteq S
      /\ Bill!collect_actions(scan) \subseteq S
      /\ \A c \in S : c.ref[1] = "npm" => c \in Bill!collect_npm(t)
  BY Zenon, CollectedEntries
<1>5. \A c \in S : \A kind, name, version : Entry(c, kind, name, version)
        => <<name, version>> \in Listed(bill, kind)
  <2>1. SUFFICES ASSUME NEW c \in S, NEW kind, NEW name, NEW version,
                        Entry(c, kind, name, version)
                 PROVE  <<name, version>> \in Listed(bill, kind)
    BY Zenon
  <2>2. Placeless(c) \in {d \in bill.components : d.ref[1] = kind}
    BY Zenon, <1>3, <2>1 DEF Entry
  <2>3. Placeless(c).ref[2] = name /\ Placeless(c).ref[3] = version
    BY Zenon, <1>3, <2>1 DEF Entry
  <2>4. QED
    BY Zenon, <2>2, <2>3 DEF Listed
<1> HIDE DEF S, scan, built
<1>6. Listed(bill, "npm")
        = {<<e.name, e.version>> : e \in {l \in t.lock : l.dir = "node_modules"}}
  <2>1. ASSUME NEW n \in Listed(bill, "npm")
        PROVE  n \in {<<e.name, e.version>> :
                        e \in {l \in t.lock : l.dir = "node_modules"}}
    <3>1. PICK d \in bill.components :
            d.ref[1] = "npm" /\ n = <<d.ref[2], d.ref[3]>>
      BY Zenon DEF Listed
    <3>2. PICK c \in S : d = Placeless(c)
      BY Zenon, <1>2
    <3>3. PICK e \in t.lock :
            e.dir = "node_modules" /\ Entry(c, "npm", e.name, e.version)
      BY Zenon, <1>3, <1>4, <3>1, <3>2, NpmEntries
    <3>4. n = <<e.name, e.version>>
      BY Zenon, <1>3, <3>1, <3>2, <3>3 DEF Entry
    <3>5. QED
      BY Zenon, <3>3, <3>4
  <2>2. ASSUME NEW e \in t.lock, e.dir = "node_modules"
        PROVE  <<e.name, e.version>> \in Listed(bill, "npm")
    BY Zenon, <1>4, <1>5, <2>2, NpmListed
  <2>3. QED
    BY Zenon, <2>1, <2>2
<1>7. ASSUME NEW j \in DOMAIN t.gitmodules, t.gitmodules[j].key = "path",
             t.gitmodules[j].value \in DOMAIN links
      PROVE  <<t.gitmodules[j].value, links[t.gitmodules[j].value]>>
               \in Listed(bill, "submodule")
  <2> DEFINE p == t.gitmodules[j].value
             sha == Bill!ls_tree(git, p)
             version == IF sha = Bill!NoText THEN "unpinned" ELSE sha
  <2>1. p \in DOMAIN BaseLinks
    BY Zenon, <1>7 DEF IsLinks
  <2>2. PICK i \in DOMAIN modules : modules[i].path = p
    BY Zenon, <1>7, <2>1, PathParsed
  <2>3. PICK c \in Bill!collect_submodules(t, git) :
          Entry(c, "submodule", p, version)
    BY Zenon, <2>2, SubmoduleEntries
  <2>4. version # "unpinned"
    <3>1. /\ Placeless(c) \in bill.components
          /\ Placeless(c).ref[1] = "submodule"
          /\ Placeless(c).ref[2] = p /\ Placeless(c).ref[3] = version
      BY Zenon, <1>3, <1>4, <2>3 DEF Entry
    <3>2. QED
      BY Zenon, <2>1, <3>1 DEF Pinned
  <2>5. version = links[p]
    BY Zenon, <2>4 DEF Bill!ls_tree
  <2>6. QED
    BY Zenon, <1>4, <1>5, <2>3, <2>5
<1>8. ASSUME NEW f \in DOMAIN NoticeFiles \cap DOMAIN t.notices
      PROVE  \E c \in bill.components :
               /\ c.ref[1] = "file" /\ c.ref[2] = f
               /\ <<"sha256", t.notices[f]>> \in c.properties
  <2>1. PICK c \in Bill!collect_notice_files(t) :
          /\ Entry(c, "file", f, Bill!NoText)
          /\ <<"sha256", t.notices[f]>> \in c.properties
    BY Zenon, NoticeEntries
  <2>2. /\ Placeless(c) \in bill.components
        /\ Placeless(c).ref = c.ref
        /\ Placeless(c).properties = c.properties
    BY Zenon, <1>3, <1>4
  <2>3. QED
    BY Zenon, <2>1, <2>2 DEF Entry
<1>9. WorkflowsListed(bill, t)
  <2> SUFFICES ASSUME NEW i \in DOMAIN t.workflows,
                      NEW j \in DOMAIN t.workflows[i].lines
               PROVE  LET l == t.workflows[i].lines[j]
                      IN  /\ l.kind = "uses" /\ l.at \notin Sha
                               => <<l.name, l.at>> \in bill.unpinned
                          /\ l.kind = "uses" /\ l.at \in Sha /\ l.tag # Bill!NoText
                               => <<l.name, l.at>> \in Listed(bill, "action")
                          /\ l.kind = "pip" /\ l.at # Bill!NoText
                               => <<l.name, l.at>> \in Listed(bill, "pypi")
                          /\ l.kind = "apt"
                               => <<l.name, Bill!NoText>>
                                    \in Listed(bill, "toolchain/apt")
                          /\ l.kind = "container"
                               => <<l.name, Bill!NoText>>
                                    \in Listed(bill, "container")
                          /\ l.kind = "python"
                               => <<"python", l.name>> \in Listed(bill, "toolchain")
                          /\ l.kind = "repository" =>
                               \A k \in RefsBelow(t, i, j) :
                                 (\A m \in RefsBelow(t, i, j) : k <= m) =>
                                   <<l.name, t.workflows[i].lines[k].at>>
                                     \in Listed(bill, "repo")
    BY Zenon DEF WorkflowsListed
  <2> DEFINE l == t.workflows[i].lines[j]
  <2>1. /\ l.kind = "uses" /\ l.at \notin Sha
             => <<l.name, l.at>> \in scan.unpinned
        /\ l.kind = "uses" /\ l.at \in Sha /\ l.tag # Bill!NoText
             => \E e \in scan.actions : e.name = l.name /\ e.version = l.at
        /\ l.kind = "pip" /\ l.at # Bill!NoText
             => \E e \in scan.pip : e.name = l.name /\ e.version = l.at
        /\ l.kind = "apt"
             => \E e \in scan.apt : e.name = l.name /\ e.version = Bill!NoText
        /\ l.kind = "container"
             => \E e \in scan.containers :
                  e.name = l.name /\ e.version = Bill!NoText
        /\ l.kind = "python" => l.name \in scan.python_versions
    BY Zenon, ScanFinds DEF scan
  <2>2. ASSUME l.kind = "repository", NEW k \in RefsBelow(t, i, j),
               \A m \in RefsBelow(t, i, j) : k <= m
        PROVE  \E e \in scan.repo_refs :
                 e.name = l.name /\ e.version = t.workflows[i].lines[k].at
    BY Zenon, <2>2, ScanFindsCheckout DEF scan
  <2> HIDE DEF l
  <2>3. \A e \in scan.actions : <<e.name, e.version>> \in Listed(bill, "action")
    BY Zenon, <1>4, <1>5, ActionEntries
  <2>4. /\ \A e \in scan.pip : <<e.name, e.version>> \in Listed(bill, "pypi")
        /\ \A e \in scan.apt :
             <<e.name, e.version>> \in Listed(bill, "toolchain/apt")
        /\ \A e \in scan.containers :
             <<e.name, e.version>> \in Listed(bill, "container")
        /\ \A e \in scan.repo_refs :
             <<e.name, e.version>> \in Listed(bill, "repo")
        /\ \A v \in scan.python_versions :
             <<"python", v>> \in Listed(bill, "toolchain")
    BY Zenon, <1>4, <1>5, ToolEntries
  <2>5. /\ l.kind = "uses" /\ l.at \notin Sha
             => <<l.name, l.at>> \in bill.unpinned
        /\ l.kind = "uses" /\ l.at \in Sha /\ l.tag # Bill!NoText
             => <<l.name, l.at>> \in Listed(bill, "action")
        /\ l.kind = "pip" /\ l.at # Bill!NoText
             => <<l.name, l.at>> \in Listed(bill, "pypi")
        /\ l.kind = "apt"
             => <<l.name, Bill!NoText>> \in Listed(bill, "toolchain/apt")
        /\ l.kind = "container"
             => <<l.name, Bill!NoText>> \in Listed(bill, "container")
        /\ l.kind = "python" => <<"python", l.name>> \in Listed(bill, "toolchain")
    BY <1>2, <2>1, <2>3, <2>4
  <2>6. ASSUME l.kind = "repository", NEW k \in RefsBelow(t, i, j),
               \A m \in RefsBelow(t, i, j) : k <= m
        PROVE  <<l.name, t.workflows[i].lines[k].at>> \in Listed(bill, "repo")
    <3>1. PICK e \in scan.repo_refs :
            e.name = l.name /\ e.version = t.workflows[i].lines[k].at
      BY Zenon, <2>2, <2>6
    <3>2. QED
      BY Zenon, <2>4, <3>1
  <2>7. QED
    BY Zenon, <2>5, <2>6 DEF l
<1>10. ASSUME NEW c \in bill.components, NEW d \in bill.components,
              c.ref = d.ref
       PROVE  c = d
  <2>1. PICK x \in S : c = Placeless(x)
    BY Zenon, <1>2
  <2>2. PICK y \in S : d = Placeless(y)
    BY Zenon, <1>2
  <2>3. x.ref = y.ref
    BY Zenon, <1>3, <1>10, <2>1, <2>2
  <2>4. QED
    BY Zenon, <1>2, <2>1, <2>2, <2>3
<1>11. ASSUME NEW c \in bill.components
       PROVE  (c.licenses = {}) # (c.reason = Bill!NoText)
  <2>1. PICK x \in S : c = Placeless(x)
    BY Zenon, <1>2
  <2>2. ~((x.licenses = {}) <=> (x.reason = Bill!NoText))
    BY Zenon, <1>2 DEF Bill!Undecided
  <2>3. QED
    BY Zenon, <1>3, <2>1, <2>2
<1> DEFINE paths == {t.gitmodules[i].value :
                       i \in {j \in DOMAIN t.gitmodules :
                                t.gitmodules[j].key = "path"}}
<1>12. {<<p, links[p]>> : p \in paths \cap DOMAIN links}
         \subseteq Listed(bill, "submodule")
  <2>1. SUFFICES ASSUME NEW p \in paths, p \in DOMAIN links
                 PROVE  <<p, links[p]>> \in Listed(bill, "submodule")
    BY Zenon
  <2>2. PICK j \in DOMAIN t.gitmodules :
          t.gitmodules[j].key = "path" /\ p = t.gitmodules[j].value
    BY Zenon, <2>1
  <2>3. QED
    BY Zenon, <1>7, <2>1, <2>2
<1>13. ASSUME NEW n \in DOMAIN t.engines
       PROVE  <<n, t.engines[n]>> \in Listed(bill, "toolchain")
  BY Zenon, <1>4, <1>5, ToolEntries
<1>14. QED
  BY Zenon, <1>6, <1>8, <1>9, <1>10, <1>11, <1>12, <1>13 DEF Accounts

(* A commit whose SBOM gate passed in any of the three places is accounted *)
(* for, as far as the scan of the workflows reads them (gen_sbom.py        *)
(* scan_workflows and main with --check).                                  *)
THEOREM AccountedIfGreen == Spec => []GreenMeansAccounted
<1>1. Inv /\ Linked => GreenMeansAccounted
  <2> SUFFICES ASSUME Inv, Linked, NEW place \in Places, Passed(place, "sbom")
               PROVE  Accounts(head.docs.sbom, head.tree, head.links)
    BY Zenon DEF GreenMeansAccounted
  <2>1. Bill!main_check(head.tree, GitAt(place), head.docs.sbom) = 0
    <3>1. verdict[place] = Gates(place)
      BY DEF Inv, Standing, Passed, NotRun
    <3>2. QED
      BY <3>1 DEF Passed, Gates
  <2>2. GitAt(place).here => GitAt(place).head = head.links
    BY DEF GitAt, Places
  <2>3. QED
    BY Zenon, <2>1, <2>2, CheckAccounts DEF Linked
<1>2. QED
  BY <1>1, ReleaseInvariant, LinksInvariant, PTL
=============================================================================
