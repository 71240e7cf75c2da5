-------------------------------- MODULE Sbom --------------------------------
(***************************************************************************)
(* tools/gen_sbom.py: the bill of materials of the repository.  Every      *)
(* collector is an operator from the inputs it reads to the set of         *)
(* components it lists.  An input file is a field of the record "tree":    *)
(*                                                                         *)
(*   lock        set of [dir, name, version, license]; dir is the part of  *)
(*               an entry's path before its name: node_modules, nothing    *)
(*               for the first-party entry, or a workspace's directory     *)
(*   project     [name, version, requires], requires a sequence of         *)
(*               [name, range]                                             *)
(*   gitmodules  the lines of .gitmodules, [kind, key, value]              *)
(*   notices     file |-> digest, for the derived files that exist         *)
(*   release, package, harden   the manifests of the Rev-A contract        *)
(*   engines     runtime |-> version, from package.json                    *)
(*   workflows   sequence of [file, lines] in the order of the glob; a     *)
(*               line is [kind, name, at, tag]                             *)
(*                                                                         *)
(* What the collectors take from git is the record "git": here (the tools  *)
(* run inside a checkout), head and index (path |-> gitlink) and populated *)
(* (the submodules whose working tree was initialised).                    *)
(*                                                                         *)
(* Wording, purls, URLs and the JSON layout are left out.  A license list  *)
(* the Python passes as None is the empty set, a reason passed as None is  *)
(* the empty string.                                                       *)
(***************************************************************************)
EXTENDS Integers, Sequences, FiniteSets

CONSTANTS Sha,          \* the strings that are forty hexadecimal digits
          NoticeFiles,  \* file |-> the license NOTICE records for it
          Declared      \* submodule path |-> the licenses NOTICE records

NoText == ""

(***************************************************************************)
(* One component.  "ref" is the bom-ref: <<kind, name, version>>, with an  *)
(* empty version where the Python writes none; "at" is the place of the    *)
(* input the entry was read from, so that two entries with one reference   *)
(* remain two until the duplicate check; the document does not hold it.    *)
(***************************************************************************)
component(at, kind, name, version, licenses, reason, properties) ==
    [at |-> at, ref |-> <<kind, name, version>>, licenses |-> licenses,
     reason |-> reason, properties |-> properties]

(* component() raises unless exactly one of licenses / reason was given.   *)
Undecided(c) == (c.licenses = {}) <=> (c.reason = NoText)

collect_npm(tree) ==
    {component(<<"lock", e.name>>, "npm", e.name, e.version, e.license,
               IF e.license = {} THEN "no license field" ELSE NoText,
               {<<"source", "package-lock.json">>}) :
       e \in {entry \in tree.lock : entry.dir = "node_modules"}}

(* The root component is metadata, not one of the components.              *)
collect_python(tree) ==
    [root |-> <<"lca1", tree.project.name, tree.project.version>>,
     requirements |->
       {component(<<"requires", i>>, "pypi", tree.project.requires[i].name, NoText,
                  {}, "version range, not a license",
                  {<<"build-requirement", tree.project.requires[i].range>>}) :
          i \in DOMAIN tree.project.requires}]

(***************************************************************************)
(* Submodules.                                                             *)
(***************************************************************************)
(* The lines of section i that give a key; the last of them counts.        *)
Given(text, i, key) ==
    {j \in DOMAIN text : /\ text[j].kind = "key" /\ text[j].key = key
                         /\ i < j
                         /\ \A k \in (i + 1)..j : text[k].kind # "section"}

Value(text, i, key) ==
    LET lines == Given(text, i, key)
    IN IF lines = {} THEN NoText
       ELSE text[CHOOSE j \in lines : \A k \in lines : k <= j].value

(* The sections that have a path, by the line that opens them.             *)
parse_gitmodules(text) ==
    [i \in {j \in DOMAIN text : text[j].kind = "section" /\ Given(text, j, "path") # {}} |->
       [path |-> Value(text, i, "path"), url |-> Value(text, i, "url")]]

ls_tree(git, path) ==
    IF git.here /\ path \in DOMAIN git.head THEN git.head[path] ELSE NoText

(* "git submodule status" dies on a gitlink that .gitmodules does not name,*)
(* and the script then knows the state of no submodule.                    *)
submodule_status(git, modules, path) ==
    IF \/ ~git.here
       \/ path \notin DOMAIN git.index
       \/ ~(DOMAIN git.index \subseteq {modules[i].path : i \in DOMAIN modules})
    THEN "unknown"
    ELSE IF path \in git.populated THEN "true" ELSE "false"

collect_submodules(tree, git) ==
    LET modules == parse_gitmodules(tree.gitmodules)
        entry(i) ==
          LET path == modules[i].path
              sha == ls_tree(git, path)
              present == submodule_status(git, modules, path)
              licenses == IF path \in DOMAIN Declared THEN Declared[path] ELSE {}
          IN component(<<"gitmodules", i>>, "submodule", path,
                       IF sha = NoText THEN "unpinned" ELSE sha,
                       licenses,
                       IF licenses = {} THEN "not inventoried in NOTICE" ELSE NoText,
                       {<<"url", modules[i].url>>, <<"checked-out", present>>}
                         \cup (IF sha = NoText THEN {<<"gap", "gitlink">>} ELSE {})
                         \cup (IF present = "false" THEN {<<"gap", "files">>} ELSE {}))
    IN {entry(i) : i \in DOMAIN modules}

collect_notice_files(tree) ==
    {component(<<"notice", f>>, "file", f, NoText, {NoticeFiles[f]}, NoText,
               {<<"sha256", tree.notices[f]>>}) :
       f \in DOMAIN NoticeFiles \cap DOMAIN tree.notices}

collect_hardware(tree) ==
    {component(<<"release", "device">>, "hardware/device", tree.release.release_id,
               NoText, {"Apache-2.0"}, NoText,
               {<<"as-of", tree.release.as_of>>,
                <<"package-status", tree.package.package_status>>}),
     component(<<"release", "shell">>, "hardware/harness", "openframe",
               tree.release.shell_commit, {}, "terms not inventoried", {}),
     component(<<"harden", "pdk">>, "hardware/pdk", tree.harden.PDK, NoText,
               {}, "no PDK files vendored", {}),
     component(<<"harden", "cells">>, "hardware/stdcells", tree.harden.STD_CELL_LIBRARY,
               NoText, {}, "no cell views vendored", {<<"pdk", tree.harden.PDK>>}),
     component(<<"release", "macro">>, "hardware/macro", tree.release.macro, NoText,
               {}, "commercial IP", {})}

(***************************************************************************)
(* The workflows.  A position is <<t, i>>: line i of the t-th file.  The   *)
(* kind of a line is what it does:                                         *)
(*                                                                         *)
(*   uses       "uses: name@at # tag"; at empty without "@", tag empty     *)
(*              without a version comment                                  *)
(*   repository, ref   the two halves of a checkout of another repository, *)
(*              the name in one and what is checked out in "at" of the     *)
(*              other                                                      *)
(*   pip        installs name; at empty when no "==" gives a version       *)
(*   apt, container    installs or runs name                               *)
(*   python, node      sets up the runtime with the version name           *)
(*                                                                         *)
(* The scan has no pattern for node, for a pip install without a version,  *)
(* for an action at a commit without a version comment, and for a "ref"    *)
(* that is not a commit.  A line written so that the pattern of its kind   *)
(* does not match (a python-version without quotes) is of kind "other".    *)
(***************************************************************************)
ROW_WINDOW == 4    \* lines after "repository:" in which its ref is looked for

Line(texts, p) == texts[p[1]].lines[p[2]]
LinesOf(texts, kind) ==
    {p \in UNION {{t} \X DOMAIN texts[t].lines : t \in DOMAIN texts} :
       Line(texts, p).kind = kind}

FirstOf(P) ==
    CHOOSE p \in P : \A q \in P : p[1] < q[1] \/ (p[1] = q[1] /\ p[2] <= q[2])

(* A slip: one entry for each name, with the version read first.           *)
GroupedByName(texts, found) ==
    LET places(name) == {f[2] : f \in {g \in found : g[1][1] = name}}
        first(name) == CHOOSE f \in found : f[2] = FirstOf(places(name))
    IN {[name |-> n, version |-> first(n)[1][2], tag |-> Line(texts, first(n)[2]).tag,
         files |-> {texts[p[1]].file : p \in places(n)}] : n \in {f[1][1] : f \in found}}

(* The entries of a set of <<<<name, version>>, position>>.                *)
Grouped(texts, found) ==
    LET places(k) == {f[2] : f \in {g \in found : g[1] = k}}
    IN {[name |-> k[1], version |-> k[2],
         tag |-> Line(texts, FirstOf(places(k))).tag,
         files |-> {texts[p[1]].file : p \in places(k)}] : k \in {f[1] : f \in found}}

scan_workflows(tree) ==
    LET texts == tree.workflows
        of(kind) == LinesOf(texts, kind)
        at(p) == Line(texts, p).at
        named(p, version) == <<<<Line(texts, p).name, version>>, p>>
        group(found) == Grouped(texts, found)
        refs(p) == {q \in of("ref") : /\ q[1] = p[1]
                                      /\ q[2] \in (p[2] + 1)..(p[2] + ROW_WINDOW)
                                      /\ at(q) \in Sha}
        ref(p) == CHOOSE q \in refs(p) : \A r \in refs(p) : q[2] <= r[2]
    IN [actions |-> group({named(p, at(p)) :
                             p \in {q \in of("uses") : at(q) \in Sha /\ Line(texts, q).tag # NoText}}),
        unpinned |-> {<<Line(texts, p).name, at(p)>> :
                        p \in {q \in of("uses") : at(q) \notin Sha}},
        repo_refs |-> group({named(p, at(ref(p))) :
                               p \in {q \in of("repository") : refs(q) # {}}}),
        containers |-> group({named(p, NoText) : p \in of("container")}),
        pip |-> group({named(p, at(p)) : p \in {q \in of("pip") : at(q) # NoText}}),
        apt |-> group({named(p, NoText) : p \in of("apt")}),
        python_versions |-> {Line(texts, p).name : p \in of("python")}]

(* The components of a set of scan entries, all of one kind.               *)
Scanned(kind, entries, reason) ==
    {component(<<kind, e.name, e.version>>, kind, e.name, e.version, {}, reason,
               {<<"source", f>> : f \in e.files}) : e \in entries}

collect_actions(scan) ==
    {[c EXCEPT !.properties = @ \cup
        {<<"release-tag", e.tag>> :
           e \in {x \in scan.actions : <<"action", x.name, x.version>> = c.ref}}] :
       c \in Scanned("action", scan.actions, "licenses not inventoried")}

collect_toolchain(tree, scan) ==
    {component(<<"engines", n>>, "toolchain", n, tree.engines[n], {},
               "installed by CI", {<<"source", "package.json">>}) :
       n \in DOMAIN tree.engines}
    \cup {component(<<"python-version", v>>, "toolchain", "python", v, {},
                    "installed by CI", {<<"source", "ci.yml">>}) :
            v \in scan.python_versions}
    \cup Scanned("toolchain/apt", scan.apt, "neither version nor license pinned")
    \cup Scanned("pypi", scan.pip, "license not declared")
    \cup Scanned("repo", scan.repo_refs, "not inventoried in NOTICE")
    \cup Scanned("container", scan.containers, "image license not declared")

(***************************************************************************)
(* The document.                                                           *)
(***************************************************************************)
Groups ==
    {<<"complete", {"npm"}>>, <<"incomplete", {"submodule"}>>,
     <<"incomplete", {"hardware/device", "hardware/harness", "hardware/pdk",
                      "hardware/stdcells", "hardware/macro", "container"}>>,
     <<"incomplete_first_party_only", {"file", "lca1"}>>,
     <<"complete", {"action", "repo"}>>, <<"unknown", {"toolchain/apt"}>>}

_compositions(components) ==
    LET matching(kinds) == {c.ref : c \in {d \in components : d.ref[1] \in kinds}}
    IN {<<g[1], matching(g[2])>> : g \in {h \in Groups : matching(h[2]) # {}}}

Missing == [root |-> <<NoText, NoText, NoText>>, components |-> {}, unpinned |-> {},
            compositions |-> {}]

(* Everything the collectors list.                                         *)
collected(tree, git) ==
    LET scan == scan_workflows(tree)
    IN collect_npm(tree)
         \cup collect_python(tree).requirements
         \cup collect_submodules(tree, git)
         \cup collect_notice_files(tree)
         \cup collect_hardware(tree)
         \cup collect_toolchain(tree, scan)
         \cup collect_actions(scan)

(* raised: component() or the duplicate check ended the run with a         *)
(* ValueError that nothing catches.                                        *)
build_bom(tree, git) ==
    LET components == collected(tree, git)
        duplicates == {c \in components : \E d \in components \ {c} : d.ref = c.ref}
    IN [raised |-> duplicates # {} \/ \E c \in components : Undecided(c),
        bom |-> [root |-> collect_python(tree).root,
                 components |-> {[c EXCEPT !.at = <<>>] : c \in components},
                 unpinned |-> scan_workflows(tree).unpinned,
                 compositions |-> _compositions(components)]]

(* main --check: 0 when the file holds exactly what would be written now.  *)
main_check(tree, git, file) ==
    LET built == build_bom(tree, git)
    IN IF built.raised \/ file = Missing \/ file # built.bom THEN 1 ELSE 0

(* A slip: a file that exists is left alone.                               *)
main_write_once(tree, git, file) ==
    IF file = Missing THEN build_bom(tree, git).bom ELSE file

(* main: the file after the run; a run that raises writes nothing.         *)
main_write(tree, git, file) ==
    LET built == build_bom(tree, git) IN IF built.raised THEN file ELSE built.bom
=============================================================================
