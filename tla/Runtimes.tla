------------------------------ MODULE Runtimes ------------------------------
(***************************************************************************)
(* bootstrap_if_needed of the portable Python and Node (runtimes crate):   *)
(* the archive is fetched, compared with the pinned hash, extracted file   *)
(* by file into the very directory the executable is run from, tried and   *)
(* entered in manifest.json.  The next start believes that manifest.  The  *)
(* app may end, and the disk or the network fail, at every step; a new     *)
(* build of the app may pin another archive under the same version.        *)
(*                                                                         *)
(* The shell starts it in a task of its own when the app starts (main.rs), *)
(* and an exec call may come at any step; one bootstrap runs at a time.    *)
(***************************************************************************)
EXTENDS Naturals, Sequences

CONSTANTS Archive,  \* the files of the archive, in its order
          Exe,      \* the executable, one of them
          MaxPins   \* bound: builds that pin another archive

Attempts == 3
Contents == {Archive[n] : n \in DOMAIN Archive}

ASSUME RuntimesAssumption == /\ Archive \in Seq(Contents)
                             /\ Exe \in Contents
                             /\ MaxPins \in Nat

VARIABLES kind,     \* "python" or "node"
          at,       \* where the bootstrap stands, "off" when none runs
          tried,    \* downloads that failed
          copied,   \* files extracted so far
          archive,  \* archive.zip: "none", "pinned" or "other"
          tree,     \* [Contents -> {"absent", "cut", "old", "new"}]
          manifest, \* "none", "stale" (of another pin) or "pinned"
          answer,   \* of the last bootstrap: "none", "ok" or "error"
          pins
bootVars == <<kind, at, tried, copied, archive, tree, manifest, answer, pins>>

BootInit ==
    /\ kind \in {"python", "node"} /\ at = "off" /\ tried = 0 /\ copied = 0
    /\ archive = "none" /\ tree = [f \in Contents |-> "absent"] /\ manifest = "none"
    /\ answer = "none" /\ pins = 0

\* The bootstrap returns; target_dir stays as it is.
End(result) == at' = "off" /\ answer' = result

Begin ==
    /\ at = "off"
    /\ at' = "look" /\ answer' = "none" /\ tried' = 0 /\ copied' = 0
    /\ UNCHANGED <<kind, archive, tree, manifest, pins>>

-----------------------------------------------------------------------------
(* The cache.  Python looks for the directory of the manifest, Node for    *)
(* its executable; Node takes a directory without a manifest for corrupt.  *)

Seen == kind = "python" \/ tree[Exe] # "absent"

\* Mutant of Hit: the manifest is believed whatever its hash.
HitAnyHash == Seen /\ manifest # "none"

Hit == Seen /\ manifest = "pinned"

Spoilt == Seen /\ ~ Hit /\ (manifest # "none" \/ kind = "node")

\* allow_download is looked at when there is nothing to use.
Download == \/ at' = "fetch" /\ UNCHANGED answer
            \/ End("error")

Look ==
    /\ at = "look"
    /\ \/ Hit /\ End("ok")
       \/ Spoilt /\ at' = "clear" /\ UNCHANGED answer
       \/ ~ Hit /\ ~ Spoilt /\ Download
    /\ UNCHANGED <<kind, tried, copied, archive, tree, manifest, pins>>

\* remove_dir_all takes one file after the other, in the order of the disk;
\* one that is in use, or a crash, leaves the rest.
Clear ==
    /\ at = "clear"
    /\ \/ \E f \in Contents : /\ tree[f] # "absent"
                              /\ tree' = [tree EXCEPT ![f] = "absent"]
                              /\ UNCHANGED <<manifest, archive>>
       \/ manifest # "none" /\ manifest' = "none" /\ UNCHANGED <<tree, archive>>
       \/ archive # "none" /\ archive' = "none" /\ UNCHANGED <<tree, manifest>>
    /\ UNCHANGED <<kind, at, tried, copied, answer, pins>>

Cleared ==
    /\ at = "clear" /\ manifest = "none" /\ archive = "none"
    /\ \A f \in Contents : tree[f] = "absent"
    /\ Download
    /\ UNCHANGED <<kind, tried, copied, archive, tree, manifest, pins>>

-----------------------------------------------------------------------------
(* The installation.                                                       *)

\* download_archive_blocking: a temporary file, renamed when it is whole.
\* What came with a 200 need not be the archive.
Fetch ==
    /\ at = "fetch"
    /\ \/ at' = "check" /\ archive' \in {"pinned", "other"} /\ UNCHANGED <<tried, answer>>
       \/ /\ tried' = tried + 1 /\ UNCHANGED archive
          /\ IF tried + 1 < Attempts THEN UNCHANGED <<at, answer>> ELSE End("error")
    /\ UNCHANGED <<kind, copied, tree, manifest, pins>>

\* The size, then the SHA-256.  What is refused stays on the disk.
Compare ==
    /\ at = "check"
    /\ IF archive = "pinned" THEN at' = "extract" /\ UNCHANGED answer ELSE End("error")
    /\ UNCHANGED <<kind, tried, copied, archive, tree, manifest, pins>>

\* extract_zip: a file is created, which empties the one that was there,
\* then filled.
CreateFile ==
    /\ at = "extract" /\ copied < Len(Archive)
    /\ at' = "copy"
    /\ tree' = [tree EXCEPT ![Archive[copied + 1]] = "cut"]
    /\ UNCHANGED <<kind, tried, copied, archive, manifest, answer, pins>>

CopyFile ==
    /\ at = "copy"
    /\ at' = "extract" /\ copied' = copied + 1
    /\ tree' = [tree EXCEPT ![Archive[copied + 1]] = "new"]
    /\ UNCHANGED <<kind, tried, archive, manifest, answer, pins>>

\* validate_runtime runs the executable with --version.
Validate ==
    /\ at = "extract" /\ copied = Len(Archive)
    /\ at' = "note"
    /\ UNCHANGED <<kind, tried, copied, archive, tree, manifest, answer, pins>>

\* Manifest::write: a temporary file and its rename.
WriteManifest ==
    /\ at = "note"
    /\ at' = "sweep" /\ manifest' = "pinned"
    /\ UNCHANGED <<kind, tried, copied, archive, tree, answer, pins>>

\* The archive goes if it can.
Sweep ==
    /\ at = "sweep"
    /\ archive' \in {"none", archive}
    /\ End("ok")
    /\ UNCHANGED <<kind, tried, copied, tree, manifest, pins>>

\* A removal, a directory, a file, its content, --version or the manifest
\* fails: the error is returned and nothing is undone.
StepFails ==
    /\ at \in {"clear", "fetch", "extract", "copy", "note"}
    /\ End("error")
    /\ UNCHANGED <<kind, tried, copied, archive, tree, manifest, pins>>

-----------------------------------------------------------------------------
\* The app ends.
AppEnds ==
    /\ at # "off"
    /\ End("none")
    /\ UNCHANGED <<kind, tried, copied, archive, tree, manifest, pins>>

\* The next build of the app pins another archive.  It never goes back.
Repin ==
    /\ at = "off" /\ pins < MaxPins
    /\ pins' = pins + 1 /\ answer' = "none"
    /\ archive' = IF archive = "pinned" THEN "other" ELSE archive
    /\ tree' = [f \in Contents |-> IF tree[f] = "new" THEN "old" ELSE tree[f]]
    /\ manifest' = IF manifest = "pinned" THEN "stale" ELSE manifest
    /\ UNCHANGED <<kind, at, tried, copied>>

BootNext == \/ Begin \/ Look \/ Clear \/ Cleared
            \/ Fetch \/ Compare \/ CreateFile \/ CopyFile \/ Validate
            \/ WriteManifest \/ Sweep \/ StepFails \/ AppEnds \/ Repin

BootSpec == BootInit /\ [][BootNext]_bootVars

-----------------------------------------------------------------------------
(* What a start believes is true: over a manifest of the pinned archive,   *)
(* and after a bootstrap that returned Ok, every file is the pinned one,   *)
(* whatever was interrupted before (bootstrap_sync of python.rs, node.rs). *)
RuntimeWhole ==
    manifest = "pinned" \/ answer = "ok" => \A f \in Contents : tree[f] = "new"
=============================================================================
