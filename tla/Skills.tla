------------------------------- MODULE Skills -------------------------------
(***************************************************************************)
(* The directory of one skill of one user (backend/app/skills/service.py):  *)
(* an upload unpacks its archive in a temporary directory, validates it,    *)
(* removes the installed directory and renames; meanwhile requests in the   *)
(* thread pool toggle the skill, delete it or start a run that matches it.  *)
(* Every file operation is a step, and the process may die between any two. *)
(* Uploads run on the event loop, one at a time.                            *)
(*                                                                         *)
(* Directories are known by the upload that made them; a name (the skill's  *)
(* or the temporary one) may come to mean another directory.                *)
(***************************************************************************)
EXTENDS Naturals, FiniteSets

CONSTANTS
    Packages,       \* archives that pass the checks made before unpacking
    NoPackage,
    Ships,          \* the files of an archive; "odd" has a refused suffix
    Refs,           \* the resources its manifest names
    ListOrder,      \* the order in which the file system lists a directory
    MaxInstalls,    \* bound: uploads
    MaxToggles,     \* bound: toggles
    MaxDeletes,     \* bound: deletions
    MaxCrash        \* bound: crashes of the process

Names == {"manifest", "SKILL", "resource", "odd"}

SkillAssumption ==
    /\ NoPackage \notin Packages
    /\ Ships \in [Packages -> SUBSET Names]
    /\ \A p \in Packages : {"manifest", "SKILL"} \subseteq Ships[p]
    /\ ListOrder \in [Names \ {"odd"} -> Nat]
    /\ \A f, g \in DOMAIN ListOrder : ListOrder[f] = ListOrder[g] => f = g
    /\ MaxInstalls \in Nat /\ MaxToggles \in Nat /\ MaxDeletes \in Nat
    /\ MaxCrash \in Nat

Dirs == 1 .. MaxInstalls

VARIABLES
    pkg,        \* the archive a directory was unpacked from
    place,      \* its name: "temp", "dest", or none
    files,      \* the files in it
    man,        \* its manifest.json: of which package, enabled or not
    loop,       \* install_zip
    toggle,     \* set_enabled
    delete,     \* delete
    run,        \* load_context: match, then render_context
    count,      \* uploads, toggles and deletions so far
    crashes,
    mixed       \* history: a toggle overlapped an upload or a deletion

disk == <<pkg, place, files, man>>
vars == <<pkg, place, files, man, loop, toggle, delete, run, count, crashes, mixed>>

NoMan == [of |-> NoPackage, on |-> FALSE]
Resting == [pc |-> "idle", dir |-> 0, old |-> 0, todo |-> {}]
NoToggle == [pc |-> "idle", held |-> NoPackage, on |-> FALSE]
NoRun == [pc |-> "idle", dir |-> 0, at |-> "none", skill |-> NoPackage]

Init ==
    /\ pkg = [d \in Dirs |-> NoPackage] /\ place = [d \in Dirs |-> "none"]
    /\ files = [d \in Dirs |-> {}] /\ man = [d \in Dirs |-> NoMan]
    /\ loop = Resting /\ toggle = NoToggle /\ delete = Resting /\ run = NoRun
    /\ count = [installs |-> 0, toggles |-> 0, deletes |-> 0]
    /\ crashes = 0 /\ mixed = FALSE

Dest == {d \in Dirs : place[d] = "dest"}

\* _validate_references: SKILL.md and every resource is there.
Complete(d) == {"SKILL"} \cup Refs[man[d].of] \subseteq files[d]

\* _load: an unreadable manifest or a missing file makes it no skill.
Loadable(d) ==
    /\ "manifest" \in files[d] /\ man[d].of # NoPackage
    /\ Complete(d)

-----------------------------------------------------------------------------
(* install_zip.                                                             *)

InstallStart(p) ==
    /\ loop.pc = "idle" /\ count.installs < MaxInstalls
    /\ LET d == count.installs + 1
       IN /\ pkg' = [pkg EXCEPT ![d] = p]
          /\ place' = [place EXCEPT ![d] = "temp"]
          /\ loop' = [Resting EXCEPT !.pc = "copy", !.dir = d, !.todo = Ships[p]]
    /\ count' = [count EXCEPT !.installs = @ + 1]
    /\ mixed' = (mixed \/ toggle.pc # "idle")
    /\ UNCHANGED <<files, man, toggle, delete, run, crashes>>

\* One file of the archive, in the archive's order.
Copy(f) ==
    /\ loop.pc = "copy" /\ f \in loop.todo
    /\ IF f = "odd"
       THEN /\ loop' = [loop EXCEPT !.pc = "cleanup"]
            /\ UNCHANGED <<files, man>>
       ELSE /\ loop' = [loop EXCEPT !.todo = @ \ {f}]
            /\ files' = [files EXCEPT ![loop.dir] = @ \cup {f}]
            /\ man' = IF f = "manifest"
                      THEN [man EXCEPT ![loop.dir] = [of |-> pkg[loop.dir], on |-> TRUE]]
                      ELSE man
    /\ UNCHANGED <<pkg, place, toggle, delete, run, count, crashes, mixed>>

\* Mutant: the installed directory is removed first and the rest checked after.
ValidateLast ==
    /\ loop.pc = "copy" /\ loop.todo = {}
    /\ loop' = [loop EXCEPT !.pc = "write"]
    /\ UNCHANGED <<disk, toggle, delete, run, count, crashes, mixed>>

Validate ==
    /\ loop.pc = "copy" /\ loop.todo = {}
    /\ loop' = [loop EXCEPT !.pc = IF Complete(loop.dir) THEN "write" ELSE "cleanup"]
    /\ UNCHANGED <<disk, toggle, delete, run, count, crashes, mixed>>

\* write_text truncates the file and then writes it.
Truncate ==
    /\ loop.pc = "write"
    /\ man' = [man EXCEPT ![loop.dir] = NoMan]
    /\ loop' = [loop EXCEPT !.pc = "written"]
    /\ UNCHANGED <<pkg, place, files, toggle, delete, run, count, crashes, mixed>>

WriteManifest ==
    /\ loop.pc = "written"
    /\ man' = [man EXCEPT ![loop.dir] = [of |-> pkg[loop.dir], on |-> TRUE]]
    /\ loop' = [loop EXCEPT !.pc = "replace"]
    /\ UNCHANGED <<pkg, place, files, toggle, delete, run, count, crashes, mixed>>

\* destination.exists(): rmtree opens the directory and lists it.
RemoveOld(d) ==
    /\ loop.pc = "replace" /\ d \in Dest
    /\ loop' = [loop EXCEPT !.pc = "rmtree", !.old = d, !.todo = files[d]]
    /\ UNCHANGED <<disk, toggle, delete, run, count, crashes, mixed>>

\* rename: an empty directory of that name is replaced.
Rename ==
    /\ loop.pc \in {"replace", "rename"}
    /\ loop.pc = "replace" => Dest = {}
    /\ \A d \in Dest : files[d] = {}
    /\ place' = [d \in Dirs |-> IF d = loop.dir THEN "dest"
                                ELSE IF d \in Dest THEN "none" ELSE place[d]]
    /\ loop' = Resting
    /\ UNCHANGED <<pkg, files, man, toggle, delete, run, count, crashes, mixed>>

\* Mutant: the temporary directory is left behind.
CleanupNot ==
    /\ loop.pc = "cleanup"
    /\ loop' = Resting
    /\ UNCHANGED <<disk, toggle, delete, run, count, crashes, mixed>>

\* The except clause, with ignore_errors; a manifest goes with its file.
Cleanup ==
    /\ loop.pc = "cleanup"
    /\ files' = [files EXCEPT ![loop.dir] = {}]
    /\ man' = [man EXCEPT ![loop.dir] = NoMan]
    /\ place' = [place EXCEPT ![loop.dir] = "none"]
    /\ loop' = Resting
    /\ UNCHANGED <<pkg, toggle, delete, run, count, crashes, mixed>>

-----------------------------------------------------------------------------
(* shutil.rmtree, in the upload (who = loop) and in a deletion.             *)

First(todo, f) == f \in todo /\ \A g \in todo : ListOrder[f] <= ListOrder[g]

\* The next entry of the listing.  An entry that is gone by now raises, or is
\* skipped by later releases of the library.
Unlinks(who, f) ==
    /\ who.pc = "rmtree" /\ First(who.todo, f)
    /\ files' = [files EXCEPT ![who.old] = @ \ {f}]
    /\ man' = IF f = "manifest" THEN [man EXCEPT ![who.old] = NoMan] ELSE man

\* The directory itself goes by its name: it must be the one that was
\* emptied, or another one that is empty too.
Rmdirs(who) ==
    /\ who.pc = "rmtree" /\ who.todo = {}
    /\ Dest # {} /\ \A d \in Dest : files[d] = {}
    /\ place' = [d \in Dirs |-> IF d \in Dest THEN "none" ELSE place[d]]

\* ... or rmtree raises.
Raises(who) ==
    /\ who.pc = "rmtree"
    /\ \/ \E f \in who.todo : First(who.todo, f) /\ f \notin files[who.old]
       \/ who.todo = {} /\ (Dest = {} \/ \E d \in Dest : files[d] # {})

InstallUnlink(f) ==
    /\ Unlinks(loop, f)
    /\ loop' = [loop EXCEPT !.todo = @ \ {f}]
    /\ UNCHANGED <<pkg, place, toggle, delete, run, count, crashes, mixed>>

InstallRmdir ==
    /\ Rmdirs(loop)
    /\ loop' = [loop EXCEPT !.pc = "rename"]
    /\ UNCHANGED <<pkg, files, man, toggle, delete, run, count, crashes, mixed>>

InstallRaises ==
    /\ Raises(loop)
    /\ loop' = [loop EXCEPT !.pc = "cleanup"]
    /\ UNCHANGED <<disk, toggle, delete, run, count, crashes, mixed>>

DeleteStart(d) ==
    /\ delete.pc = "idle" /\ count.deletes < MaxDeletes /\ d \in Dest
    /\ delete' = [Resting EXCEPT !.pc = "rmtree", !.old = d, !.todo = files[d]]
    /\ count' = [count EXCEPT !.deletes = @ + 1]
    /\ mixed' = (mixed \/ toggle.pc # "idle")
    /\ UNCHANGED <<disk, loop, toggle, run, crashes>>

DeleteUnlink(f) ==
    /\ Unlinks(delete, f)
    /\ delete' = [delete EXCEPT !.todo = @ \ {f}]
    /\ UNCHANGED <<pkg, place, loop, toggle, run, count, crashes, mixed>>

DeleteRmdir ==
    /\ Rmdirs(delete)
    /\ delete' = Resting
    /\ UNCHANGED <<pkg, files, man, loop, toggle, run, count, crashes, mixed>>

DeleteRaises ==
    /\ Raises(delete)
    /\ delete' = Resting
    /\ UNCHANGED <<disk, loop, toggle, run, count, crashes, mixed>>

-----------------------------------------------------------------------------
(* set_enabled, and the runs.                                               *)

ToggleRead(d, on) ==
    /\ toggle.pc = "idle" /\ count.toggles < MaxToggles
    /\ d \in Dest /\ Loadable(d)
    /\ toggle' = [pc |-> "read", held |-> man[d].of, on |-> on]
    /\ count' = [count EXCEPT !.toggles = @ + 1]
    /\ mixed' = (mixed \/ loop.pc # "idle" \/ delete.pc # "idle")
    /\ UNCHANGED <<disk, loop, delete, run, crashes>>

\* write_text opens, and truncates, whatever has that name by now ...
ToggleTruncate(d) ==
    /\ toggle.pc = "read" /\ d \in Dest
    /\ files' = [files EXCEPT ![d] = @ \cup {"manifest"}]
    /\ man' = [man EXCEPT ![d] = NoMan]
    /\ toggle' = [toggle EXCEPT !.pc = "open"]
    /\ UNCHANGED <<pkg, place, loop, delete, run, count, crashes, mixed>>

\* ... and writes the manifest that was read.  The file may be gone again.
ToggleWrite(d) ==
    /\ toggle.pc = "open" /\ d \in Dest
    /\ man' = IF "manifest" \in files[d]
              THEN [man EXCEPT ![d] = [of |-> toggle.held, on |-> toggle.on]]
              ELSE man
    /\ toggle' = NoToggle
    /\ UNCHANGED <<pkg, place, files, loop, delete, run, count, crashes, mixed>>

ToggleFails ==
    /\ toggle.pc \in {"read", "open"} /\ Dest = {}
    /\ toggle' = NoToggle
    /\ UNCHANGED <<disk, loop, delete, run, count, crashes, mixed>>

\* match: list() loads every directory of the user, temporary ones too.
Matches(d) == place[d] \in {"temp", "dest"} /\ Loadable(d) /\ man[d].on

Match(d) ==
    /\ run.pc = "idle" /\ Matches(d)
    /\ run' = [pc |-> "matched", dir |-> d, at |-> place[d], skill |-> man[d].of]
    /\ UNCHANGED <<disk, loop, toggle, delete, count, crashes, mixed>>

\* render_context reads the files by name; load_context returns or raises.
Render ==
    /\ run.pc = "matched"
    /\ run' = NoRun
    /\ UNCHANGED <<disk, loop, toggle, delete, count, crashes, mixed>>

Crash ==
    /\ crashes < MaxCrash
    /\ crashes' = crashes + 1
    /\ loop' = Resting /\ toggle' = NoToggle /\ delete' = Resting /\ run' = NoRun
    /\ UNCHANGED <<disk, count, mixed>>

Install ==
    \/ \E p \in Packages : InstallStart(p)
    \/ \E f \in Names : Copy(f) \/ InstallUnlink(f)
    \/ Validate \/ Truncate \/ WriteManifest \/ Rename \/ Cleanup
    \/ InstallRmdir \/ InstallRaises
    \/ \E d \in Dirs : RemoveOld(d)

Request ==
    \/ \E d \in Dirs : DeleteStart(d) \/ Match(d)
    \/ \E f \in Names : DeleteUnlink(f)
    \/ DeleteRmdir \/ DeleteRaises \/ Render
    \/ \E d \in Dirs, on \in BOOLEAN : ToggleRead(d, on)
    \/ \E d \in Dirs : ToggleTruncate(d) \/ ToggleWrite(d)
    \/ ToggleFails

Next == Install \/ Request \/ Crash

Spec == Init /\ [][Next]_vars

-----------------------------------------------------------------------------
(* Properties.                                                              *)

\* Type invariant.
TypeOK ==
    /\ pkg \in [Dirs -> Packages \cup {NoPackage}]
    /\ place \in [Dirs -> {"none", "temp", "dest"}]
    /\ files \in [Dirs -> SUBSET Names]
    /\ man \in [Dirs -> [of : Packages \cup {NoPackage}, on : BOOLEAN]]
    /\ loop.pc \in {"idle", "copy", "write", "written", "replace", "rmtree",
                    "rename", "cleanup"}
    /\ delete.pc \in {"idle", "rmtree"}
    /\ toggle.pc \in {"idle", "read", "open"} /\ run.pc \in {"idle", "matched"}
    /\ Cardinality(Dest) <= 1

Busy == loop.pc # "idle" \/ toggle.pc # "idle" \/ delete.pc # "idle"

\* When nothing is under way, the installed directory can be loaded and has
\* its own manifest: no upload or deletion, nor two at once, leaves half a
\* skill under its name. A crash may, and so may a toggle that read the
\* manifest of one package and writes it into the directory of the next.
DestLoadable ==
    ~Busy /\ crashes = 0 /\ ~mixed => \A d \in Dest : Loadable(d) /\ man[d].of = pkg[d]

\* An upload that is refused, or fails, leaves no directory behind that
\* list() would offer (except clause of install_zip); a crash does.
NoLeftovers ==
    crashes = 0 => \A d \in Dirs : place[d] = "temp" => loop.pc # "idle" /\ loop.dir = d

\* The installed skill loses a file only to a deletion or to an upload that
\* has passed every check: a refused package never costs the old one.
RejectedKeepsOld ==
    [][\A d \in Dest :
         \/ files[d] \subseteq files'[d]
         \/ delete.pc = "rmtree" /\ delete.old = d
         \/ /\ loop.pc = "rmtree" /\ loop.old = d
            /\ "odd" \notin Ships[pkg[loop.dir]]
            /\ Refs[pkg[loop.dir]] \subseteq Ships[pkg[loop.dir]]]_vars
=============================================================================
