----------------------------- MODULE Placement -----------------------------
(***************************************************************************)
(* Whether the elevated helper and the main exe next to it are where only  *)
(* administrators may write (elev/src/placement.rs), over the facts read   *)
(* from the disk through open handles (elev/src/win.rs).  One rule, asked  *)
(* three times: by the desktop app before it elevates the helper, by the   *)
(* helper after it started, and, without the access lists, by the copy     *)
(* the uninstaller carries.                                                *)
(*                                                                         *)
(* Paths are sequences of elements, folded to one case.  A disk is what    *)
(* there is at one moment; why a placement is refused is left out.         *)
(***************************************************************************)
EXTENDS Naturals, Sequences, FiniteSets

CONSTANTS
    Trusted,        \* TRUSTED_SIDS
    CreatorOwner,   \* SID_CREATOR_OWNER
    Sids,           \* every SID
    Drives,         \* first elements of plain drive paths
    HelperName,     \* HELPER_EXE_FILE_NAME
    MainName,       \* MAIN_EXE_FILE_NAME
    WriteRights,    \* WRITE_RIGHTS
    None

VARIABLES
    disk,           \* what there is
    exe             \* the path the desktop app was started from

-----------------------------------------------------------------------------
\* Paths.

Parent(path) == SubSeq(path, 1, Len(path) - 1)

HasParent(path) == Len(path) > 1

FileName(path) == path[Len(path)]

\* normalize_final_path: a plain drive path, or nothing.
IsPlain(path) == path # <<>> /\ path[1] \in Drives

IsStrictlyInside(path, dir) ==
    dir # <<>> /\ Len(path) > Len(dir) /\ SubSeq(path, 1, Len(dir)) = dir

\* containing_program_files: the first of the list.
Contains(programFiles, path) ==
    {i \in DOMAIN programFiles : IsStrictlyInside(path, programFiles[i])}

ContainingProgramFiles(path, programFiles) ==
    programFiles[CHOOSE i \in Contains(programFiles, path) :
                    \A j \in Contains(programFiles, path) : i <= j]

\* folder_chain: from the exe's folder up to and including dir.
MutFolderChain(path, dir) ==
    [i \in 1 .. (Len(path) - Len(dir) - 1) |-> SubSeq(path, 1, Len(path) - i)]

FolderChain(path, dir) ==
    [i \in 1 .. (Len(path) - Len(dir)) |-> SubSeq(path, 1, Len(path) - i)]

-----------------------------------------------------------------------------
\* The disk (external): objects by final path, junctions by the path they are
\* at, the objects whose facts cannot be read, and the known folders.

\* A handle's final path: folders on the way are followed, what is opened is
\* not (FILE_FLAG_OPEN_REPARSE_POINT).
FinalPath(path) ==
    IF \E at \in DOMAIN disk.junctions : IsStrictlyInside(path, at)
    THEN LET at == CHOOSE at \in DOMAIN disk.junctions : IsStrictlyInside(path, at)
         IN disk.junctions[at] \o SubSeq(path, Len(at) + 1, Len(path))
    ELSE path

Exists(path) == FinalPath(path) \in DOMAIN disk.objects

\* open, final_path, attributes and security succeed.
Readable(path) == FinalPath(path) \notin disk.unreadable /\ IsPlain(FinalPath(path))

\* read_aces: the SID of an object entry is not decoded, and nothing is of an
\* entry that does not belong in a DACL.
AceFact(ace) ==
    [type |-> ace.type, inheritOnly |-> ace.inheritOnly,
     rights |-> IF ace.type = "other" THEN {} ELSE ace.rights,
     sid |-> IF ace.object \/ ace.type = "other" THEN None ELSE ace.sid]

\* object_facts of an object that is there.
ObjectFacts(path) ==
    LET object == disk.objects[FinalPath(path)]
    IN [path |-> FinalPath(path), directory |-> object.directory,
        reparse |-> object.reparse, owner |-> object.owner,
        nullDacl |-> object.nullDacl,
        dacl |-> [i \in DOMAIN object.dacl |-> AceFact(object.dacl[i])]]

FactsOrNone(path) == IF Exists(path) THEN ObjectFacts(path) ELSE None

\* program_files_dirs: the known folders as final paths, each in its place,
\* those that cannot be read left out.
ProgramFilesDirs ==
    LET IsKnown(path) == IsPlain(path) /\ Exists(path) /\ Readable(path)
    IN [i \in {i \in DOMAIN disk.knownFolders : IsKnown(disk.knownFolders[i])} |->
            FinalPath(disk.knownFolders[i])]

\* What is read for an anchor: itself, the folders of its chain and the two
\* exes next to it.
Folders(anchor) ==
    IF Contains(ProgramFilesDirs, anchor) = {} THEN <<>>
    ELSE FolderChain(anchor, ContainingProgramFiles(anchor, ProgramFilesDirs))

NextTo(anchor, name) == Append(Parent(anchor), name)

\* collect_placement_facts succeeds ...
Collects(path) ==
    LET anchor == FinalPath(path)
        chain == Folders(anchor)
    IN /\ IsPlain(path) /\ Exists(path) /\ Readable(path)
       /\ HasParent(anchor)
       /\ \A i \in DOMAIN chain : Exists(chain[i]) /\ Readable(chain[i])
       /\ \A name \in {HelperName, MainName} :
             Exists(NextTo(anchor, name)) => Readable(NextTo(anchor, name))

\* ... with these facts.
PlacementFacts(path) ==
    LET anchor == FinalPath(path)
        chain == Folders(anchor)
    IN [anchor |-> anchor, programFiles |-> ProgramFilesDirs,
        helper |-> FactsOrNone(NextTo(anchor, HelperName)),
        main |-> FactsOrNone(NextTo(anchor, MainName)),
        folders |-> [i \in DOMAIN chain |-> ObjectFacts(chain[i])]]

-----------------------------------------------------------------------------
\* check_object, for one entry of the list.
MayStay(ace) ==
    \/ ace.type = "deny"
    \/ /\ ace.type = "allow"
       /\ \/ ace.rights \cap WriteRights = {}
          \/ ace.sid \in Trusted
          \/ ace.sid = CreatorOwner /\ ace.inheritOnly

CheckObject(object) ==
    /\ ~object.reparse
    /\ object.owner \in Trusted
    /\ ~object.nullDacl
    /\ \A i \in DOMAIN object.dacl : MayStay(object.dacl[i])

\* The running exe is one of the two that are checked.
AnchorIsChecked(facts) == facts.anchor \in {facts.helper.path, facts.main.path}

\* check_placement after its first return, over the facts.
CheckBelow(facts) ==
    LET helper == facts.helper
        main == facts.main
        dir == ContainingProgramFiles(helper.path, facts.programFiles)
        chain == FolderChain(helper.path, dir)
    IN /\ helper # None /\ main # None
       /\ FileName(helper.path) = HelperName /\ FileName(main.path) = MainName
       /\ AnchorIsChecked(facts)
       /\ HasParent(helper.path) /\ HasParent(main.path)
       /\ Parent(helper.path) = Parent(main.path)
       /\ Contains(facts.programFiles, helper.path) # {}
       /\ Len(chain) = Len(facts.folders)
       /\ \A i \in DOMAIN facts.folders : chain[i] = facts.folders[i].path
       /\ \A object \in {helper, main} : ~object.directory /\ CheckObject(object)
       /\ \A i \in DOMAIN facts.folders :
             facts.folders[i].directory /\ CheckObject(facts.folders[i])

CheckPlacement(facts) ==
    Contains(facts.programFiles, facts.anchor) # {} /\ CheckBelow(facts)

\* check_before_elevation: the app is the main exe.
AppAccepts(path) ==
    /\ Collects(path)
    /\ CheckPlacement(PlacementFacts(path))
    /\ PlacementFacts(path).anchor = PlacementFacts(path).main.path

\* run: the helper is anchored at itself.
HelperAccepts(path) == Collects(path) /\ CheckPlacement(PlacementFacts(path))

\* check_installed_main over collect_installed_facts.
UninstallerAccepts(dir) ==
    LET path == Append(dir, MainName)
        main == ObjectFacts(path)
    IN /\ IsPlain(dir)
       /\ Exists(path) /\ Readable(path)
       /\ FileName(main.path) = MainName
       /\ ~main.directory /\ ~main.reparse
       /\ Contains(ProgramFilesDirs, main.path) # {}

-----------------------------------------------------------------------------
\* What Windows grants (external): entries are taken in order, and the first
\* that names the caller and the right decides; no list grants everything.
Decides(ace, sid, right) ==
    ace.type \in {"allow", "deny"} /\ ~ace.inheritOnly /\ ace.sid = sid /\ right \in ace.rights

MayUse(object, sid, right) ==
    \/ object.owner = sid
    \/ object.nullDacl
    \/ \E i \in DOMAIN object.dacl :
          /\ Decides(object.dacl[i], sid, right) /\ object.dacl[i].type = "allow"
          /\ \A j \in 1 .. (i - 1) : ~Decides(object.dacl[j], sid, right)

OnlyTrustedMayWrite(path) ==
    LET object == disk.objects[path]
    IN \A sid \in Sids \ Trusted, right \in WriteRights : ~MayUse(object, sid, right)

-----------------------------------------------------------------------------
\* An accepted helper and main exe, and every folder above them up to Program
\* Files, are objects on the way of no reparse point that nobody but the
\* trusted SIDs may write, as Windows reads their access lists, whatever the
\* entries the check skips (the rule at elev/src/placement.rs:14).
AcceptedIsTrusted ==
    AppAccepts(exe) =>
        LET facts == PlacementFacts(exe)
            main == facts.main.path
        IN \E pf \in DOMAIN ProgramFilesDirs :
              LET above == {SubSeq(main, 1, n) : n \in Len(ProgramFilesDirs[pf]) .. (Len(main) - 1)}
              IN /\ IsStrictlyInside(main, ProgramFilesDirs[pf])
                 /\ \A path \in {facts.helper.path, main} \cup above :
                       ~disk.objects[path].reparse /\ OnlyTrustedMayWrite(path)

\* The three that ask agree about a disk that stays as it is: the helper the
\* app starts accepts the place and takes the same exe for the rule's program,
\* and the uninstaller's copy, told that folder, takes the same exe again: a
\* rule that could be made can be removed (elev/src/lib.rs:236).  Nor does the
\* first return of check_placement refuse what the rest accepts ("only the
\* reason changes, never the verdict", elev/src/placement.rs:395).
JudgesAgree ==
    /\ AppAccepts(exe) =>
          LET facts == PlacementFacts(exe)
              helper == facts.helper.path
              dir == Parent(facts.main.path)
          IN /\ HelperAccepts(helper)
             /\ PlacementFacts(helper).main = facts.main
             /\ UninstallerAccepts(dir)
             /\ ObjectFacts(Append(dir, MainName)).path = facts.main.path
    /\ Collects(exe) /\ CheckBelow(PlacementFacts(exe)) =>
          CheckPlacement(PlacementFacts(exe))

\* The verdict on a place is safe, and the same whoever asks.
PlacementIsSound == AcceptedIsTrusted /\ JudgesAgree
=============================================================================
