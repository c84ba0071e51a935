-------------------------- MODULE PlacementCases --------------------------
(***************************************************************************)
(* The disks Placement is checked on: one installation under Program       *)
(* Files, one beside it, reached directly or through junctions, with every *)
(* single and every pair of deviations from what an installer leaves.      *)
(***************************************************************************)
EXTENDS Naturals, Sequences, FiniteSets

CONSTANTS Administrators, Everyone, CreatorOwner, HelperName, MainName

ProgramFiles == <<"C", "Program Files">>
App == Append(ProgramFiles, "App")
Tools == <<"C", "Tools">>

Ace(type, sid, rights) ==
    [type |-> type, sid |-> sid, rights |-> rights, inheritOnly |-> FALSE, object |-> FALSE]

FullControl == {"read", "write"}

\* What a per-machine installer leaves.
Installed ==
    [reparse |-> FALSE, owner |-> Administrators, nullDacl |-> FALSE,
     dacl |-> <<Ace("allow", Administrators, FullControl), Ace("allow", Everyone, {"read"})>>]

With(ace) == [Installed EXCEPT !.dacl = Append(@, ace)]

\* One deviation of one object: what owns it, what its list says.
Deviations ==
    {Installed,
     [Installed EXCEPT !.reparse = TRUE],
     [Installed EXCEPT !.owner = Everyone],
     [Installed EXCEPT !.nullDacl = TRUE, !.dacl = <<>>],
     [Installed EXCEPT !.dacl = <<>>],
     With(Ace("allow", Everyone, FullControl)),
     With([Ace("allow", Everyone, FullControl) EXCEPT !.object = TRUE]),
     With([Ace("allow", Everyone, FullControl) EXCEPT !.inheritOnly = TRUE]),
     With([Ace("allow", CreatorOwner, FullControl) EXCEPT !.inheritOnly = TRUE]),
     With(Ace("allow", CreatorOwner, FullControl)),
     With(Ace("deny", Everyone, FullControl)),
     With([Ace("other", Everyone, FullControl) EXCEPT !.inheritOnly = TRUE]),
     [Installed EXCEPT !.dacl = <<Ace("deny", Everyone, {"write"}),
                                  Ace("allow", Everyone, FullControl)>>]}

Object(isDirectory, o) ==
    [directory |-> isDirectory, reparse |-> o.reparse, owner |-> o.owner,
     nullDacl |-> o.nullDacl, dacl |-> o.dacl]

Directories == {<<"C">>, ProgramFiles, App, Tools}
Exes(dir) == {Append(dir, HelperName), Append(dir, MainName)}
Paths == Directories \cup Exes(App) \cup Exes(Tools)

BaseObjects == [p \in Paths |-> Object(p \in Directories, Installed)]

\* A junction to the installation, and one in its place.
Junctions ==
    LET Junction(at, target) == [path \in {at} |-> target]
    IN {<<>>, Junction(Append(Tools, "Link"), App), Junction(App, Tools)}

Objects ==
    LET Deviating == {ProgramFiles, App} \cup Exes(App)
        Changed(p, o, q, r) ==
            [BaseObjects EXCEPT ![p] = Object(p \in Directories, o),
                                ![q] = Object(q \in Directories, r)]
        Without(p) == [q \in Paths \ {p} |-> BaseObjects[q]]
        Turned(p) == [BaseObjects EXCEPT ![p].directory = ~@]
    IN {Changed(p, o, q, r) : p \in Deviating, o \in Deviations,
                              q \in Deviating, r \in Deviations}
           \cup {Without(p) : p \in Deviating}
           \cup {Turned(p) : p \in Deviating}

Disk(objects, junctions, unreadable, folders) ==
    [objects |-> objects, junctions |-> junctions, unreadable |-> unreadable,
     knownFolders |-> folders]

Usual == <<ProgramFiles, <<"C", "Program Files (x86)">>>>

Disks ==
    {Disk(o, j, {}, Usual) : o \in Objects, j \in Junctions}
        \cup {Disk(BaseObjects, j, u, f) :
                 j \in Junctions, u \in {{}} \cup {{p} : p \in Paths},
                 f \in {<<>>, Usual, <<<<"C">>, ProgramFiles>>, <<Tools, ProgramFiles>>,
                        <<<<"net", "share">>>>}}

\* The app as it was started.
Started == {Append(d, n) : d \in {App, Tools, Append(Tools, "Link")}, n \in {MainName, HelperName}}
=============================================================================
