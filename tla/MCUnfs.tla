------------------------------- MODULE MCUnfs -------------------------------
(***************************************************************************)
(* Model checking module Unfs: images of files, links before and after what *)
(* they point at, directories that cannot be written or searched, a        *)
(* duplicate, and a single file; with and without an earlier extraction in *)
(* the output directory.                                                   *)
(***************************************************************************)
EXTENDS Unfs

Item(type, mode, owner, entries, target) ==
    [type |-> type, mode |-> mode, owner |-> owner, entries |-> entries,
     target |-> target]
File(mode) == Item("regular_file", mode, "staff", <<>>, NoTarget)
SymLink(target) ==
    Item("symbolic_link", Permissions, "staff", <<>>, target)
Dir(mode, entries) == Item("directory", mode, "root", entries, NoTarget)
Entry(name, number) == [name |-> name, number |-> number]

Table(nodes) == [n \in 0..Len(nodes) - 1 |-> nodes[n + 1]]

MCImages ==
    { \* a file, a directory that cannot be written, links to the file
      Table(<<Dir({"r", "x"}, <<Entry("a", 1), Entry("b", 2), Entry("c", 3)>>),
              File({"r"}),
              Dir({"r", "x"}, <<Entry("a", 1), Entry("b", 4)>>),
              SymLink(<<"a">>),
              SymLink(<<DotDot, "c">>)>>),
      \* a link before its target, and directories in one another
      Table(<<Dir(Permissions, <<Entry("a", 1), Entry("b", 2), Entry("c", 3)>>),
              SymLink(<<"c">>),
              Dir(Permissions, <<Entry("a", 3), Entry("b", 4)>>),
              File({"r", "w"}),
              Dir({"r", "w"}, <<Entry("a", 5), Entry("b", 3)>>),
              Dir(Permissions, <<>>)>>),
      \* directories only, one of which cannot be searched
      Table(<<Dir(Permissions, <<Entry("a", 1), Entry("c", 3)>>),
              Dir({"r", "x"}, <<Entry("b", 2), Entry("c", 3)>>),
              Dir({"r", "w"}, <<>>),
              Dir(Permissions, <<>>)>>),
      \* a source file
      Table(<<File({"r", "w"})>>) }

\* What was left before: in the output, at the paths given.
LeftFile(mode) == [type |-> "regular_file", mode |-> mode, owner |-> "user",
                   content |-> Partial, target |-> NoTarget]
LeftDir(mode, owner) == NewDirectory(mode, owner)
LeftLink(target) == [type |-> "symbolic_link", mode |-> Permissions,
                     owner |-> "user", content |-> None, target |-> target]
Left(files) == (<<>> :> LeftDir(Permissions, "user")) @@ files

MCLeftovers ==
    { <<>>,
      \* a file that cannot be written and a directory that cannot be searched
      Left(<<"a">> :> LeftFile({"r"}) @@ <<"c">> :> LeftDir({"r", "w"}, "user")),
      \* links where files and directories go, to one another and to nothing
      Left(<<"a">> :> LeftLink(<<"c">>) @@ <<"c">> :> LeftLink(<<"b">>)),
      \* a file where a directory goes
      Left(<<"b">> :> LeftFile({"r", "w"})),
      \* links where directories go: to one above them, and above the output
      Left(<<"a">> :> LeftDir(Permissions, "user") @@
           <<"a", "b">> :> LeftLink(<<DotDot, "a">>) @@
           <<"b">> :> LeftLink(<<DotDot>>) @@
           <<"c">> :> LeftLink(<<Slash, "up", DotDot, "up">>)),
      \* a directory of somebody else's, and links that cannot be unlinked
      Left(<<"a">> :> LeftDir(Permissions, "root") @@
           <<"b">> :> LeftDir({"r", "x"}, "user") @@
           <<"b", "a">> :> LeftLink(<<DotDot, "c">>) @@
           <<"b", "b">> :> LeftLink(<<DotDot, "a", "b">>) @@
           <<"c">> :> LeftFile({"r", "w"})),
      \* an output that cannot be searched
      <<>> :> LeftDir({"r", "w"}, "user") }

MCOwners == {"root", "staff", "user"}
=============================================================================
