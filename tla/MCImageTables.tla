--------------------------- MODULE MCImageTables ---------------------------
(***************************************************************************)
(* Model checking module ImageTables, with blocks of four and eight bytes  *)
(* and of a size between.  The node tables are ones module SourceScan      *)
(* builds: a tree with files that end inside, at and beyond a block, an    *)
(* empty file and a symbolic link; a tree of directories; and sources that *)
(* are files only.                                                         *)
(***************************************************************************)
EXTENDS ImageTables

Node(number, type, ntype, mode, uid, length, parent, entries) ==
    [number |-> number, type |-> type, ntype |-> ntype, owner_mode |-> mode,
     group_mode |-> mode \div 2, other_mode |-> mode % 2, uid |-> uid,
     gid |-> uid \div 2, ctime |-> 0, mtime |-> 0, length |-> length,
     parent |-> parent, entries |-> entries, size |-> 0, block |-> 0,
     index |-> 0]

Elf(number, length) == Node(number, Regular, 1, 7, 2, length, 0, <<>>)
File(number, length) == Node(number, Regular, 2, 6, 3, length, 0, <<>>)
Dir(number, parent, entries) ==
    Node(number, Directory, 3, 5, 0, 0, parent, entries)
Link(number, length) == Node(number, SymbolicLink, 4, 7, 1, length, 0, <<>>)
Entry(number, length, type) ==
    [number |-> number, length |-> length, type |-> type]

Trees ==
    { \* an empty file and one of a block, beside a directory of two blocks
      <<Dir(0, 0, <<Entry(1, 1, Regular), Entry(2, 4, Regular)>>),
        File(1, 4), File(2, 0)>>,
      \* a file across blocks, an ELF file and a link
      <<Dir(0, 0, <<Entry(1, 1, Regular), Entry(2, 1, SymbolicLink),
                    Entry(3, 2, Regular)>>),
        File(1, 5), Link(2, 2), Elf(3, 2)>>,
      \* directories in one another, an entry twice in them
      <<Dir(0, 0, <<Entry(1, 1, Directory), Entry(2, 1, Regular)>>),
        Dir(1, 0, <<Entry(2, 2, Regular)>>), File(2, 3)>>,
      \* one file, and none of any length
      <<File(0, 6)>>,
      <<File(0, 0)>> }

\* The root and the other nodes have any of two times; what was changed first
\* was modified last.
MCTimes == {2, 5}

MCNodeTables ==
    { [i \in DOMAIN tree |->
          LET t == IF i = 1 THEN root ELSE rest
          IN  [tree[i] EXCEPT !.ctime = t, !.mtime = 7 - t]] :
      tree \in Trees, root \in MCTimes, rest \in MCTimes }

MCDisabled == { {}, {"group_mode", "gid", "ctime"},
                {"other_mode", "uid", "mtime"}, {"ctime", "mtime"} }
=============================================================================
