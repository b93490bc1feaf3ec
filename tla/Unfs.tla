-------------------------------- MODULE Unfs --------------------------------
(***************************************************************************)
(* How unfs.smashfs extracts an image (src/src/mkfs/unfs.c): main makes the *)
(* output directory and enters it, and traverse calls itself for every     *)
(* entry, with the working directory of the process following along by     *)
(* chdir(name) and chdir("..").  All names are taken relative to it.       *)
(*                                                                         *)
(* The recursion is an explicit stack of frames, one for each directory    *)
(* whose loop is running; `call` is the call of traverse that begins.      *)
(* The file system is a function from the paths that exist to files; a path *)
(* is a sequence of names, without links.  chdir, open and chmod follow the *)
(* links they meet; mkdir, unlink, symlink and lchown do not.  What the    *)
(* tables hold is module ImageTables' matter, and node_fill and block_fill *)
(* cannot fail.                                                            *)
(***************************************************************************)
EXTENDS Integers, Sequences, FiniteSets, SequencesExt

CONSTANTS Names,        \* what files can be called: without a "/"
          Images,       \* node tables: functions from 0..n to nodes
          Leftovers,    \* what may stand at the output and below it before:
                        \* functions from paths, seen from there, to files
          Owners,       \* user ids, with User that of an unprivileged user
          User,
          Up,           \* the name of the output directory and those above
          MaxParts,     \* bound: names and links that are looked up on the way
                        \* to one file; Linux has such a limit, ELOOP
          MaxFailures   \* bound: system calls that fail for want of space,
                        \* memory or an intact block

Permissions == {"r", "w", "x"}
Types == {"directory", "regular_file", "symbolic_link"}
Partial == -1      \* a file whose content was not written to its end
None == -2         \* no content: a directory or a link
Dot == "./"        \* the name main passes for the root

\* What a link points at, part by part: "/" stands before an absolute path.
Slash == "/"
DotDot == ".."
Targets == Seq(Names \cup {Up, Slash, DotDot})
NoTarget == <<>>   \* what is not a link points at nothing

Files == [type : Types, mode : SUBSET Permissions, owner : Owners,
          content : Int, target : Targets]

ASSUME UnfsAssumption ==
    /\ User \in Owners /\ Owners # {User}
    /\ MaxFailures \in Nat /\ MaxParts \in Nat \ {0}
    /\ {Dot, Slash, DotDot} \cap (Names \cup {Up}) = {}

\* The output may be missing, and is a directory otherwise.
ASSUME LeftoversAssumption ==
    \A left \in Leftovers :
        /\ left \in [DOMAIN left -> Files]
        /\ DOMAIN left \subseteq Seq(Names)
        /\ DOMAIN left # {} => <<>> \in DOMAIN left
        /\ \A path \in DOMAIN left :
              \A dir \in (Prefixes(path) \ {path}) \cup {<<>>} :
                  dir \in DOMAIN left /\ left[dir].type = "directory"

\* Directories list names, each once, with the numbers of nodes; lstat gives
\* a link all permissions.
ASSUME ImagesAssumption ==
    \A table \in Images :
        /\ Cardinality(DOMAIN table) \in Nat \ {0}
        /\ DOMAIN table = 0..Cardinality(DOMAIN table) - 1
        /\ \A n \in DOMAIN table :
              /\ table[n].type \in Types
              /\ table[n].mode \in SUBSET Permissions
              /\ table[n].owner \in Owners
              /\ table[n].target \in Targets
              /\ table[n].type = "symbolic_link" =>
                    table[n].target # NoTarget /\ table[n].mode = Permissions
              /\ table[n].entries \in Seq([name : Names, number : DOMAIN table])
              /\ \A d, e \in DOMAIN table[n].entries :
                    table[n].entries[d].name = table[n].entries[e].name => d = e

\* chdir("..") may be taken once too often for each failure, and once more.
Output == [i \in 1..MaxFailures + 2 |-> Up]
ParentOf(path) == IF path = <<>> THEN path ELSE Front(path)

VARIABLES
    image,        \* the node table
    earlier,      \* what was left before
    privileged,   \* the process is root's
    fs,           \* the file system
    cwd,          \* the working directory
    stack,        \* frames: the node, the name and the next entry, e
    call,         \* <<>>, or the <<node, name>> traverse is called with
    reported,     \* the paths in the image an error was printed for
    lost,         \* the files and links that were left with chdir("..")
    fds,          \* file descriptors left open
    strayed,      \* a link was entered, opened or followed by the chmod of a
                  \* directory: something else was taken for what has the name
    pointed,      \* the paths whose mode was last set through a link to them
    failures, phase

given == <<image, earlier, privileged>>
astray == <<strayed, pointed>>
tally == <<lost, fds, astray>>
vars == <<given, fs, cwd, stack, call, reported, tally, failures, phase>>

Owner == IF privileged THEN CHOOSE o \in Owners : o # User ELSE User

NewDirectory(mode, owner) ==
    [type |-> "directory", mode |-> mode, owner |-> owner, content |-> None,
     target |-> NoTarget]

\* unfs starts in the directory that holds, or will hold, the output.
Init ==
    /\ image \in Images
    /\ earlier \in Leftovers
    /\ privileged \in BOOLEAN
    /\ fs = [p \in Prefixes(ParentOf(Output)) \cup
                   {Output \o q : q \in DOMAIN earlier} |->
                IF Len(p) < Len(Output) THEN NewDirectory(Permissions, User)
                ELSE earlier[SubSeq(p, Len(Output) + 1, Len(p))]]
    /\ cwd = ParentOf(Output)
    /\ stack = <<>> /\ call = <<>> /\ reported = {}
    /\ lost = 0 /\ fds = 0 /\ failures = 0
    /\ strayed = FALSE /\ pointed = {}
    /\ phase = "main"

-----------------------------------------------------------------------------
(***************************************************************************)
(* The file system                                                         *)
(***************************************************************************)
IsLink(files, path) == path \in DOMAIN files /\ files[path].type = "symbolic_link"
Searchable(files, dir) ==
    /\ dir \in DOMAIN files
    /\ files[dir].type = "directory"
    /\ privileged \/ "x" \in files[dir].mode

\* Looking up a path: the file it has led to and the parts that are left.  It
\* goes on from every directory that can be searched and is stuck elsewhere.
LookUp(files, walk) ==
    LET part == Head(walk.left)
        path == Append(walk.at, part)
        next == CASE part = Slash  -> [walk EXCEPT !.at = <<>>]
                  [] part = DotDot -> [walk EXCEPT !.at = ParentOf(@)]
                  [] IsLink(files, path) ->
                        [walk EXCEPT !.left = <<part>> \o files[path].target
                                                       \o Tail(@)]
                  [] OTHER -> [walk EXCEPT !.at = path]
    IN  CASE walk.left = <<>> -> {walk}
          [] walk.left # <<>> /\ Searchable(files, walk.at) ->
                {[next EXCEPT !.left = Tail(@)]}
          [] OTHER -> {}

Walks(files, start) ==
    LET walks[k \in 0..MaxParts] ==
            IF k = 0 THEN {start}
            ELSE UNION {LookUp(files, walk) : walk \in walks[k - 1]}
    IN  walks[MaxParts]

\* Where a name leads from dir: at most one path.  The last part of it need
\* not exist, so that open can make it.
Leads(files, dir, name) ==
    LET start == [at |-> dir, left |-> IF name = Dot THEN <<>> ELSE <<name>>]
    IN  {walk.at : walk \in {w \in Walks(files, start) : w.left = <<>>}}

\* chdir("..") stays if it has no permission for it.
UpFrom(files, dir) ==
    IF Searchable(files, dir) /\ Searchable(files, ParentOf(dir))
    THEN ParentOf(dir) ELSE dir

\* The path a call's name stands for, and the one the image gives the node.
PathOf(dir, name) == IF name = Dot THEN dir ELSE Append(dir, name)
NamesOf(frames) == [i \in 1..Len(frames) - 1 |-> frames[i + 1].name]
ImagePath == IF stack = <<>> THEN <<>> ELSE Append(NamesOf(stack), call[2])
Node == image[call[1]]
Path == PathOf(cwd, call[2])

Exists(path) == path \in DOMAIN fs
May(path, permission) == privileged \/ permission \in fs[path].mode
\* An entry can be added to or taken from the working directory.
MayChange == Searchable(fs, cwd) /\ May(cwd, "w")

With(files, path, file) == [p \in DOMAIN files \cup {path} |->
                                IF p = path THEN file ELSE files[p]]
Without(files, path) == [p \in DOMAIN files \ {path} |-> files[p]]

\* mutant: no unlink
UnlinkedNot == fs

\* unlink(name), the result of which is not looked at.
Unlinked ==
    IF Exists(Path) /\ fs[Path].type # "directory" /\ MayChange
    THEN Without(fs, Path) ELSE fs

\* mutant: neither call is made
ChangedNot(files, dir, name, node) == files

\* The chmod and lchown at the end of traverse: chmod follows links, lchown
\* does not; of the two only lchown's result is looked at, to print it.  The
\* mode is set of what the user owns, the owner by root.
Changed(files, dir, name, node) ==
    LET path == PathOf(dir, name)
        moded == [p \in DOMAIN files |->
                     IF /\ p \in Leads(files, dir, name)
                        /\ privileged \/ files[p].owner = User
                     THEN [files[p] EXCEPT !.mode = node.mode] ELSE files[p]]
    IN  IF privileged /\ path \in DOMAIN files
        THEN [moded EXCEPT ![path].owner = node.owner] ELSE moded

\* The end of traverse for a name in dir, in a file system that is so far
\* `files`.
Settle(files, dir, name, node) ==
    /\ fs' = Changed(files, dir, name, node)
    /\ pointed' = IF IsLink(files, PathOf(dir, name))
                  THEN pointed \cup Leads(files, dir, name)
                  ELSE pointed \ {PathOf(dir, name)}

\* A path is used as if it were no link.
Trust(files, path) == strayed' = (strayed \/ IsLink(files, path))

\* traverse prints an error and returns, having left files behind.
Return(files, directory) ==
    /\ fs' = files
    /\ cwd' = directory
    /\ call' = <<>>
    /\ reported' = reported \cup {ImagePath}
    /\ UNCHANGED <<given, stack, phase>>

\* A call fails for a reason that is not in the file system.
Fail == failures < MaxFailures /\ failures' = failures + 1

-----------------------------------------------------------------------------
(***************************************************************************)
(* main                                                                    *)
(***************************************************************************)
\* mkdir(output)
OutputMade == IF Exists(Output) THEN fs
              ELSE With(fs, Output, NewDirectory(Permissions, Owner))

MakeOutput ==
    /\ phase = "main"
    /\ Searchable(OutputMade, Output)
    /\ fs' = OutputMade
    /\ cwd' = Output
    /\ call' = <<0, Dot>>
    /\ phase' = "traverse"
    /\ UNCHANGED <<given, stack, reported, tally, failures>>

MakeOutputFails ==
    /\ phase = "main"
    /\ \/ ~Searchable(OutputMade, Output) /\ fs' = fs /\ UNCHANGED failures
       \/ Fail /\ fs' = fs         \* mkdir(output) failed, or what precedes it
       \/ Fail /\ fs' = OutputMade \* malloc of cwd or chdir(output) did
    /\ phase' = "failed"
    /\ UNCHANGED <<given, cwd, stack, call, reported, tally>>

\* traverse returns nothing: main goes back where it was and exits with 0.
WayBack == \A dir \in Prefixes(ParentOf(Output)) : Searchable(fs, dir)
Returned == phase = "traverse" /\ stack = <<>> /\ call = <<>>

Finish ==
    /\ Returned
    /\ WayBack
    /\ cwd' = ParentOf(Output)
    /\ phase' = "done"
    /\ UNCHANGED <<given, fs, stack, call, reported, tally, failures>>

\* The last chdir fails, or getcwd had: main exits with -1.
FinishFails ==
    /\ Returned
    /\ \/ ~WayBack /\ UNCHANGED failures
       \/ Fail
    /\ phase' = "stranded"
    /\ UNCHANGED <<given, fs, cwd, stack, call, reported, tally>>

-----------------------------------------------------------------------------
(***************************************************************************)
(* A directory                                                             *)
(***************************************************************************)
\* mkdir(name, mode); one that exists keeps its mode until the end, and
\* anything else that has the name is left to chdir.
MadeDirectory ==
    IF Exists(Path) THEN fs
    ELSE With(fs, Path, NewDirectory(Node.mode, Owner))

CanMake == Searchable(fs, cwd) /\ (Exists(Path) \/ May(cwd, "w"))

\* Where chdir(name) can go.
Entered == {dir \in Leads(MadeDirectory, cwd, call[2]) :
               Searchable(MadeDirectory, dir)}

Calling(type) == call # <<>> /\ Node.type = type

EnterDirectory ==
    /\ Calling("directory")
    /\ CanMake
    /\ cwd' \in Entered
    /\ fs' = MadeDirectory
    /\ Trust(fs, Path)
    /\ stack' = Append(stack, [node |-> call[1], name |-> call[2], e |-> 1])
    /\ call' = <<>>
    /\ UNCHANGED <<given, reported, lost, fds, pointed, failures, phase>>

\* mkdir is refused, or chdir is and the directory stays.
RefusedDirectory ==
    /\ Calling("directory")
    /\ ~CanMake \/ Entered = {}
    /\ Return(IF CanMake THEN MadeDirectory ELSE fs, cwd)
    /\ UNCHANGED <<tally, failures>>

\* mkdir fails; or malloc or node_read does and the directory is left again.
\* From "./" the way leads above the output.
DirectoryFails ==
    /\ Calling("directory")
    /\ Fail
    /\ \/ ~Exists(Path) /\ Return(fs, cwd) /\ UNCHANGED strayed
       \/ /\ CanMake
          /\ \E dir \in Entered :
                Return(MadeDirectory, UpFrom(MadeDirectory, dir))
          /\ Trust(fs, Path)
    /\ UNCHANGED <<lost, fds, pointed>>

\* The innermost loop, between two calls, and its entry.
InLoop == phase = "traverse" /\ stack # <<>> /\ call = <<>>
Top == stack[Len(stack)]
Entries == image[Top.node].entries
HasEntry == Top.e =< Len(Entries)

\* mutant: the loop stays at an entry that is a link
AdvancedNot ==
    IF image[Entries[Top.e].number].type = "symbolic_link" THEN stack
    ELSE [stack EXCEPT ![Len(stack)].e = @ + 1]

Advanced == [stack EXCEPT ![Len(stack)].e = @ + 1]

NextEntry ==
    /\ InLoop /\ HasEntry
    /\ stack' = Advanced
    /\ call' = <<Entries[Top.e].number, Entries[Top.e].name>>
    /\ UNCHANGED <<given, fs, cwd, reported, tally, failures, phase>>

\* strndup fails for an entry, which is passed over.
SkipEntry ==
    /\ InLoop /\ HasEntry
    /\ Fail
    /\ stack' = Advanced
    /\ reported' = reported \cup {Append(NamesOf(stack), Entries[Top.e].name)}
    /\ UNCHANGED <<given, fs, cwd, call, tally, phase>>

\* mutant: the loop ends after one entry
LoopEndsEarly == Top.e > 1

LoopEnds == ~HasEntry

\* chdir(".."), then the mode and the owner of name, seen from there.
CanLeave == Searchable(fs, cwd) /\ Searchable(fs, ParentOf(cwd))

LeaveDirectory ==
    /\ InLoop /\ LoopEnds
    /\ CanLeave
    /\ cwd' = ParentOf(cwd)
    /\ Settle(fs, cwd', Top.name, image[Top.node])
    /\ Trust(fs, PathOf(cwd', Top.name))
    /\ stack' = Front(stack)
    /\ UNCHANGED <<given, call, reported, lost, fds, failures, phase>>

\* chdir("..") fails: an error is printed, and the loop above goes on where
\* this one was.
LeaveFails ==
    /\ InLoop /\ LoopEnds
    /\ ~CanLeave
    /\ stack' = Front(stack)
    /\ reported' = reported \cup {NamesOf(stack)}
    /\ UNCHANGED <<given, fs, cwd, call, tally, failures, phase>>

-----------------------------------------------------------------------------
(***************************************************************************)
(* A regular file                                                          *)
(***************************************************************************)
\* Where open(name, O_CREAT | O_TRUNC | O_WRONLY, mode) can write.
Openable ==
    {path \in Leads(Unlinked, cwd, call[2]) :
        IF path \in DOMAIN Unlinked
        THEN Unlinked[path].type = "regular_file" /\ May(path, "w")
        ELSE May(ParentOf(path), "w")}

Opened(path, content) ==
    With(Unlinked, path,
         IF path \in DOMAIN Unlinked
         THEN [fs[path] EXCEPT !.content = content]
         ELSE [type |-> "regular_file", mode |-> Node.mode, owner |-> Owner,
               content |-> content, target |-> NoTarget])

ExtractFile ==
    /\ Calling("regular_file")
    /\ \E path \in Openable :
          Settle(Opened(path, call[1]), cwd, call[2], Node)
    /\ Trust(Unlinked, Path)
    /\ call' = <<>>
    /\ UNCHANGED <<given, cwd, stack, reported, lost, fds, failures, phase>>

RefusedFile ==
    /\ Calling("regular_file")
    /\ Openable = {}
    /\ Return(Unlinked, cwd)
    /\ UNCHANGED <<tally, failures>>

\* open fails; or node_read does, in the middle, and traverse leaves the
\* directory it did not enter and the file open.
FileFails ==
    /\ Calling("regular_file")
    /\ Fail
    /\ \/ /\ Return(Unlinked, cwd)
          /\ UNCHANGED <<lost, fds, strayed>>
       \/ /\ \E path \in Openable :
                Return(Opened(path, Partial), UpFrom(fs, cwd))
          /\ Trust(Unlinked, Path)
          /\ lost' = lost + 1
          /\ fds' = fds + 1
    /\ UNCHANGED pointed

-----------------------------------------------------------------------------
(***************************************************************************)
(* A symbolic link                                                         *)
(***************************************************************************)
CanLink == Path \notin DOMAIN Unlinked /\ MayChange

Link == [type |-> "symbolic_link", mode |-> Permissions, owner |-> Owner,
         content |-> None, target |-> Node.target]

ExtractLink ==
    /\ Calling("symbolic_link")
    /\ CanLink
    /\ Settle(With(Unlinked, Path, Link), cwd, call[2], Node)
    /\ call' = <<>>
    /\ UNCHANGED <<given, cwd, stack, reported, lost, fds, strayed, failures,
                   phase>>

RefusedLink ==
    /\ Calling("symbolic_link")
    /\ ~CanLink
    /\ Return(Unlinked, cwd)
    /\ UNCHANGED <<tally, failures>>

\* mutant: symlink's failure takes the way back of node_read
LinkFailsTwice ==
    /\ Calling("symbolic_link")
    /\ Fail
    /\ Return(Unlinked, UpFrom(fs, cwd))
    /\ UNCHANGED tally

\* symlink fails; or malloc or node_read does, and traverse leaves the
\* directory it did not enter.
LinkFails ==
    /\ Calling("symbolic_link")
    /\ Fail
    /\ \/ /\ Return(Unlinked, cwd)
          /\ UNCHANGED lost
       \/ /\ Return(Unlinked, UpFrom(fs, cwd))
          /\ lost' = lost + 1
    /\ UNCHANGED <<fds, astray>>

-----------------------------------------------------------------------------
Next ==
    \/ MakeOutput
    \/ MakeOutputFails
    \/ EnterDirectory
    \/ RefusedDirectory
    \/ DirectoryFails
    \/ NextEntry
    \/ SkipEntry
    \/ LeaveDirectory
    \/ LeaveFails
    \/ ExtractFile
    \/ RefusedFile
    \/ FileFails
    \/ ExtractLink
    \/ RefusedLink
    \/ LinkFails
    \/ Finish
    \/ FinishFails

Spec == Init /\ [][Next]_vars
\* One process, which the system goes on running.
FairSpec == Spec /\ WF_vars(Next)

-----------------------------------------------------------------------------
(***************************************************************************)
(* Properties                                                              *)
(***************************************************************************)
\* While the loops run, the working directory is as deep as the directories
\* that are open, less one for every file or link whose reading failed: the
\* way back of those (unfs.c:366-373, 378-396) leaves a directory they did
\* not enter.  Without such a failure it is the directory of the innermost
\* loop, whatever else was refused.  That holds until a link is taken for a
\* directory or a file; and without such a failure that is never a link of
\* the image, but one that was left from before.
CwdFollowsLoops ==
    /\ phase = "traverse" /\ stack # <<>> /\ ~strayed =>
          /\ Len(cwd) = Len(Output) + Len(stack) - 1 - lost
          /\ lost = 0 => cwd = Output \o NamesOf(stack)
    /\ strayed =>
          lost > 0 \/ \E path \in DOMAIN earlier : IsLink(earlier, path)

\* The paths of an image, to the depth its directories can have.
EntriesOf(n) == IF image[n].type = "directory" THEN Range(image[n].entries)
                ELSE {}
PathsBelow[k \in 0..Cardinality(DOMAIN image)] ==
    IF k = 0 THEN {<<<<>>, 0>>}
    ELSE PathsBelow[k - 1] \cup
         UNION {{<<Append(p[1], x.name), x.number>> : x \in EntriesOf(p[2])} :
                    p \in PathsBelow[k - 1]}
ImagePaths == PathsBelow[Cardinality(DOMAIN image)]

HasContent(path, n) ==
    /\ path \in DOMAIN fs
    /\ fs[path].type = image[n].type
    /\ image[n].type = "regular_file" => fs[path].content = n
    /\ image[n].type = "symbolic_link" => fs[path].target = image[n].target

\* The traversal is over, and no name was taken in the wrong directory.
Traversed == phase \in {"done", "stranded"}
Straight == lost = 0 /\ ~strayed

\* An extraction leaves nothing out in silence: what is not there with its
\* content when unfs ends had an error printed for itself or for a directory
\* above it.
LossIsReported ==
    Traversed /\ Straight =>
        \A x \in ImagePaths :
            \/ HasContent(Output \o x[1], x[2])
            \/ Prefixes(x[1]) \cap reported # {}

\* As root and with every system call that can succeed succeeding, an
\* extraction loses only what something of another kind, left from earlier,
\* stands in the way of: never an entry because of those before it.
RootLosesToObstacles ==
    Traversed /\ privileged /\ failures = 0 /\ ~strayed =>
        \A x \in ImagePaths :
            x[1] \in reported =>
                /\ Output \o x[1] \in DOMAIN fs
                /\ fs[Output \o x[1]].type # image[x[2]].type

\* Below the root of the image, what has been extracted has the mode of its
\* node when unfs ends, except where a link was extracted later that leads to
\* it and where it belongs to somebody else, whose chmod fails in silence; and
\* as root it also has its owner.
ModesSet ==
    Traversed /\ Straight =>
        \A x \in ImagePaths :
            x[1] # <<>> /\ Prefixes(x[1]) \cap reported = {} =>
                LET path == Output \o x[1]
                    file == fs[path]
                IN  /\ \/ file.type = "symbolic_link"
                       \/ path \in pointed
                       \/ ~privileged /\ file.owner # User
                       \/ file.mode = image[x[2]].mode
                    /\ privileged => file.owner = image[x[2]].owner

\* Every extraction ends, whatever fails.
Ends == <>(phase \in {"done", "stranded", "failed"})

=============================================================================
