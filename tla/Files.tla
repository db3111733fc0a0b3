---------------------------------- MODULE Files ----------------------------------
(***************************************************************************)
(* The file manager: modules/file/file_mgr.c, which runs shell/file.sh for *)
(* every operation and judges it by its exit code, and the script itself.  *)
(* "read" is the exception: the script's cat writes into a pipe of which   *)
(* sysmgr reads as much as its buffer takes.                               *)
(*                                                                         *)
(* External: touch, cat, echo, rm, mv, cp, mkdir, chmod, stat, ls, find,   *)
(* tar and the file system they work on, which nobody else changes.        *)
(***************************************************************************)
EXTENDS Naturals, Sequences, SequencesExt, Prompt

CONSTANTS Path,     \* bound: the paths, as sequences of names
          Data,     \* what files contain
          Blank,    \* the content of a new file
          Tarball,  \* the content of an archive
          Option,   \* what echo takes for an option of its own
          Dash,     \* the names that begin with a dash
          Size,     \* how long a content is
          Buffer,   \* sizeof(data)
          Pipe      \* what a pipe holds

\* The names that paths are made of.
Segment == UNION {Range(p) : p \in Path}

ASSUME FilesAssumption ==
  /\ Path \subseteq Seq(Segment)
  /\ \A p \in Path : Len(p) > 0 /\ \A n \in 1..Len(p) : SubSeq(p, 1, n) \in Path
  /\ {Blank, Tarball} \subseteq Data /\ Option \subseteq Data
  /\ {"nothing", "folder"} \cap Data = {}
  /\ Size \in [Data -> Nat] /\ Size[Blank] = 0
  /\ Buffer \in Nat \ {0} /\ Pipe \in Nat \ {0}

VARIABLES
  fs,     \* what each path is, and whether it may be written
  op,     \* the operation, its paths and its data
  before, \* history: fs when the operation began
  io      \* a read: what cat has to write, what is in the pipe, what was read

filesVars == <<pc, told, fs, op, before, io>>

Nothing == [is |-> "nothing", ro |-> FALSE]
Folder == [is |-> "folder", ro |-> FALSE]
File(data) == [is |-> data, ro |-> FALSE]

Exists(p) == fs[p].is # "nothing"
IsFolder(p) == IF p = <<>> THEN TRUE ELSE fs[p].is = "folder"
IsFile(p) == Exists(p) /\ ~IsFolder(p)
Below(p) == {q \in Path : IsPrefix(p, q)}

\* Entries can be made in and removed from the directory of p.
Reachable(p) ==
  IF Front(p) = <<>> THEN TRUE ELSE IsFolder(Front(p)) /\ ~fs[Front(p)].ro

\* The paths that a program has to tell from its options: -f tells tar what the
\* archive is, and the redirection of echo is done by the shell.
Arguments ==
  IF op.name = "write" THEN {} ELSE IF op.name = "archive" THEN {op.dest}
  ELSE {op.path, op.dest} \ {<<>>}

\* A path that looks like an option is taken for one.  Bound: an option that names
\* no path of its own, and does not make its program wait, such as --help.
Misread == \E p \in Arguments : p[1] \in Dash

NoRead == [left |-> 0, piped |-> 0, total |-> 0]
NoOp == [name |-> "none", path |-> <<>>, dest |-> <<>>, data |-> Blank]

FilesInit ==
  /\ pc = "prompt" /\ told = "nothing"
  /\ fs = [p \in Path |-> Nothing] /\ before = fs
  /\ op = NoOp /\ io = NoRead

FilesBegin(name, path, dest, data) ==
  /\ pc = "prompt" /\ told = "nothing" /\ pc' = "file"
  /\ op' = [name |-> name, path |-> path, dest |-> dest, data |-> data]
  /\ before' = fs /\ io' = NoRead
  /\ UNCHANGED <<told, fs>>

\* The user has read the answer, and is at the menu again.
FilesPause ==
  /\ pc = "prompt" /\ told # "nothing" /\ told' = "nothing"
  /\ op' = NoOp /\ before' = fs /\ io' = NoRead
  /\ UNCHANGED <<pc, fs>>

\* run_file_script: an exit code of 0, or anything else.
FilesTell(what) == pc' = "prompt" /\ told' = what /\ UNCHANGED <<op, before>>

Does(name) == pc = "file" /\ op.name = name /\ ~Misread
Succeed(new) == FilesTell("done") /\ fs' = new /\ UNCHANGED io
Fail(new) == FilesTell("failed") /\ fs' = new /\ UNCHANGED io

-----------------------------------------------------------------------------
(* What the programs do.                                                    *)

\* The path in the place of t that corresponds to q below p.
Instead(p, t, q) == t \o SubSeq(q, Len(p) + 1, Len(q))

\* A copy of what is at p is put at t, or as much as `tree` of what is there;
\* the files in `cut` could be opened, and no more.
Copied(p, t, tree, cut) ==
  [q \in Path |->
     LET from == Instead(t, p, q)
     IN IF ~IsPrefix(t, q) \/ from \notin tree THEN fs[q]
        ELSE [is |-> IF from \in cut THEN Blank ELSE fs[from].is,
              ro |-> IF Exists(q) THEN fs[q].ro ELSE fs[from].ro]]

Without(f, some) == [q \in Path |-> IF q \in some THEN Nothing ELSE f[q]]

\* mv and cp put a thing into the destination when that is a directory.
Target == IF IsFolder(op.dest) THEN Append(op.dest, Last(op.path)) ELSE op.dest

\* Both leave alone what would be put into itself, a file in the place of a
\* directory and the reverse; the target is within the bound of Path.
Movable(t) ==
  /\ Exists(op.path) /\ t \in Path /\ Reachable(t)
  /\ ~IsPrefix(op.path, t)
  /\ Exists(t) => (IsFolder(t) <=> IsFolder(op.path))
  /\ \A q \in Below(op.path) : Exists(q) => Instead(op.path, t, q) \in Path

\* A move is one rename, also over a file that may not be written, or over an
\* empty directory.
Moved(t) ==
  [q \in Path |-> IF IsPrefix(t, q) /\ Instead(t, op.path, q) \in Path
                  THEN fs[Instead(t, op.path, q)]
                  ELSE IF IsPrefix(op.path, q) \/ IsPrefix(t, q) THEN Nothing ELSE fs[q]]

-----------------------------------------------------------------------------
\* The program explains itself, or finds that it has no path left.
Misled == pc = "file" /\ op.name # "read" /\ Misread /\ (Succeed(fs) \/ Fail(fs))

Create ==
  /\ Does("create")
  /\ \/ Fail(fs)
     \/ /\ Reachable(op.path) \/ Exists(op.path)
        /\ Succeed(IF Exists(op.path) THEN fs ELSE [fs EXCEPT ![op.path] = File(Blank)])

\* The redirection empties the file before echo writes, and echo -n takes "-n"
\* and "-e" for options.
Written(data) == IF data \in Option THEN Blank ELSE data

Write ==
  /\ Does("write")
  /\ \/ Fail(fs)
     \/ /\ IsFile(op.path) \/ (~Exists(op.path) /\ Reachable(op.path))
        /\ ~fs[op.path].ro
        /\ \/ Succeed([fs EXCEPT ![op.path] = File(Written(op.data))])
           \/ Fail([fs EXCEPT ![op.path] = File(Blank)])

\* rm -rf also succeeds when there is nothing, and may fail half-way.
Delete ==
  /\ Does("delete")
  /\ \/ Fail(fs)
     \/ ~Exists(op.path) /\ Succeed(fs)
     \/ /\ Exists(op.path) /\ Reachable(op.path)
        /\ (fs[op.path].ro /\ IsFolder(op.path)) => Below(op.path) = {op.path}
        /\ \/ Succeed(Without(fs, Below(op.path)))
           \/ \E some \in SUBSET Below(op.path) :
                /\ \A q \in some : Below(q) \subseteq some
                /\ Fail(Without(fs, some))

\* mv asks before it puts a thing over one that may not be written, when sysmgr is
\* at a terminal.
Asks == Exists(op.path) /\ Target \in Path /\ fs[Target].ro

\* rename and move; to say no to mv is not an error.
Move ==
  /\ Does("move")
  /\ \/ Fail(fs)
     \/ Asks /\ Succeed(fs)
     \/ /\ Movable(Target) /\ Reachable(op.path)
        /\ IsFolder(Target) => \A q \in Below(Target) \ {Target} : ~Exists(q)
        /\ Succeed(Moved(Target))

\* cp -r merges a directory into one that is there; it neither puts a file over
\* a directory nor the reverse.
Copyable(q) ==
  LET new == Instead(op.path, Target, q)
  IN IF Exists(new) THEN (IsFolder(new) <=> IsFolder(q)) /\ (fs[new].ro => IsFolder(q))
     ELSE IsFolder(Front(new)) => Reachable(new)

\* cp goes on after what it cannot copy, which may be a file that it has opened,
\* and so emptied, and then exits with 1.  Bound: no copy over a directory that
\* the original is in.
Copy ==
  /\ Does("copy")
  /\ \/ Fail(fs)
     \/ /\ Movable(Target) /\ ~fs[Target].ro /\ ~IsPrefix(Target, op.path)
        /\ LET all == {q \in Below(op.path) : Exists(q)}
           IN \E tree \in SUBSET {q \in all : Copyable(q)} :
                /\ \A q \in tree : q = op.path \/ Front(q) \in tree
                /\ \/ tree = all /\ Succeed(Copied(op.path, Target, tree, {}))
                   \/ \E cut \in SUBSET {q \in tree : IsFile(q)} :
                        Fail(Copied(op.path, Target, tree, cut))

\* mkdir -p: the directories on the way are made as well, the first one first.
MakeFolder ==
  /\ Does("mkdir")
  /\ \/ Fail(fs)
     \/ LET missing == {q \in Path : IsPrefix(q, op.path) /\ ~Exists(q)}
            Made(some) == [q \in Path |-> IF q \in some THEN Folder ELSE fs[q]]
        IN /\ \A q \in Path : IsPrefix(q, op.path) => q \in missing \/ IsFolder(q)
           /\ \A q \in missing : IsFolder(Front(q)) => Reachable(q)
           /\ \E some \in SUBSET missing :
                /\ \A q \in some : Front(q) \notin missing \ some
                /\ Fail(Made(some)) \/ (some = missing /\ Succeed(Made(some)))

\* chmod "$ARG2" "$ARG1", for a mode without the right to write or with it.
ChangeMode ==
  \E ro \in BOOLEAN :
    /\ Does(IF ro THEN "chmod -w" ELSE "chmod +w")
    /\ \/ Fail(fs)
       \/ Exists(op.path) /\ Succeed([fs EXCEPT ![op.path].ro = ro])

\* stat, ls -lah and find.
Inspect == Does("inspect") /\ (Fail(fs) \/ (Exists(op.path) /\ Succeed(fs)))

\* tar creates the archive before it looks for what goes into it.
Archive ==
  /\ Does("archive")
  /\ \/ Fail(fs)
     \/ /\ IsFile(op.path) \/ (~Exists(op.path) /\ Reachable(op.path))
        /\ ~fs[op.path].ro
        /\ LET new == [fs EXCEPT ![op.path] = File(Tarball)]
           IN Fail(new) \/ (Exists(op.dest) /\ Succeed(new))

-----------------------------------------------------------------------------
(* file_mgr_read: the script's cat and the loop of sysmgr.                   *)

\* The script has looked whether there is such a file; cat may find an option all
\* the same, and write something else.
ReadStarts ==
  /\ pc = "file" /\ op.name = "read"
  /\ UNCHANGED <<fs, op, before>>
  /\ \/ /\ IsFile(op.path) /\ pc' = "file.read" /\ UNCHANGED told
        /\ \E d \in IF Misread THEN Data ELSE {fs[op.path].is} :
             io' = [NoRead EXCEPT !.left = Size[d]]
     \/ pc' = "prompt" /\ told' = "failed" /\ io' = NoRead

CatWrites(k) ==
  /\ pc = "file.read"
  /\ k <= io.left /\ io.piped + k <= Pipe
  /\ io' = [io EXCEPT !.left = @ - k, !.piped = @ + k]
  /\ UNCHANGED <<pc, told, fs, op, before>>

\* Mutant of Room: the last byte of the buffer is read as well.
RoomForAll == Buffer - io.total

\* The last byte of the buffer is kept for the end of the string.
Room == Buffer - io.total - 1

\* Mutant of Reads: the count of read is not what is left of the buffer.
ReadsAll(k) ==
  /\ pc = "file.read"
  /\ k <= io.piped
  /\ io' = [io EXCEPT !.piped = @ - k, !.total = @ + k]
  /\ UNCHANGED <<pc, told, fs, op, before>>

Reads(k) ==
  /\ pc = "file.read"
  /\ k <= io.piped /\ k <= Room
  /\ io' = [io EXCEPT !.piped = @ - k, !.total = @ + k]
  /\ UNCHANGED <<pc, told, fs, op, before>>

\* read returns 0 when cat has ended, and when it is asked for 0 bytes.
ReadEnds ==
  /\ pc = "file.read"
  /\ Room = 0 \/ (io.left = 0 /\ io.piped = 0)
  /\ pc' = "file.wait"
  /\ UNCHANGED <<told, fs, op, before, io>>

\* Mutant of CatEnds: waitpid before the pipe is closed.
CatEndsFirst ==
  /\ pc = "file.wait" /\ io.left = 0
  /\ FilesTell("done")
  /\ UNCHANGED <<fs, io>>

\* The pipe is closed: a cat that has more to write is killed by SIGPIPE.
CatEnds ==
  /\ pc = "file.wait"
  /\ FilesTell(IF io.left = 0 THEN "done" ELSE "failed")
  /\ UNCHANGED <<fs, io>>

-----------------------------------------------------------------------------
FilesStart ==
  \/ \E name \in {"create", "read", "delete", "mkdir", "chmod -w", "chmod +w", "inspect"}, p \in Path :
       FilesBegin(name, p, <<>>, Blank)
  \/ \E p \in Path, d \in Data : FilesBegin("write", p, <<>>, d)
  \/ \E name \in {"move", "copy", "archive"}, p, q \in Path : FilesBegin(name, p, q, Blank)

FilesCommands ==
  \/ Misled \/ Create \/ Write \/ Delete \/ Move \/ Copy \/ MakeFolder \/ ChangeMode
  \/ Inspect \/ Archive
  \/ ReadStarts \/ ReadEnds \/ CatEnds
  \/ \E k \in 1..Buffer : Reads(k)
  \/ \E k \in 1..Pipe : CatWrites(k)

FilesNext == FilesStart \/ FilesPause \/ FilesCommands

FilesSpec == FilesInit /\ [][FilesNext]_filesVars

-----------------------------------------------------------------------------
\* The variables have their types, and what exists is in a directory.
FilesTypeOK ==
  /\ \A p \in Path : fs[p].is \in {"nothing", "folder"} \union Data /\ fs[p].ro \in BOOLEAN
  /\ \A p \in Path : Exists(p) => IsFolder(Front(p))
  /\ io.left \in Nat /\ io.piped \in 0..Pipe /\ io.total \in 0..Buffer

Held(f, p) == f[p].is

\* The target when the operation began.
Meant ==
  IF op.dest # <<>> /\ Held(before, op.dest) = "folder"
  THEN Append(op.dest, Last(op.path)) ELSE op.dest

\* The user has told mv to leave it.
Declined == op.name = "move" /\ Meant \in Path /\ before[Meant].ro /\ fs = before

\* What "done" promises for each operation.
Achieved ==
  LET name == op.name
  IN /\ name = "create" => Exists(op.path)
     /\ name = "write" => Held(fs, op.path) = op.data \/ op.data \in Option
     /\ name = "delete" => \A q \in Below(op.path) : ~Exists(q)
     /\ name = "mkdir" => IsFolder(op.path)
     /\ name = "move" => \A q \in Below(op.path) : ~Exists(q)
     /\ name \in {"move", "copy"} =>
          \A q \in Below(op.path) : Held(before, q) # "nothing" =>
            Held(fs, Meant \o SubSeq(q, Len(op.path) + 1, Len(q))) = Held(before, q)
     /\ name = "chmod -w" => fs[op.path].ro
     /\ name = "chmod +w" => ~fs[op.path].ro
     /\ name = "inspect" => Exists(op.path)
     /\ name = "archive" => Held(fs, op.path) = Tarball
     /\ name = "read" =>
          io.total = IF Size[Held(fs, op.path)] < Buffer THEN Size[Held(fs, op.path)]
                     ELSE Buffer - 1

\* What the operation may change: all else keeps its content, also when a
\* program fails half-way.
Concerned ==
  IF op.name \in {"create", "write", "delete", "archive"} THEN Below(op.path)
  ELSE IF op.name = "mkdir" THEN {q \in Path : IsPrefix(q, op.path)}
  ELSE IF op.name = "move" THEN Below(op.path) \union Below(op.dest)
  ELSE IF op.name = "copy" THEN Below(op.dest)
  ELSE {}

\* An operation of the file manager that reports success has done what it is
\* named for - a read has given the whole file, or as much as the buffer takes
\* - except that a write of "-n" or "-e" leaves the file empty, that mv asks
\* about a target that may not be written and may be told to leave it, and that
\* a path which looks like an option is none to the programs; and whether it
\* reports success or failure, nothing that it is not about has changed
\* (file_mgr_*, shell/file.sh).
SuccessMeansDone ==
  pc = "prompt" =>
    /\ told = "done" => Misread \/ Declined \/ Achieved
    /\ \A p \in Path \ Concerned : Held(fs, p) = Held(before, p)
===============================================================================
