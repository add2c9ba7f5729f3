------------------------------- MODULE Shell --------------------------------
(***************************************************************************)
(* The commands of the shell, src/user/command.c, over the file system.    *)
(*                                                                         *)
(* A command is a sequence of system calls, each one step: between two of  *)
(* them other processes run, and power may fail.  A command first reads    *)
(* the directories along its path, one call each, then makes the calls of  *)
(* its todo list, and gives up when one returns other than 0.  What it     *)
(* learned on the way, and the working directory, are cluster numbers kept *)
(* in user memory, which nobody updates.                                   *)
(*                                                                         *)
(* A path is a list of folders and a last name; its text, the limits on    *)
(* the length of names and the messages are left out.                      *)
(***************************************************************************)
EXTENDS FAT32, SequencesExt

CONSTANTS Shells,
          Commands,       \* the commands the users give
          NoExt,          \* the empty extension
          DotDot, Home,   \* the name of slot 1, and "~"
          MaxDirs,        \* bound on the folders of a path
          StaleWorkDir    \* whether a command may remove a shell's working directory

ASSUME ShellAssumption ==
    /\ Commands \subseteq {"cd", "mkdir", "rm", "rm_rec", "cat", "exec",
                     "cp", "cp_rec", "mv"}
    /\ NoExt \in Exts
    /\ DotDot \notin Names
    /\ MaxDirs \in Nat
    /\ StaleWorkDir \in BOOLEAN

VARIABLES work_dir,       \* state.work_dir of each shell
          work_dir_name,  \* state.work_dir_name: "~" and the folders below it
          job             \* what each shell is doing

shellVars == <<work_dir, work_dir_name, job>>
allVars   == <<vars, shellVars>>

Idle == [pc |-> "idle"]
Dirs == Names \cup {DotDot}
DirLists == UNION {[1 .. n -> Dirs] : n \in 0 .. MaxDirs}
Undecided == "undecided"

\* A disk on which the inserter tool has put one file.
InsertedDisk(name, v) ==
    FileAdded(FreshTable,
              [c \in Clusters |-> IF c = ROOT_CLUSTER_NUMBER
                                  THEN EmptyDirectory(ROOT_CLUSTER_NUMBER) ELSE Zeros],
              ROOT_CLUSTER_NUMBER, name, NoExt, [k \in {0} |-> Piece(v, k)])

ShellInit ==
    /\ \E name \in Names, v \in Values :
          /\ fat_table = InsertedDisk(name, v).fat
          /\ disk_fat = InsertedDisk(name, v).fat
          /\ storage = InsertedDisk(name, v).st
    /\ signature = TRUE
    /\ mounted = TRUE
    /\ retcode = 0
    /\ work_dir = [s \in Shells |-> ROOT_CLUSTER_NUMBER]
    /\ work_dir_name = [s \in Shells |-> <<Home>>]
    /\ job = [s \in Shells |-> Idle]

-----------------------------------------------------------------------------
(* copy_folder, on a disk [fat, st, fits] that the recursion hands on.  fits *)
(* becomes FALSE when the copy outgrows the disk, which ends the recursion:  *)
(* a folder copied below itself comes to that on every disk.                 *)

\* Mutant: the loop over the slots starts one too late.
SkipOneSlot == 3

FirstSlot == 2

\* write, whose return code copy_folder ignores.
WriteInto(fs, q, e, ext, data) ==
    IF WriteCheck(fs.fat, fs.st, q, e.name, ext) # 0 THEN fs
    ELSE IF Cardinality(FreeClusters(fs.fat)) < (IF e.folder THEN 1 ELSE e.size)
         THEN [fs EXCEPT !.fits = FALSE]
    ELSE LET new == IF e.folder THEN FolderAdded(fs.fat, fs.st, q, e.name, ext)
                                ELSE FileAdded(fs.fat, fs.st, q, e.name, ext, data)
         IN  [fat |-> new.fat, st |-> new.st, fits |-> TRUE]

RECURSIVE FolderCopied(_, _, _, _)

\* The disk once entry e is copied into directory q: a folder loses its
\* extension, and what is below it goes to the folder that get_cluster_number
\* answers.
EntryCopied(fs, e, q) ==
    IF e.folder
    THEN LET new == WriteInto(fs, q, e, NoExt, <<>>)
         IN  FolderCopied(new, e.cluster, get_cluster_number(new.fat, new.st, q, e.name), FirstSlot)
    ELSE WriteInto(fs, q, e, e.ext, Contents(fs.fat, fs.st, e))

\* The slots of c from s on, the table being read anew for each.
FolderCopied(fs, c, q, s) ==
    IF ~IsParent(fs.fat, c) \/ ~fs.fits \/ s \notin Slots THEN fs
    ELSE LET e == Table(fs.st, c)[s]
         IN  FolderCopied(IF e = NoEntry THEN fs ELSE EntryCopied(fs, e, q), c, q, s + 1)

copy_folder(c, q) ==
    /\ mounted
    /\ \/ ~IsParent(fat_table, c) /\ Refuse(-1)
       \/ /\ IsParent(fat_table, c)
          /\ LET new == FolderCopied([fat |-> fat_table, st |-> storage, fits |-> TRUE],
                                     c, q, FirstSlot)
             IN  new.fits /\ Save(new.fat, new.st, {})
          /\ retcode' = 0

-----------------------------------------------------------------------------
(* Paths. *)

\* The entry that the loops over slots from 1 find in cluster c.
Find(st, c, name, ext) ==
    IF name = DotDot
    THEN {Entry(DotDot, NoExt, TRUE, st[d].up, 0) : d \in {e \in {c} : st[e].kind = "dir"}}
    ELSE LET match == Matching(st, c, name, ext)
         IN  {Table(st, c)[s] : s \in {t \in match : IsFirst(match, t)}}

\* The clusters a folder of a path leads to: one, or none for an invalid path.
FolderAt(st, c, name) == {e.cluster : e \in {f \in Find(st, c, name, NoExt) : f.folder}}

\* The answer of get_curr_and_parent_cluster for the last name of a path:
\* code 0 for a file, 1 for a folder, 2 for neither.
Resolved(p, name, ext) ==
    LET hit == Find(storage, p, name, ext)
        e   == CHOOSE f \in hit : TRUE
    IN  [p |-> p, name |-> name, ext |-> ext,
         code    |-> IF hit = {} THEN 2 ELSE IF e.folder THEN 1 ELSE 0,
         cluster |-> IF hit = {} THEN 0 ELSE e.cluster]

Request(p, name, ext) == [p |-> p, name |-> name, ext |-> ext]
RequestOf(r) == Request(r.p, r.name, r.ext)

\* What the entry named by a request holds: for every path below it (<<>> for
\* itself) the contents of the file, or <<>> for a folder; {} when it is missing.
RECURSIVE Below(_, _, _)
Below(fat, st, e) ==
    IF ~e.folder THEN {<< <<>>, Contents(fat, st, e) >>}
    ELSE {<< <<>>, <<>> >>} \cup
         UNION {LET d == Table(st, e.cluster)[s]
                IN  {<< <<d.name, d.ext>> \o x[1], x[2] >> : x \in Below(fat, st, d)}
                   : s \in Used(st, e.cluster)}
Holds(fat, st, r) == UNION {Below(fat, st, e) : e \in Find(st, r.p, r.name, r.ext)}

-----------------------------------------------------------------------------
(* What the commands do once their paths are resolved. *)

\* The codes for which a command returns after its first, or second, path.
RefusedSource == [rm |-> {2}, rm_rec |-> {0, 2}, cat |-> {1, 2}, exec |-> {1, 2},
                  cp |-> {1, 2}, cp_rec |-> {0, 2}, mv |-> {2}]
RefusedDest(cmd, src) == IF cmd = "cp_rec" \/ (cmd = "mv" /\ src.code = 1) THEN {0} ELSE {}
OneArgument == {"rm", "rm_rec", "cat", "exec"}

Call(name, r) == [call |-> name, req |-> r]

rm(src)     == <<Call("delete", RequestOf(src))>>
rm_rec(src) == <<Call("delete_folder_rec", Request(src.p, src.name, NoExt))>>
cat(src)    == <<Call("read", RequestOf(src))>>

\* The program is asked for without the extension that was typed.
exec(src)   == <<Call("create_process", Request(src.p, src.name, NoExt))>>

\* The file that cp and mv write: of the source's name inside a folder, or else
\* the one named.
FileTarget(src, dst) ==
    IF dst.code = 1 THEN Request(dst.cluster, src.name, src.ext) ELSE RequestOf(dst)
CopyFile(src, dst) ==
    [call |-> "copy_file", req |-> RequestOf(src), to |-> FileTarget(src, dst)]

\* The calls that make folder to and copy the source's folder into it.  must:
\* the command gives up when get_cluster_number answers 0.
MakeAndCopy(src, to, must) ==
    <<Call("write", to), [call |-> "get_cluster_number", req |-> to, must |-> must],
      [call |-> "copy_folder", from |-> src.cluster]>>

\* The folder that cp -r makes: in an existing folder, under the source's name
\* without an extension.
FolderTarget(src, dst) ==
    IF dst.code = 1 THEN Request(dst.cluster, src.name, NoExt) ELSE RequestOf(dst)

cp(src, dst)     == <<CopyFile(src, dst)>>
cp_rec(src, dst) == MakeAndCopy(src, FolderTarget(src, dst), dst.code = 1)

\* Mutant: the source is deleted before it is copied.
DeletesFirst(src, dst) ==
    IF src.code = 0 THEN <<Call("delete", RequestOf(src)), CopyFile(src, dst)>>
    ELSE <<Call("delete_folder_rec", RequestOf(src))>> \o MakeAndCopy(src, RequestOf(dst), FALSE)

mv(src, dst) ==
    IF src.code = 0 THEN <<CopyFile(src, dst), Call("delete", RequestOf(src))>>
    ELSE (IF dst.code = 1 THEN <<Call("delete_folder_rec", RequestOf(dst))>> ELSE <<>>)
             \o MakeAndCopy(src, RequestOf(dst), FALSE)
             \o <<Call("delete_folder_rec", RequestOf(src))>>

Todo(cmd, src, dst) ==
    CASE cmd = "rm" -> rm(src)
      [] cmd = "rm_rec" -> rm_rec(src)
      [] cmd = "cat" -> cat(src)
      [] cmd = "exec" -> exec(src)
      [] cmd = "cp" -> cp(src, dst)
      [] cmd = "cp_rec" -> cp_rec(src, dst)
      [] cmd = "mv" -> mv(src, dst)

\* Where the result of the command is to be.
Target(cmd, src, dst) ==
    CASE cmd \in OneArgument -> RequestOf(src)
      [] cmd = "cp_rec" -> FolderTarget(src, dst)
      [] cmd = "mv" /\ src.code = 1 -> RequestOf(dst)
      [] OTHER -> FileTarget(src, dst)

\* Source and destination are apart: they are not one entry, the destination is
\* not below the source, and the source not below a folder that mv replaces.
Apart(cmd, src, dst) ==
    /\ Target(cmd, src, dst) # RequestOf(src)
    /\ src.code = 1 => Target(cmd, src, dst).p \notin Reach(fat_table, storage, src.cluster)
    /\ cmd = "mv" /\ src.code = 1 /\ dst.code = 1 =>
          src.p \notin Reach(fat_table, storage, dst.cluster)

\* The command with its paths resolved.  had and apart are its history: what
\* the source held, and whether source and destination are apart.
Running(cmd, src, dst) ==
    [pc |-> "run", cmd |-> cmd, src |-> RequestOf(src), dst |-> Target(cmd, src, dst),
     todo |-> Todo(cmd, src, dst), cluster |-> 0,
     had |-> Holds(fat_table, storage, src), apart |-> Apart(cmd, src, dst)]

-----------------------------------------------------------------------------
(* The steps of a shell. *)

Resolving(s, cmd, src, dirs) ==
    [pc |-> "resolve", cmd |-> cmd, src |-> src, at |-> work_dir[s], dirs |-> dirs]

Goes(s, j) == job' = [job EXCEPT ![s] = j] /\ UNCHANGED <<work_dir, work_dir_name>>

\* Every command has a return code of its own.
NewCode == retcode' = 0 /\ UNCHANGED <<fat_table, signature, disk_fat, storage, mounted>>

\* run_command, for the commands that begin with get_curr_and_parent_cluster.
\* Which of them it is, and the last name of the path, is chosen where the code
\* first depends on it.
run_command(s) ==
    /\ mounted
    /\ job[s] = Idle
    /\ \E dirs \in DirLists : Goes(s, Resolving(s, Undecided, Idle, dirs))
    /\ NewCode

\* One turn of the loop of get_curr_and_parent_cluster.
ReadFolder(s) ==
    /\ mounted
    /\ job[s].pc = "resolve"
    /\ job[s].dirs # <<>>
    /\ LET j    == job[s]
           next == FolderAt(storage, j.at, Head(j.dirs))
       IN  Goes(s, IF next = {} THEN Idle
                   ELSE [j EXCEPT !.at = CHOOSE c \in next : TRUE, !.dirs = Tail(@)])
    /\ UNCHANGED vars

\* Its end, and what the command does with the answer for its first path.
ReadSource(s, cmd, name, ext) ==
    /\ mounted
    /\ job[s].pc = "resolve"
    /\ job[s].dirs = <<>>
    /\ job[s].cmd = Undecided
    /\ LET src == Resolved(job[s].at, name, ext)
       IN  IF src.code \in RefusedSource[cmd] THEN Goes(s, Idle)
           ELSE IF cmd \in OneArgument THEN Goes(s, Running(cmd, src, src))
           ELSE \E dirs \in DirLists : Goes(s, Resolving(s, cmd, src, dirs))
    /\ UNCHANGED vars

\* The same for the second path of cp and mv.
ReadDest(s, name, ext) ==
    /\ mounted
    /\ job[s].pc = "resolve"
    /\ job[s].dirs = <<>>
    /\ job[s].cmd # Undecided
    /\ LET j   == job[s]
           dst == Resolved(j.at, name, ext)
       IN  Goes(s, IF dst.code \in RefusedDest(j.cmd, j.src) THEN Idle
                   ELSE Running(j.cmd, j.src, dst))
    /\ UNCHANGED vars

\* Mutant: the command goes on after a call that failed.
GoesOnAnyway(j, code) == IF Len(j.todo) > 1 THEN [j EXCEPT !.todo = Tail(@)] ELSE Idle

\* The command after a call that returned code.
AfterCall(j, code) ==
    IF code = 0 /\ Len(j.todo) > 1 THEN [j EXCEPT !.todo = Tail(@)] ELSE Idle

\* The working directories are still directories, unless they may be removed.
KeepsWorkDirs == StaleWorkDir \/ \A t \in Shells : storage'[work_dir[t]].kind = "dir"

\* The next call of a running command.
SystemCall(s) ==
    /\ job[s].pc = "run"
    /\ LET c == Head(job[s].todo)
       IN  \/ c.call = "write" /\ WriteRefused(c.req.p, c.req.name, c.req.ext)
           \/ c.call = "write" /\ WriteFolder(c.req.p, c.req.name, c.req.ext)
           \/ c.call = "delete" /\ delete(c.req.p, c.req.name, c.req.ext)
           \/ c.call = "delete_folder_rec" /\ delete_folder_rec(c.req.p, c.req.name, c.req.ext)
           \/ c.call = "copy_folder" /\ copy_folder(c.from, job[s].cluster)
           \/ c.call = "copy_file" /\ copy_file(c.req.p, c.req.name, c.req.ext,
                                                c.to.p, c.to.name, c.to.ext)
           \/ /\ c.call \in {"read", "create_process"}  \* what else the latter does: Kernel
              /\ mounted
              /\ retcode' = read(c.req.p, c.req.name, c.req.ext, 1)
              /\ UNCHANGED <<fat_table, signature, disk_fat, storage, mounted>>
    /\ KeepsWorkDirs
    /\ Goes(s, AfterCall(job[s], retcode'))

\* The call that asks for the cluster of the folder just made.
AskCluster(s) ==
    /\ mounted
    /\ job[s].pc = "run"
    /\ LET j == job[s]
           c == Head(j.todo)
           n == get_cluster_number(fat_table, storage, c.req.p, c.req.name)
       IN  /\ c.call = "get_cluster_number"
           /\ Goes(s, IF c.must /\ n = 0 THEN Idle
                      ELSE [j EXCEPT !.todo = Tail(@), !.cluster = n])
    /\ UNCHANGED vars

mkdir(s) ==
    /\ "mkdir" \in Commands
    /\ job[s] = Idle
    /\ \E name \in Names : WriteRefused(work_dir[s], name, NoExt)
                           \/ WriteFolder(work_dir[s], name, NoExt)
    /\ UNCHANGED shellVars

-----------------------------------------------------------------------------
(* cd. *)

move_back(path) == IF path = <<>> THEN <<>> ELSE Front(path)

\* Mutant: ".." in the root folder also shortens the path.
BackFromRoot(path, c, name) ==
    IF name = DotDot THEN move_back(path) ELSE Append(path, name)

\* The path once cd has gone from folder c to name.
NameAfter(path, c, name) ==
    IF name # DotDot THEN Append(path, name)
    ELSE IF c = ROOT_CLUSTER_NUMBER THEN path ELSE move_back(path)

StartCd(s) ==
    /\ "cd" \in Commands
    /\ mounted
    /\ job[s] = Idle
    /\ \E dirs \in DirLists \ {<<>>} :
          Goes(s, [pc |-> "cd", at |-> work_dir[s], dirs |-> dirs, name |-> work_dir_name[s]])
    /\ NewCode

\* Mutant: a name that is not found leads to cluster 0.
NotFoundIsZero(st, c, name) ==
    LET next == FolderAt(st, c, name) IN IF next = {} THEN {0} ELSE next

CdNext(st, c, name) == FolderAt(st, c, name)

\* One turn of cd's loop; the working directory changes after the last.
cd(s) ==
    /\ mounted
    /\ job[s].pc = "cd"
    /\ LET j    == job[s]
           next == CdNext(storage, j.at, Head(j.dirs))
           at   == CHOOSE c \in next : TRUE
           name == NameAfter(j.name, j.at, Head(j.dirs))
       IN  IF next = {} THEN Goes(s, Idle)
           ELSE IF Len(j.dirs) > 1
                THEN Goes(s, [j EXCEPT !.at = at, !.name = name, !.dirs = Tail(@)])
           ELSE /\ job' = [job EXCEPT ![s] = Idle]
                /\ work_dir' = [work_dir EXCEPT ![s] = at]
                /\ work_dir_name' = [work_dir_name EXCEPT ![s] = name]
    /\ UNCHANGED vars

-----------------------------------------------------------------------------

\* Power fails and comes back, in the middle of any command.
PowerOn ==
    /\ initialize_filesystem_fat32
    /\ work_dir' = [s \in Shells |-> ROOT_CLUSTER_NUMBER]
    /\ work_dir_name' = [s \in Shells |-> <<Home>>]
    /\ job' = [s \in Shells |-> Idle]

ShellNext ==
    \/ \E s \in Shells :
          \/ run_command(s) \/ ReadFolder(s)
          \/ \E name \in Names, ext \in Exts :
                ReadDest(s, name, ext)
                    \/ \E cmd \in Commands \cap DOMAIN RefusedSource : ReadSource(s, cmd, name, ext)
          \/ SystemCall(s) \/ AskCluster(s)
          \/ mkdir(s) \/ StartCd(s) \/ cd(s)
    \/ PowerOn

ShellSpec == ShellInit /\ [][ShellNext]_allVars

-----------------------------------------------------------------------------
(* Properties. *)

\* The clusters that a shell remembers are never the reserved ones: every one
\* came out of a directory entry of a folder.
ShellTypeOK ==
    /\ work_dir \in [Shells -> Clusters \ {0, 1}]
    /\ \A s \in Shells :
          /\ job[s].pc \in {"idle", "resolve", "run", "cd"}
          /\ job[s].pc \in {"resolve", "cd"} => job[s].at \in Clusters \ {0, 1}
          /\ job[s].pc = "run" => job[s].todo # <<>> /\ job[s].cluster \in Clusters \ {1}

\* The prompt tells the truth: the path it shows leads from the root to the
\* working directory, whatever cd went through and whatever was moved since.
PromptNamesWorkDir ==
    \A s \in Shells :
        /\ work_dir_name[s] # <<>>
        /\ FoldLeft(LAMBDA c, name : get_cluster_number(fat_table, storage, c, name),
                    ROOT_CLUSTER_NUMBER, Tail(work_dir_name[s])) = work_dir[s]

\* A step of the shell that makes one of these calls, with success.
Calls(s, names) ==
    /\ job[s].pc = "run"
    /\ Head(job[s].todo).call \in names
    /\ SystemCall(s)
    /\ retcode' = 0

\* README.md, "cp [-r] source dest: copy file/folder to destination": when the
\* copy of cp, cp -r or mv succeeds, the destination holds what the source held
\* when the command was given, folder by folder and piece by piece.
CopyArrives ==
    [][\A s \in Shells :
          Calls(s, {"copy_file", "copy_folder"}) /\ job[s].apart =>
              Holds(fat_table', storage', job[s].dst) = job[s].had]_allVars

\* What mv moves exists at every moment, in the source or in the destination,
\* however the calls of mv fail and wherever power is lost between them.
MoveNeverLoses ==
    [][\A s \in Shells :
          job[s].pc = "run" /\ job[s].cmd = "mv" /\ job[s].apart =>
              job[s].had \in {Holds(fat_table', storage', job[s].src),
                              Holds(fat_table', storage', job[s].dst)}]_allVars

\* README.md, "mv source dest: move file/folder to destination": when the last
\* call of mv has succeeded, the destination holds what the source held.
MoveReachesDestination ==
    [][\A s \in Shells :
          job[s].pc = "run" /\ job[s].cmd = "mv" /\ Len(job[s].todo) = 1
              /\ Calls(s, {"delete", "delete_folder_rec"}) =>
              Holds(fat_table', storage', job[s].dst) = job[s].had]_allVars

\* README.md, "rm [-r] target: delete folder/ file": a removal that succeeds
\* has removed its target.
RemovesItsTarget ==
    [][\A s \in Shells :
          job[s].pc = "run" /\ job[s].cmd \in {"rm", "rm_rec"}
              /\ Calls(s, {"delete", "delete_folder_rec"}) =>
              Holds(fat_table', storage', job[s].src) = {}]_allVars

\* fat32.h:222, "2 invalid parent cluster": a write never puts a directory entry
\* into a cluster that is not a directory.
InvalidParentRefused == \A c \in Clusters : storage[c] # Overwritten
=============================================================================
