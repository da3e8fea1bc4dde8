---------------------------- MODULE Descriptors ----------------------------
(***************************************************************************)
(* The file descriptors in the PCBs of all programs: open, close and read  *)
(* (systemcall.c), what execute and halt do to the descriptors, and        *)
(* read_file and read_directory (file_system.c).  Programs start and end   *)
(* as in TaskTable.  Failing calls change nothing and are left out, as are *)
(* descriptors 0 and 1, which only ever lead to the terminal.  A call is   *)
(* one step, but for read_directory: its statements share one position     *)
(* with the programs of all terminals, and a key may switch between them.  *)
(***************************************************************************)
EXTENDS FileSystem

CONSTANTS MaxTask, MaxTerm,
          NumFd,        \* NUM_FILE_DESCRIPTOR: 8
          NBytes,       \* the lengths that programs pass to read
          Residue       \* what a register may hold that a switch did not restore

ASSUME MaxTaskAssumption == MaxTask \in Nat \ {0}
ASSUME MaxTermAssumption == MaxTerm \in Nat \ {0}
ASSUME NumFdAssumption == NumFd \in Nat /\ NumFd > 2
ASSUME ReadLengthAssumption == NBytes \subseteq 1 .. Word - 1
ASSUME ResidueAssumption == Residue \subseteq 0 .. Word - 1

Fds == 2 .. NumFd - 1
Ops == {"NULL", "rtc", "directory", "file"}

VARIABLES parent, leaf, fg,     \* see TaskTable
          flags,                \* [Tasks -> [Fds -> {0, 1}]]
          sysops,               \* [Tasks -> [Fds -> Ops]]: sysops_ptr
          fileName,             \* [Tasks -> [Fds -> Names]]
          filePosition,         \* [Tasks -> [Fds -> Nat]]
          currentDirIndex,      \* the one position in the directory
          dirpc,                \* [Terms -> DirLabels]: where in read_directory
          loaded,               \* [Terms -> 0 .. Word - 1 or JUNK]: the register of ++
          seen,                 \* the bytes read through a descriptor since its open
          listed,               \* the names that programs were given since the last end
          cut                   \* has a switch cut a read_directory since that end?

Programs == INSTANCE TaskTable

tables == <<parent, leaf, fg>>
fdvars == <<flags, sysops, fileName, filePosition>>
dirvars == <<currentDirIndex, dirpc, loaded, listed, cut>>
vars == <<tables, fdvars, dirvars, seen>>

Tasks == 1 .. MaxTask
Terms == 0 .. MaxTerm - 1
me == leaf[fg]          \* the program whose page directory is loaded
AnyName == CHOOSE x \in Names : TRUE

DirLabels == {"user", "reset", "copy", "load", "store"}
JUNK == -1              \* int_ret_helper goes back without a popa

Init ==
    /\ Programs!Init
    /\ flags = [p \in Tasks |-> [i \in Fds |-> 0]]
    /\ sysops = [p \in Tasks |-> [i \in Fds |-> "NULL"]]
    /\ fileName = [p \in Tasks |-> [i \in Fds |-> AnyName]]
    /\ filePosition = [p \in Tasks |-> [i \in Fds |-> 0]]
    /\ currentDirIndex = 0 /\ listed = <<>> /\ cut = FALSE
    /\ dirpc = [t \in Terms |-> "user"]
    /\ loaded = [t \in Terms |-> 0]
    /\ seen = [p \in Tasks |-> [i \in Fds |-> <<>>]]

(* for (i = 2; i < 7; i++) newPCB->fd[i].flags = 0: the last one is kept.  *)
ClearFlags_caller(n) ==         \* mutant: currPCB for newPCB
    flags' = [flags EXCEPT ![IF me = 0 THEN n ELSE me] =
                [i \in Fds |-> IF i < NumFd - 1 THEN 0 ELSE @[i]]]
ClearFlags(n) ==
    flags' = [flags EXCEPT ![n] = [i \in Fds |-> IF i < NumFd - 1 THEN 0 ELSE @[i]]]

FirstFree(n) == parent[n] = -1 /\ \A m \in 1 .. n - 1 : parent[m] # -1

(* A key that leaves the terminal, whatever its program is doing.          *)
Leave == cut' = (cut \/ dirpc[fg] # "user")

start_shell(t, n) ==
    /\ FirstFree(n)
    /\ Programs!Open(t, n)
    /\ ClearFlags(n)
    /\ Leave
    /\ UNCHANGED <<sysops, fileName, filePosition, currentDirIndex, dirpc, loaded, listed, seen>>

(* The program on the screen is in no call: it may make one.               *)
Calling == me # 0 /\ dirpc[fg] = "user"

execute(n) ==
    /\ Calling
    /\ FirstFree(n)
    /\ Programs!Spawn(n)
    /\ ClearFlags(n)
    /\ UNCHANGED <<sysops, fileName, filePosition, dirvars, seen>>

(* What close(i) does to the open descriptors i in I of program p.         *)
Forget(p, I) == seen' = [seen EXCEPT ![p] = [i \in Fds |-> IF i \in I THEN <<>> ELSE @[i]]]
CloseAll_flagged(p, I) ==       \* mutant: the flag is not reset
    /\ Forget(p, I)
    /\ sysops' = [sysops EXCEPT ![p] = [i \in Fds |-> IF i \in I THEN "NULL" ELSE @[i]]]
    /\ filePosition' = [filePosition EXCEPT ![p] = [i \in Fds |-> IF i \in I THEN 0 ELSE @[i]]]
    /\ UNCHANGED flags
CloseAll(p, I) ==
    /\ Forget(p, I)
    /\ flags' = [flags EXCEPT ![p] = [i \in Fds |-> IF i \in I THEN 0 ELSE @[i]]]
    /\ sysops' = [sysops EXCEPT ![p] = [i \in Fds |-> IF i \in I THEN "NULL" ELSE @[i]]]
    /\ filePosition' = [filePosition EXCEPT ![p] = [i \in Fds |-> IF i \in I THEN 0 ELSE @[i]]]

OpenFds(p) == {i \in Fds : flags[p][i] = 1}

(* halt calls close(2) .. close(7) after set_programpage(parent), so that  *)
(* find_programid in close gives the parent: its descriptors are closed,   *)
(* those of the program that halts are not.                                *)
halt ==
    /\ Calling
    /\ Programs!Exit
    /\ CloseAll(parent[me], OpenFds(parent[me]))
    /\ UNCHANGED <<fileName, dirvars>>

terminal_switch(t) ==
    /\ t # fg /\ leaf[t] # 0
    /\ Programs!Show(t)
    /\ Leave
    /\ loaded' = [loaded EXCEPT ![t] = IF dirpc[t] = "store" THEN JUNK ELSE 0]
    /\ UNCHANGED <<fdvars, currentDirIndex, dirpc, listed, seen>>

OpsOf(type) == IF type = RTC THEN "rtc" ELSE IF type = DIRECTORY THEN "directory" ELSE "file"

(* The first free descriptor.                                              *)
Unused(i) == flags[me][i] = 0 /\ \A j \in 2 .. i - 1 : flags[me][j] = 1

(* The name is copied for regular files only.                              *)
open(name, i) ==
    /\ Calling
    /\ Unused(i)
    /\ flags' = [flags EXCEPT ![me][i] = 1]
    /\ sysops' = [sysops EXCEPT ![me][i] = OpsOf(read_dentry_by_name(name).fileType)]
    /\ fileName' = IF read_dentry_by_name(name).fileType = REGULAR
                     THEN [fileName EXCEPT ![me][i] = name] ELSE fileName
    /\ filePosition' = [filePosition EXCEPT ![me][i] = 0]
    /\ seen' = [seen EXCEPT ![me][i] = <<>>]
    /\ UNCHANGED <<tables, dirvars>>

close(i) ==
    /\ Calling
    /\ flags[me][i] = 1
    /\ CloseAll(me, {i})
    /\ UNCHANGED <<tables, fileName, dirvars>>

(* read through file_ops.  At the end of the file the position is set to   *)
(* the length.                                                             *)
NextPosition_back(inode, offset, got) == offset - Len(got)     \* mutant: wrong sign
NextPosition_behind(inode, offset, got) ==      \* mutant: one behind the end
    IF got = <<>> THEN inodes[inode].length + 1 ELSE Len(got) + offset
NextPosition(inode, offset, got) ==
    IF got = <<>> THEN inodes[inode].length ELSE Len(got) + offset

read_file(i, nbytes) ==
    /\ Calling
    /\ flags[me][i] = 1
    /\ sysops[me][i] = "file"
    /\ LET inode == read_dentry_by_name(fileName[me][i]).inodeNum
           offset == filePosition[me][i]
           got == read_data(inode, offset, nbytes)
       IN  /\ filePosition' = [filePosition EXCEPT ![me][i] = NextPosition(inode, offset, got)]
           /\ seen' = [seen EXCEPT ![me][i] = @ \o got]
    /\ UNCHANGED <<tables, flags, sysops, fileName, dirvars>>

(* read through directory_ops: one name per call, then 0 and a new pass.   *)
(* The test is unsigned, as numDirectory is.                               *)
DirEnd_early(index) == (index + 1) % Word >= numDirectory       \* mutant: >= for >
DirEnd(index) == (index + 1) % Word > numDirectory

GotoDir(l) == dirpc' = [dirpc EXCEPT ![fg] = l]

read_directory(i) ==
    /\ Calling
    /\ flags[me][i] = 1
    /\ sysops[me][i] = "directory"
    /\ GotoDir(IF DirEnd(currentDirIndex) THEN "reset" ELSE "copy")
    /\ UNCHANGED <<tables, fdvars, currentDirIndex, loaded, listed, cut, seen>>

(* currentDirIndex = 0; return 0.  A new pass begins, and unless another   *)
(* program is still in the old one, nothing has cut it yet.                *)
directory_reset ==
    /\ dirpc[fg] = "reset"
    /\ currentDirIndex' = 0
    /\ listed' = <<>>
    /\ cut' = (\E t \in Terms \ {fg} : dirpc[t] # "user")
    /\ GotoDir("user")
    /\ UNCHANGED <<tables, fdvars, loaded, seen>>

(* strcpy of the name at the position, which may have left the directory   *)
(* since the test: the entries behind it are empty.                        *)
NameAt(index) == IF index < numDirectory THEN dir_Entries[index + 1].fileName ELSE ""

directory_copy ==
    /\ dirpc[fg] = "copy"
    /\ listed' = Append(listed, NameAt(currentDirIndex))
    /\ GotoDir("load")
    /\ UNCHANGED <<tables, fdvars, currentDirIndex, loaded, cut, seen>>

(* currentDirIndex++, which the build makes a load and a store: the        *)
(* Makefile asks for no optimisation.                                      *)
directory_load ==
    /\ dirpc[fg] = "load"
    /\ loaded' = [loaded EXCEPT ![fg] = (currentDirIndex + 1) % Word]
    /\ GotoDir("store")
    /\ UNCHANGED <<tables, fdvars, currentDirIndex, listed, cut, seen>>

directory_store ==
    /\ dirpc[fg] = "store"
    /\ currentDirIndex' \in IF loaded[fg] = JUNK THEN Residue ELSE {loaded[fg]}
    /\ loaded' = [loaded EXCEPT ![fg] = 0]
    /\ GotoDir("user")
    /\ UNCHANGED <<tables, fdvars, listed, cut, seen>>

Next ==
    \/ \E t \in Terms, n \in Tasks : (leaf[0] # 0 \/ t = 0) /\ start_shell(t, n)
    \/ \E n \in Tasks : execute(n)
    \/ halt
    \/ \E t \in Terms : terminal_switch(t)
    \/ \E name \in Names, i \in Fds : open(name, i)
    \/ \E i \in Fds : close(i) \/ read_directory(i)
    \/ \E i \in Fds, nbytes \in NBytes : read_file(i, nbytes)
    \/ directory_reset \/ directory_copy \/ directory_load \/ directory_store

Spec == Init /\ [][Next]_vars

-----------------------------------------------------------------------------

InodeOf(p, i) == read_dentry_by_name(fileName[p][i]).inodeNum
IsOpen(p, i, ops) == flags[p][i] = 1 /\ sysops[p][i] = ops

TypeOK ==
    /\ Programs!TypeOK
    /\ flags \in [Tasks -> [Fds -> {0, 1}]]
    /\ sysops \in [Tasks -> [Fds -> Ops]]
    /\ fileName \in [Tasks -> [Fds -> Names]]
    /\ filePosition \in [Tasks -> [Fds -> Nat]]
    /\ currentDirIndex \in 0 .. Word - 1
    /\ dirpc \in [Terms -> DirLabels]
    /\ loaded \in [Terms -> {JUNK} \cup 0 .. Word - 1]
    /\ cut \in BOOLEAN

(* A descriptor whose flag is set has an operations table: read and write  *)
(* jump through sysops_ptr without a look at it.                           *)
NeverNull == \A p \in Tasks, i \in Fds : flags[p][i] = 1 => sysops[p][i] # "NULL"

(* The position of an open file is never behind its end, where the         *)
(* unsigned data_length - offset in read_data would wrap.                  *)
PositionInFile ==
    \A p \in Tasks, i \in Fds :
        IsOpen(p, i, "file") => filePosition[p][i] <= inodes[InodeOf(p, i)].length

(* Reading a file in pieces of any sizes gives its bytes in order, each    *)
(* once, across block boundaries and across switches between programs.     *)
ReadsInOrder ==
    \A p \in Tasks, i \in Fds :
        IsOpen(p, i, "file") =>
            seen[p][i] = SubSeq(Content(InodeOf(p, i)), 1, filePosition[p][i])

(* The one position in the directory serves all programs and no open sets  *)
(* it back; what holds is that from one end of the directory that a        *)
(* program is told to the next, the programs together get every name once, *)
(* however they share the reads, stop early, start others and switch, as   *)
(* long as no switch comes inside a read_directory.                        *)
PassCompleteUnlessCut ==
    [][listed' = <<>> /\ listed # <<>> /\ ~cut =>
            listed = [k \in DOMAIN dir_Entries |-> dir_Entries[k].fileName]]_vars

(* The descriptors of a program that waits for its child are left alone    *)
(* from the execute that starts the child until the child halts.           *)
SuspendedUntouched ==
    [][\A c \in Tasks : parent'[c] \in Tasks =>
            /\ flags'[parent'[c]] = flags[parent'[c]]
            /\ sysops'[parent'[c]] = sysops[parent'[c]]
            /\ filePosition'[parent'[c]] = filePosition[parent'[c]]]_vars

(* A program starts with descriptors 2 and up closed.                      *)
StartsClosed ==
    [][\A n \in Tasks : parent[n] = -1 /\ parent'[n] # -1 =>
            \A i \in Fds : flags'[n][i] = 0]_vars
=============================================================================
