------------------------------- MODULE Loader -------------------------------
(***************************************************************************)
(* How execute decides that a file is a program and brings it to           *)
(* PROGRAM_MEM.  The header is read into a local array of execute that is  *)
(* not initialized: the shell enters execute at the same depth of its      *)
(* kernel stack every time, so the array starts with what the stack has    *)
(* there, the header of the last command if nothing wrote over it.         *)
(***************************************************************************)
EXTENDS FileSystem

CONSTANTS HeaderSize,   \* BUF_SIZE: 40
          MagicSize,    \* 4 bytes are compared
          ElfBlocks     \* the blocks that begin with 0x7f, E, L, F

NOBODY == "nobody"
JUNK == <<-1, -1>>      \* a byte of no file

VARIABLES buf,          \* the array on the kernel stack of the shell
          image,        \* the bytes from PROGRAM_MEM on in the slot of its child
          running       \* the file the child was started from, or NOBODY

vars == <<buf, image, running>>

Init ==
    /\ buf = [i \in 1 .. HeaderSize |-> JUNK]
    /\ image = <<>>
    /\ running = NOBODY

(* A read copies over the front of what is there.                          *)
Over(got, old) == [i \in 1 .. (IF Len(got) > Len(old) THEN Len(got) ELSE Len(old)) |->
                    IF i <= Len(got) THEN got[i] ELSE old[i]]

(* What read_file_sys_helper leaves in buf; its result is not looked at.   *)
read_file_sys_helper(name) ==
    Over(read_data(read_dentry_by_name(name).inodeNum, 0, HeaderSize), buf)

IsElf(bytes) == \A i \in 1 .. MagicSize : \E b \in ElfBlocks : bytes[i] = <<b, i - 1>>

(* page_loader reads the whole file; a length of 0 is no error.            *)
page_loader(name) ==
    LET inode == read_dentry_by_name(name).inodeNum
    IN  Over(read_data(inode, 0, inodes[inode].length), image)

(* open_file found the name.                                               *)
execute(name) ==
    /\ running = NOBODY
    /\ buf' = read_file_sys_helper(name)
    /\ \/ /\ IsElf(buf')
          /\ image' = page_loader(name)
          /\ running' = name
       \/ /\ ~IsElf(buf')
          /\ UNCHANGED <<image, running>>

halt ==
    /\ running # NOBODY
    /\ running' = NOBODY
    /\ UNCHANGED <<buf, image>>

(* Other calls of the shell use the same part of the stack.                *)
scribble ==
    /\ running = NOBODY
    /\ buf' = [i \in 1 .. HeaderSize |-> JUNK]
    /\ UNCHANGED <<image, running>>

Next == halt \/ scribble \/ \E name \in Names : execute(name)

Spec == Init /\ [][Next]_vars

-----------------------------------------------------------------------------

(* Only a file that begins with the magic number is started as a program:  *)
(* the check in execute is for the file that was named.                    *)
OnlyExecutables ==
    running # NOBODY =>
        LET file == Content(read_dentry_by_name(running).inodeNum)
        IN  Len(file) >= MagicSize /\ IsElf(file)
=============================================================================
