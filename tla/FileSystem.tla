----------------------------- MODULE FileSystem -----------------------------
(***************************************************************************)
(* The read-only file system image and the functions of file_system.c that *)
(* look names up and read data.  A byte of the image is named by the block *)
(* it is in and its offset there, which is all that reading can get wrong. *)
(* A name stands for the first 31 characters, which is what strncmp looks  *)
(* at.  The image is well formed, as createfs builds it: every dentry has  *)
(* a name, one of the three file types and an inode in range.              *)
(***************************************************************************)
EXTENDS Integers, Sequences

CONSTANTS BlockSize,    \* FOUR_KILOBYTES
          Word,         \* 2^32: uint32_t arithmetic wraps at it
          dir_Entries,  \* the sequence of dentries: [fileName, fileType, inodeNum]
          inodes        \* [inodeNum -> [length, dataBlock]], dataBlock from 0

RTC == 0
DIRECTORY == 1
REGULAR == 2

ASSUME BlockSizeAssumption == BlockSize \in Nat \ {0}
ASSUME WordAssumption ==
    Word \in Nat \ {0} /\ \A i \in DOMAIN inodes : inodes[i].length \in 0 .. Word - 1
ASSUME DirectoryAssumption ==
    /\ dir_Entries # <<>> /\ dir_Entries \in Seq({dir_Entries[k] : k \in DOMAIN dir_Entries})
    /\ Len(dir_Entries) < Word - 1      \* a block holds 63 of them
ASSUME ImageAssumption ==
    \A k \in DOMAIN dir_Entries :
        /\ dir_Entries[k].fileType \in {RTC, DIRECTORY, REGULAR}
        /\ dir_Entries[k].fileType = REGULAR => dir_Entries[k].inodeNum \in DOMAIN inodes

numDirectory == Len(dir_Entries)

Names == {dir_Entries[k].fileName : k \in DOMAIN dir_Entries}

(* The first dentry with the name; the callers check that there is one.    *)
read_dentry_by_name(fname) ==
    dir_Entries[CHOOSE k \in DOMAIN dir_Entries :
                    /\ dir_Entries[k].fileName = fname
                    /\ \A j \in 1 .. k - 1 : dir_Entries[j].fileName # fname]

(* The last byte of a block.                                               *)
AtBlockEnd_late(off) == off = BlockSize     \* mutant: data_end one too far
AtBlockEnd(off) == off = BlockSize - 1

(* blockNUM and the offset of data_ptr in its block, before byte i of a    *)
(* read that starts at offset is copied.                                   *)
DataPtr(offset, n) ==
    LET ptr[i \in 0 .. n] ==
            IF i = 0 THEN [block |-> offset \div BlockSize, off |-> offset % BlockSize]
            ELSE IF AtBlockEnd(ptr[i - 1].off)
                 THEN [block |-> ptr[i - 1].block + 1, off |-> 0]
                 ELSE [block |-> ptr[i - 1].block, off |-> ptr[i - 1].off + 1]
    IN  ptr

(* How many of length bytes are read: the comparison and the difference    *)
(* are unsigned.                                                           *)
Clip(data_length, offset, length) ==
    LET rest == (data_length - offset) % Word
    IN  IF length >= rest THEN rest ELSE length

(* The bytes that read_data copies; their number is what it returns.  A    *)
(* read at the end returns 0 before anything else is checked.  The -1 for  *)
(* a null buffer, no length or an inode out of range is left out: such a   *)
(* call copies nothing, and its callers change nothing.                    *)
read_data(inode, offset, length) ==
    LET ip == inodes[inode]
        n == Clip(ip.length, offset, length)
        ptr == DataPtr(offset, n)
    IN  IF offset = ip.length THEN <<>>
        ELSE [i \in 1 .. n |-> <<ip.dataBlock[ptr[i - 1].block], ptr[i - 1].off>>]

(* What a file consists of, by the layout of the image: the reference.     *)
Content(inode) ==
    [k \in 1 .. inodes[inode].length |->
        <<inodes[inode].dataBlock[(k - 1) \div BlockSize], (k - 1) % BlockSize>>]
=============================================================================
