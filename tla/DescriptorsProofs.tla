------------------------- MODULE DescriptorsProofs -------------------------
(***************************************************************************)
(* The file descriptors and read_data, for every image, block size, number *)
(* of programs, terminals and descriptors, and lengths passed to read.     *)
(***************************************************************************)
EXTENDS Descriptors, SequenceTheorems, WellFoundedInduction, TLAPS

-----------------------------------------------------------------------------
(* Division.                                                               *)

LEMMA DivMod ==
    ASSUME NEW B \in Nat \ {0}, NEW k \in Nat
    PROVE  /\ k \div B \in Nat /\ k % B \in 0 .. B - 1
           /\ k = B * (k \div B) + (k % B)
  OBVIOUS

LEMMA DivModUnique ==
    ASSUME NEW B \in Nat \ {0}, NEW q \in Nat, NEW r \in 0 .. B - 1
    PROVE  (B * q + r) \div B = q /\ (B * q + r) % B = r
  OBVIOUS

LEMMA DivModNext ==
    ASSUME NEW B \in Nat \ {0}, NEW k \in Nat
    PROVE  /\ (k + 1) \div B = IF k % B = B - 1 THEN (k \div B) + 1 ELSE k \div B
           /\ (k + 1) % B = IF k % B = B - 1 THEN 0 ELSE (k % B) + 1
  <1>. DEFINE q == k \div B  r == k % B
  <1>1. q \in Nat /\ r \in 0 .. B - 1 /\ k = B * q + r
    BY DivMod
  <1>. HIDE DEF q, r
  <1>2. CASE r = B - 1
    <2>. DEFINE q1 == q + 1  r1 == 0
    <2>1. q1 \in Nat /\ r1 \in 0 .. B - 1 /\ k + 1 = B * q1 + r1
      BY <1>1, <1>2
    <2>. HIDE DEF q1, r1
    <2>2. (k + 1) \div B = q1 /\ (k + 1) % B = r1
      BY <2>1, DivModUnique
    <2>. QED  BY <1>2, <2>2 DEF q, r, q1, r1
  <1>3. CASE r # B - 1
    <2>1. r + 1 \in 0 .. B - 1 /\ k + 1 = B * q + (r + 1)
      BY <1>1, <1>3
    <2>2. (k + 1) \div B = q /\ (k + 1) % B = r + 1
      BY <1>1, <2>1, DivModUnique
    <2>. QED  BY <1>3, <2>2 DEF q, r
  <1>. QED  BY <1>2, <1>3

-----------------------------------------------------------------------------
(* read_data.                                                              *)

(* A recursive function over 0 .. n: the first place where two solutions   *)
(* of the equation of DataPtr differ would be 0 or follow one where they   *)
(* do not.                                                                 *)
LEMMA DataPtrValue ==
    ASSUME NEW offset \in Nat, NEW n \in Nat
    PROVE  \A i \in 0 .. n :
               DataPtr(offset, n)[i] = [block |-> (offset + i) \div BlockSize,
                                        off |-> (offset + i) % BlockSize]
  <1>. DEFINE Step(p) ==
                  [i \in 0 .. n |->
                      IF i = 0 THEN [block |-> offset \div BlockSize, off |-> offset % BlockSize]
                      ELSE IF AtBlockEnd(p[i - 1].off)
                           THEN [block |-> p[i - 1].block + 1, off |-> 0]
                           ELSE [block |-> p[i - 1].block, off |-> p[i - 1].off + 1]]
              Value(i) == [block |-> (offset + i) \div BlockSize, off |-> (offset + i) % BlockSize]
              F == [i \in 0 .. n |-> Value(i)]
              ptr == DataPtr(offset, n)
  <1>1. ptr = CHOOSE p : p = Step(p)
    BY DEF DataPtr
  <1>2. Value(0) = [block |-> offset \div BlockSize, off |-> offset % BlockSize]
    OBVIOUS
  <1>3. ASSUME NEW i \in 0 .. n, i # 0
        PROVE  Value(i) = IF AtBlockEnd(Value(i - 1).off)
                            THEN [block |-> Value(i - 1).block + 1, off |-> 0]
                            ELSE [block |-> Value(i - 1).block, off |-> Value(i - 1).off + 1]
    <2>1. offset + (i - 1) \in Nat /\ offset + i = (offset + (i - 1)) + 1
      BY <1>3
    <2>. DEFINE k == offset + (i - 1)
    <2>2. k \in Nat /\ offset + i = k + 1
      BY <2>1
    <2>. HIDE DEF k
    <2>3. /\ (k + 1) \div BlockSize = IF k % BlockSize = BlockSize - 1
                                        THEN (k \div BlockSize) + 1 ELSE k \div BlockSize
          /\ (k + 1) % BlockSize = IF k % BlockSize = BlockSize - 1
                                     THEN 0 ELSE (k % BlockSize) + 1
      BY <2>2, DivModNext, BlockSizeAssumption
    <2>. QED  BY <2>2, <2>3 DEF AtBlockEnd, k
  <1>. HIDE DEF Value
  <1>4. F = Step(F)
    <2>1. \A i \in 0 .. n : F[i] = Step(F)[i]
      <3>. TAKE i \in 0 .. n
      <3>1. CASE i = 0
        BY <1>2, <3>1
      <3>2. CASE i # 0
        <4>1. i - 1 \in 0 .. n
          BY <3>2
        <4>. QED  BY <1>3, <3>2, <4>1
      <3>. QED  BY <3>1, <3>2
    <2>. QED  BY <2>1
  <1>5. ptr = Step(ptr)
    <2>. HIDE DEF ptr, F, Step
    <2>. QED  BY <1>1, <1>4
  <1>. HIDE DEF ptr
  <1>6. ptr[0] = Value(0) /\ \A i \in 0 .. n : i # 0 /\ ptr[i - 1] = Value(i - 1) => ptr[i] = Value(i)
    <2>1. ptr[0] = Value(0)
      BY <1>2, <1>5
    <2>2. ASSUME NEW i \in 0 .. n, i # 0, ptr[i - 1] = Value(i - 1) PROVE ptr[i] = Value(i)
      <3>1. ptr[i] = IF AtBlockEnd(ptr[i - 1].off)
                       THEN [block |-> ptr[i - 1].block + 1, off |-> 0]
                       ELSE [block |-> ptr[i - 1].block, off |-> ptr[i - 1].off + 1]
        BY <1>5, <2>2
      <3>. QED  BY <1>3, <2>2, <3>1
    <2>. QED  BY <2>1, <2>2
  <1>7. \A i \in 0 .. n : ptr[i] = Value(i)
    <2>. DEFINE Bad == {i \in 0 .. n : ptr[i] # Value(i)}
                Lt == OpToRel(<, Nat)
    <2>. SUFFICES ASSUME Bad # {} PROVE FALSE
      OBVIOUS
    <2>1. IsWellFoundedOn(Lt, Nat)
      BY NatLessThanWellFounded
    <2>2. Bad \subseteq Nat
      OBVIOUS
    <2>3. PICK i \in Bad : \A j \in Bad : <<j, i>> \notin Lt
      <3>. HIDE DEF Bad, Lt
      <3>. QED  BY <2>1, <2>2, WFMin
    <2>4. i # 0 /\ i - 1 \in 0 .. n /\ i - 1 \in Nat /\ i \in Nat /\ i - 1 < i
      BY <1>6
    <2>5. <<i - 1, i>> \in Lt
      BY <2>4 DEF OpToRel
    <2>6. ptr[i - 1] = Value(i - 1)
      BY <2>3, <2>4, <2>5
    <2>. QED  BY <1>6, <2>4, <2>6
  <1>. QED  BY <1>7 DEF ptr, Value

LEMMA ClipValue ==
    ASSUME NEW len \in 0 .. Word - 1, NEW offset \in 0 .. len, NEW nbytes \in Nat
    PROVE  Clip(len, offset, nbytes) = IF nbytes >= len - offset THEN len - offset ELSE nbytes
  <1>. DEFINE d == len - offset
  <1>1. d \in Nat /\ d < Word /\ Word \in Nat \ {0}
    BY WordAssumption
  <1>. HIDE DEF d
  <1>2. d % Word = d
    BY <1>1
  <1>. QED  BY <1>2 DEF Clip, d

LEMMA ContentSeq ==
    ASSUME NEW inode \in DOMAIN inodes
    PROVE  /\ inodes[inode].length \in 0 .. Word - 1
           /\ \E S : Content(inode) \in Seq(S)
           /\ Len(Content(inode)) = inodes[inode].length
  <1>. DEFINE len == inodes[inode].length
              Byte(k) == <<inodes[inode].dataBlock[(k - 1) \div BlockSize], (k - 1) % BlockSize>>
              S == {Byte(k) : k \in 1 .. len}
  <1>1. len \in 0 .. Word - 1 /\ len \in Nat
    BY WordAssumption
  <1>2. Content(inode) = [k \in 1 .. len |-> Byte(k)]
    BY DEF Content
  <1>3. \A k \in 1 .. len : Byte(k) \in S
    OBVIOUS
  <1>. HIDE DEF len, Byte, S
  <1>4. Content(inode) \in [1 .. len -> S]
    BY <1>2, <1>3
  <1>5. Content(inode) \in Seq(S)
    BY <1>1, <1>4, SeqDef
  <1>6. Len(Content(inode)) = len
    BY <1>1, <1>4, <1>5, LenProperties
  <1>. QED  BY <1>1, <1>5, <1>6 DEF len

(* read_data copies the next bytes of the file, as many as were asked for  *)
(* or are left, whatever block boundaries lie in between.                  *)
LEMMA ReadDataCorrect ==
    ASSUME NEW inode \in DOMAIN inodes, NEW offset \in 0 .. inodes[inode].length,
           NEW nbytes \in Nat \ {0}
    PROVE  LET left == inodes[inode].length - offset
               n == IF nbytes >= left THEN left ELSE nbytes
           IN  /\ read_data(inode, offset, nbytes) = SubSeq(Content(inode), offset + 1, offset + n)
               /\ Len(read_data(inode, offset, nbytes)) = n
               /\ NextPosition(inode, offset, read_data(inode, offset, nbytes)) = offset + n
  <1>. DEFINE len == inodes[inode].length
              n == IF nbytes >= len - offset THEN len - offset ELSE nbytes
              C == Content(inode)
              got == read_data(inode, offset, nbytes)
              Part == SubSeq(C, offset + 1, offset + n)
              Byte(k) == <<inodes[inode].dataBlock[(k - 1) \div BlockSize], (k - 1) % BlockSize>>
              B(i) == <<inodes[inode].dataBlock[DataPtr(offset, n)[i - 1].block],
                        DataPtr(offset, n)[i - 1].off>>
  <1>1. PICK S : C \in Seq(S)
    BY ContentSeq
  <1>2. len \in 0 .. Word - 1 /\ len \in Nat /\ Len(C) = len /\ C \in [1 .. len -> S]
    <2>1. len \in 0 .. Word - 1 /\ Len(C) = len
      BY ContentSeq
    <2>2. C \in [1 .. Len(C) -> S]
      BY <1>1, LenProperties
    <2>. QED  BY <2>1, <2>2, WordAssumption
  <1>3. n \in Nat /\ n <= len - offset /\ (n = 0 <=> offset = len) /\ offset \in Nat
    BY <1>2
  <1>4. Clip(len, offset, nbytes) = n
    BY <1>2, ClipValue
  <1>5. /\ Part \in Seq(S) /\ Len(Part) = n
        /\ \A i \in 1 .. n : Part[i] = C[offset + i]
    <2>. DEFINE lo == offset + 1  hi == offset + n
    <2>. HIDE DEF C, n, len
    <2>1. \A i \in lo .. hi : i \in 1 .. len
      BY <1>2, <1>3
    <2>2. lo \in Int /\ hi \in Int /\ hi - lo + 1 = n /\ (lo <= hi <=> n # 0)
          /\ \A i \in 1 .. n : lo + i - 1 = offset + i
      BY <1>3
    <2>. HIDE DEF lo, hi
    <2>3. \A i \in lo .. hi : C[i] \in S
      BY <1>2, <2>1
    <2>4. /\ SubSeq(C, lo, hi) \in Seq(S)
          /\ Len(SubSeq(C, lo, hi)) = IF lo <= hi THEN hi - lo + 1 ELSE 0
          /\ \A i \in 1 .. hi - lo + 1 : SubSeq(C, lo, hi)[i] = C[lo + i - 1]
      BY <2>2, <2>3, SubSeqProperties
    <2>5. SubSeq(C, lo, hi) = Part
      BY DEF lo, hi
    <2>. HIDE DEF Part
    <2>. QED  BY <1>3, <2>2, <2>4, <2>5
  <1>6. got = Part
    <2>1. CASE offset = len
      <3>1. got = <<>>
        BY <2>1 DEF read_data
      <3>2. Part = <<>>
        BY <1>3, <2>1, SubSeqEmpty
      <3>. QED  BY <3>1, <3>2
    <2>2. CASE offset # len
      <3>1. got = [i \in 1 .. n |-> B(i)]
        BY <1>4, <2>2 DEF read_data
      <3>2. \A i \in 1 .. n : B(i) = Byte(offset + i)
        <4>. TAKE i \in 1 .. n
        <4>1. i - 1 \in 0 .. n /\ offset + (i - 1) = offset + i - 1
          BY <1>3
        <4>2. DataPtr(offset, n)[i - 1] = [block |-> (offset + (i - 1)) \div BlockSize,
                                           off |-> (offset + (i - 1)) % BlockSize]
          <5>. HIDE DEF n
          <5>. QED  BY <1>3, <4>1, DataPtrValue
        <4>. QED  BY <4>1, <4>2
      <3>3. \A i \in 1 .. n : Byte(offset + i) = C[offset + i]
        <4>1. \A k \in 1 .. len : C[k] = Byte(k)
          BY DEF Content
        <4>2. \A i \in 1 .. n : offset + i \in 1 .. len
          BY <1>2, <1>3
        <4>. HIDE DEF n, len, Byte, C
        <4>. QED  BY <4>1, <4>2
      <3>. HIDE DEF n, B, Byte, C, got, Part
      <3>4. Part \in [1 .. n -> S]
        BY <1>5, LenProperties
      <3>. QED  BY <1>5, <3>1, <3>2, <3>3, <3>4
    <2>. QED  BY <2>1, <2>2
  <1>7. NextPosition(inode, offset, got) = offset + n
    <2>. HIDE DEF got, Part, n
    <2>1. got = <<>> <=> n = 0
      BY <1>3, <1>5, <1>6, EmptySeq
    <2>2. CASE n = 0
      <3>1. NextPosition(inode, offset, got) = len
        BY <2>1, <2>2 DEF NextPosition
      <3>. QED  BY <1>2, <1>3, <2>2, <3>1
    <2>3. CASE n # 0
      BY <1>3, <1>5, <1>6, <2>1, <2>3 DEF NextPosition
    <2>. QED  BY <2>2, <2>3
  <1>. QED  BY <1>5, <1>6, <1>7

-----------------------------------------------------------------------------
(* The directory.                                                          *)

LEMMA DirectorySeq ==
    /\ numDirectory \in Nat \ {0} /\ DOMAIN dir_Entries = 1 .. numDirectory
    /\ numDirectory < Word - 1 /\ Word \in Nat
  BY DirectoryAssumption, WordAssumption, LenProperties, EmptySeq DEF numDirectory

(* The dentry of a name is the first one that has it.                      *)
LEMMA DentryFound ==
    ASSUME NEW name \in Names
    PROVE  \E k \in DOMAIN dir_Entries : read_dentry_by_name(name) = dir_Entries[k]
  <1>. DEFINE K == {k \in 1 .. numDirectory : dir_Entries[k].fileName = name}
              Lt == OpToRel(<, Nat)
  <1>1. K # {} /\ K \subseteq Nat
    BY DirectorySeq DEF Names
  <1>2. IsWellFoundedOn(Lt, Nat)
    BY NatLessThanWellFounded
  <1>3. PICK k \in K : \A j \in K : <<j, k>> \notin Lt
    <2>. HIDE DEF K, Lt
    <2>. QED  BY <1>1, <1>2, WFMin
  <1>4. \A j \in 1 .. k - 1 : dir_Entries[j].fileName # name
    <2>. SUFFICES ASSUME NEW j \in 1 .. k - 1, dir_Entries[j].fileName = name PROVE FALSE
      OBVIOUS
    <2>1. j \in K /\ j \in Nat /\ k \in Nat /\ j < k
      BY <1>1, DirectorySeq
    <2>2. <<j, k>> \in Lt
      BY <2>1 DEF OpToRel
    <2>. QED  BY <1>3, <2>1, <2>2
  <1>5. k \in DOMAIN dir_Entries /\ dir_Entries[k].fileName = name
    BY DirectorySeq
  <1>. QED  BY <1>4, <1>5 DEF read_dentry_by_name

LEMMA InodeFound ==
    ASSUME NEW name \in Names
    PROVE  /\ read_dentry_by_name(name).fileType \in {RTC, DIRECTORY, REGULAR}
           /\ read_dentry_by_name(name).fileType = REGULAR
                => read_dentry_by_name(name).inodeNum \in DOMAIN inodes
  BY DentryFound, ImageAssumption

-----------------------------------------------------------------------------
(* The programs: see TaskTableProofs.                                      *)

PP == INSTANCE TaskTableProofs

LEMMA SamePrograms ==
    /\ Programs!Init <=> PP!Init
    /\ Programs!TypeOK <=> PP!TypeOK
    /\ (Programs!TypeOK)' <=> (PP!TypeOK)'
    /\ Programs!Forest <=> PP!Forest
    /\ (Programs!Forest)' <=> (PP!Forest)'
    /\ [Programs!Next]_tables <=> [PP!Next]_(PP!vars)
  <1>. USE DEF Programs!Live, PP!Live, Programs!Tasks, PP!Tasks, Programs!Terms, PP!Terms,
               Programs!FREE, PP!FREE, Programs!NOLEAF, PP!NOLEAF, Programs!ROOT, PP!ROOT
  <1>1. Programs!Init <=> PP!Init
    BY DEF Programs!Init, PP!Init
  <1>2. Programs!TypeOK <=> PP!TypeOK
    BY DEF Programs!TypeOK, PP!TypeOK
  <1>3. (Programs!TypeOK)' <=> (PP!TypeOK)'
    BY DEF Programs!TypeOK, PP!TypeOK
  <1>4. Programs!Forest <=> PP!Forest
    BY DEF Programs!Forest, PP!Forest, Programs!LeafIsLive, PP!LeafIsLive,
           Programs!LeafIsUnique, PP!LeafIsUnique, Programs!LeafHasNoChild, PP!LeafHasNoChild,
           Programs!ParentIsLive, PP!ParentIsLive, Programs!AtMostOneChild, PP!AtMostOneChild,
           Programs!EveryTaskContinues, PP!EveryTaskContinues
  <1>5. (Programs!Forest)' <=> (PP!Forest)'
    BY DEF Programs!Forest, PP!Forest, Programs!LeafIsLive, PP!LeafIsLive,
           Programs!LeafIsUnique, PP!LeafIsUnique, Programs!LeafHasNoChild, PP!LeafHasNoChild,
           Programs!ParentIsLive, PP!ParentIsLive, Programs!AtMostOneChild, PP!AtMostOneChild,
           Programs!EveryTaskContinues, PP!EveryTaskContinues
  <1>6. [Programs!Next]_tables <=> [PP!Next]_(PP!vars)
    BY DEF Programs!Next, PP!Next, tables, PP!vars, Programs!Open, PP!Open,
           Programs!Spawn, PP!Spawn, Programs!Exit, PP!Exit, Programs!Show, PP!Show,
           Programs!Vacant, PP!Vacant
  <1>. QED  BY <1>1, <1>2, <1>3, <1>4, <1>5, <1>6

(* The table of programs changes as in TaskTable.                          *)
LEMMA ProgramsStep == [Next]_vars => [Programs!Next]_tables
  <1>. SUFFICES ASSUME [Next]_vars PROVE [Programs!Next]_tables
    OBVIOUS
  <1>. USE DEF Tasks, Terms, Programs!Tasks, Programs!Terms
  <1>1. CASE \E t \in Terms, n \in Tasks : (leaf[0] # 0 \/ t = 0) /\ start_shell(t, n)
    BY <1>1 DEF start_shell, Programs!Next
  <1>2. CASE \E n \in Tasks : execute(n)
    BY <1>2 DEF execute, Programs!Next
  <1>3. CASE halt
    BY <1>3 DEF halt, Programs!Next
  <1>4. CASE \E t \in Terms : terminal_switch(t)
    BY <1>4 DEF terminal_switch, Programs!Next
  <1>5. CASE \E name \in Names, i \in Fds : open(name, i)
    BY <1>5 DEF open
  <1>6. CASE \E i \in Fds : close(i) \/ read_directory(i)
    BY <1>6 DEF close, read_directory
  <1>7. CASE \E i \in Fds, nbytes \in NBytes : read_file(i, nbytes)
    BY <1>7 DEF read_file
  <1>8. CASE directory_reset \/ directory_copy \/ directory_load \/ directory_store
    BY <1>8 DEF directory_reset, directory_copy, directory_load, directory_store
  <1>9. CASE UNCHANGED vars
    BY <1>9 DEF vars
  <1>. QED  BY <1>1, <1>2, <1>3, <1>4, <1>5, <1>6, <1>7, <1>8, <1>9 DEF Next

LEMMA ProgramsInductive ==
    /\ Programs!Init => Programs!TypeOK /\ Programs!Forest
    /\ Programs!TypeOK /\ Programs!Forest /\ [Next]_vars
         => (Programs!TypeOK)' /\ (Programs!Forest)'
  BY SamePrograms, ProgramsStep, PP!TypeInductive, PP!ForestInductive,
     MaxTaskAssumption, MaxTermAssumption

-----------------------------------------------------------------------------
(* The inductive invariant.                                                *)

(* An open descriptor has operations; one with the operations of a file    *)
(* names a regular file, which is not implied by anything that read_file   *)
(* looks at, stands inside it, and has read what lies before.              *)
DescriptorOK(p, i) ==
    /\ flags[p][i] = 1 => sysops[p][i] # "NULL"
    /\ IsOpen(p, i, "file") =>
           /\ read_dentry_by_name(fileName[p][i]).fileType = REGULAR
           /\ filePosition[p][i] <= inodes[InodeOf(p, i)].length
           /\ seen[p][i] = SubSeq(Content(InodeOf(p, i)), 1, filePosition[p][i])

Shapes ==
    /\ flags \in [Tasks -> [Fds -> {0, 1}]]
    /\ sysops \in [Tasks -> [Fds -> Ops]]
    /\ fileName \in [Tasks -> [Fds -> Names]]
    /\ filePosition \in [Tasks -> [Fds -> Nat]]
    /\ seen = [p \in Tasks |-> [i \in Fds |-> seen[p][i]]]

(* As long as no switch came inside a read_directory, only the program on  *)
(* the screen can be in one, the position is inside the directory and the  *)
(* names given since the last end are those up to it, the one that is just *)
(* being counted included.                                                 *)
Given == IF dirpc[fg] \in {"load", "store"} THEN currentDirIndex + 1 ELSE currentDirIndex

Uncut ==
    /\ \A t \in Terms \ {fg} : dirpc[t] = "user"
    /\ currentDirIndex <= numDirectory
    /\ listed = [k \in 1 .. Given |-> dir_Entries[k].fileName]
    /\ dirpc[fg] \in {"copy", "load", "store"} => currentDirIndex < numDirectory
    /\ dirpc[fg] = "reset" => currentDirIndex = numDirectory
    /\ dirpc[fg] = "store" => loaded[fg] = currentDirIndex + 1

DirectoryTypes ==
    /\ fg \in Terms
    /\ currentDirIndex \in 0 .. Word - 1
    /\ dirpc \in [Terms -> DirLabels]
    /\ loaded \in [Terms -> {JUNK} \cup 0 .. Word - 1]
    /\ cut \in BOOLEAN

DirectoryOK == DirectoryTypes /\ (cut \/ Uncut)

DInv ==
    /\ Programs!TypeOK /\ Programs!Forest
    /\ Shapes
    /\ DirectoryOK
    /\ \A p \in Tasks, i \in Fds : DescriptorOK(p, i)

LEMMA DInit == Init => DInv
  <1>. SUFFICES ASSUME Init PROVE DInv
    OBVIOUS
  <1>1. Programs!TypeOK /\ Programs!Forest
    BY ProgramsInductive DEF Init
  <1>2. AnyName \in Names
    BY DirectorySeq DEF AnyName, Names
  <1>3. Shapes
    BY <1>2 DEF Init, Shapes, Ops
  <1>4. DirectoryOK
    <2>1. fg \in Terms
      BY MaxTermAssumption DEF Init, Programs!Init, Terms
    <2>2. DirectoryTypes
      <3>1. currentDirIndex \in 0 .. Word - 1 /\ loaded \in [Terms -> {JUNK} \cup 0 .. Word - 1]
        BY DirectorySeq DEF Init
      <3>2. dirpc \in [Terms -> DirLabels] /\ cut \in BOOLEAN
        BY DEF Init, DirLabels
      <3>. QED  BY <2>1, <3>1, <3>2 DEF DirectoryTypes
    <2>3. Uncut
      BY <2>1, DirectorySeq DEF Init, Uncut, Given
    <2>. QED  BY <2>2, <2>3 DEF DirectoryOK
  <1>5. \A p \in Tasks, i \in Fds : DescriptorOK(p, i)
    BY DEF Init, DescriptorOK, IsOpen
  <1>. QED  BY <1>1, <1>3, <1>4, <1>5 DEF DInv

(* A step may close descriptors and leave the others alone.                *)
LEMMA DescriptorKept ==
    ASSUME DInv, NEW p \in Tasks, NEW i \in Fds,
           flags'[p][i] = 1 => /\ flags[p][i] = 1
                               /\ sysops'[p][i] = sysops[p][i]
                               /\ fileName'[p][i] = fileName[p][i]
                               /\ filePosition'[p][i] = filePosition[p][i]
                               /\ seen'[p][i] = seen[p][i]
    PROVE  DescriptorOK(p, i)'
  <1>1. DescriptorOK(p, i)
    BY DEF DInv
  <1>. QED  BY <1>1 DEF DescriptorOK, IsOpen, InodeOf

(* Nothing happens to the directory.                                       *)
LEMMA DirectoryKept ==
    ASSUME DInv, UNCHANGED <<fg, dirvars>> PROVE DirectoryOK'
  BY DEF DInv, DirectoryOK, DirectoryTypes, Uncut, Given, dirvars

(* A switch: the pass goes on, or is cut.                                  *)
LEMMA LeaveStep ==
    ASSUME DInv, NEW t \in Terms, fg' = t, Leave,
           loaded' \in [Terms -> {JUNK} \cup 0 .. Word - 1],
           UNCHANGED <<currentDirIndex, dirpc, listed>>
    PROVE  DirectoryOK'
  <1>1. DirectoryTypes'
    BY DEF DInv, DirectoryOK, DirectoryTypes, Leave
  <1>2. ASSUME ~cut' PROVE Uncut'
    <2>1. Uncut /\ \A u \in Terms : dirpc[u] = "user"
      BY <1>2 DEF DInv, DirectoryOK, Uncut, Leave
    <2>. QED  BY <2>1 DEF Uncut, Given, DInv, DirectoryOK, DirectoryTypes
  <1>. QED  BY <1>1, <1>2 DEF DirectoryOK

(* Starting a program clears flags and nothing else.                       *)
LEMMA StartStep ==
    ASSUME DInv, NEW n \in Tasks, ClearFlags(n),
           UNCHANGED <<sysops, fileName, filePosition, seen>>
    PROVE  Shapes' /\ \A p \in Tasks, i \in Fds : DescriptorOK(p, i)'
  <1>1. Shapes'
    BY DEF DInv, Shapes, ClearFlags
  <1>3. \A p \in Tasks, i \in Fds : flags'[p][i] = 1 => flags[p][i] = 1
    BY DEF DInv, Shapes, ClearFlags
  <1>. QED  BY <1>1, <1>3, DescriptorKept

(* close, for some descriptors of one program.                             *)
LEMMA CloseStep ==
    ASSUME DInv, NEW q \in Tasks, NEW I \in SUBSET Fds, CloseAll(q, I),
           UNCHANGED <<fileName, dirvars, fg>>
    PROVE  Shapes' /\ DirectoryOK' /\ \A p \in Tasks, i \in Fds : DescriptorOK(p, i)'
  <1>1. Shapes'
    <2>1. flags' \in [Tasks -> [Fds -> {0, 1}]]
      BY DEF DInv, Shapes, CloseAll
    <2>2. sysops' \in [Tasks -> [Fds -> Ops]]
      BY DEF DInv, Shapes, CloseAll, Ops
    <2>3. filePosition' \in [Tasks -> [Fds -> Nat]]
      BY DEF DInv, Shapes, CloseAll
    <2>4. seen' = [p \in Tasks |-> [i \in Fds |-> seen'[p][i]]]
      BY DEF DInv, Shapes, CloseAll, Forget
    <2>. QED  BY <2>1, <2>2, <2>3, <2>4 DEF DInv, Shapes
  <1>2. DirectoryOK'
    BY DirectoryKept
  <1>3. ASSUME NEW p \in Tasks, NEW i \in Fds, flags'[p][i] = 1
        PROVE  /\ flags[p][i] = 1
               /\ sysops'[p][i] = sysops[p][i]
               /\ fileName'[p][i] = fileName[p][i]
               /\ filePosition'[p][i] = filePosition[p][i]
               /\ seen'[p][i] = seen[p][i]
    BY <1>3 DEF DInv, Shapes, CloseAll, Forget
  <1>. QED  BY <1>1, <1>2, <1>3, DescriptorKept

LEMMA RunningProgram ==
    ASSUME DInv, me # 0 PROVE me \in Tasks
  BY DEF DInv, Programs!TypeOK, Programs!Tasks, Programs!Terms, Programs!NOLEAF, Tasks, me

LEMMA OpenStep ==
    ASSUME DInv, NEW name \in Names, NEW j \in Fds, open(name, j)
    PROVE  Shapes' /\ DirectoryOK' /\ \A p \in Tasks, i \in Fds : DescriptorOK(p, i)'
  <1>. DEFINE type == read_dentry_by_name(name).fileType
  <1>1. PICK q \in Tasks : q = me
    BY RunningProgram DEF open, Calling
  <1>2. type \in {RTC, DIRECTORY, REGULAR}
        /\ (type = REGULAR => read_dentry_by_name(name).inodeNum \in DOMAIN inodes)
    BY InodeFound
  <1>3. /\ flags' = [flags EXCEPT ![q][j] = 1]
        /\ sysops' = [sysops EXCEPT ![q][j] = OpsOf(type)]
        /\ fileName' = IF type = REGULAR THEN [fileName EXCEPT ![q][j] = name] ELSE fileName
        /\ filePosition' = [filePosition EXCEPT ![q][j] = 0]
        /\ seen' = [seen EXCEPT ![q][j] = <<>>]
        /\ UNCHANGED <<fg, dirvars>>
    BY <1>1 DEF open, tables
  <1>. HIDE DEF type
  <1>4. OpsOf(type) \in Ops \ {"NULL"} /\ (OpsOf(type) = "file" => type = REGULAR)
    BY <1>2 DEF OpsOf, Ops, RTC, DIRECTORY, REGULAR
  <1>5. Shapes'
    <2>1. flags' \in [Tasks -> [Fds -> {0, 1}]] /\ filePosition' \in [Tasks -> [Fds -> Nat]]
      BY <1>1, <1>3 DEF DInv, Shapes
    <2>2. sysops' \in [Tasks -> [Fds -> Ops]]
      BY <1>1, <1>3, <1>4 DEF DInv, Shapes
    <2>3. fileName' \in [Tasks -> [Fds -> Names]]
      BY <1>1, <1>3 DEF DInv, Shapes
    <2>4. seen' = [p \in Tasks |-> [i \in Fds |-> seen'[p][i]]]
      BY <1>1, <1>3 DEF DInv, Shapes
    <2>. QED  BY <2>1, <2>2, <2>3, <2>4 DEF Shapes
  <1>6. DirectoryOK'
    BY <1>3, DirectoryKept
  <1>7. DescriptorOK(q, j)'
    <2>1. /\ sysops'[q][j] = OpsOf(type) /\ filePosition'[q][j] = 0 /\ seen'[q][j] = <<>>
          /\ type = REGULAR => fileName'[q][j] = name
      BY <1>1, <1>3 DEF DInv, Shapes
    <2>2. ASSUME type = REGULAR
          PROVE  /\ read_dentry_by_name(fileName'[q][j]).fileType = REGULAR
                 /\ 0 <= inodes[read_dentry_by_name(fileName'[q][j]).inodeNum].length
                 /\ <<>> = SubSeq(Content(read_dentry_by_name(fileName'[q][j]).inodeNum), 1, 0)
      <3>1. fileName'[q][j] = name
        BY <2>1, <2>2
      <3>2. inodes[read_dentry_by_name(name).inodeNum].length \in Nat
        BY <1>2, <2>2, WordAssumption
      <3>. QED  BY <2>2, <3>1, <3>2, SubSeqEmpty DEF type
    <2>. QED  BY <1>4, <2>1, <2>2 DEF DescriptorOK, IsOpen, InodeOf
  <1>8. ASSUME NEW p \in Tasks, NEW i \in Fds, p # q \/ i # j
        PROVE  DescriptorOK(p, i)'
    <2>1. UNCHANGED <<flags[p][i], sysops[p][i], fileName[p][i], filePosition[p][i], seen[p][i]>>
      BY <1>1, <1>3, <1>8 DEF DInv, Shapes
    <2>. QED  BY <2>1, DescriptorKept
  <1>. QED  BY <1>1, <1>5, <1>6, <1>7, <1>8

LEMMA ReadFileStep ==
    ASSUME DInv, NEW j \in Fds, NEW nbytes \in NBytes, read_file(j, nbytes)
    PROVE  Shapes' /\ DirectoryOK' /\ \A p \in Tasks, i \in Fds : DescriptorOK(p, i)'
  <1>1. PICK q \in Tasks : q = me
    BY RunningProgram DEF read_file, Calling
  <1>. DEFINE inode == InodeOf(q, j)
              offset == filePosition[q][j]
              got == read_data(inode, offset, nbytes)
              C == Content(inode)
              len == inodes[inode].length
              n == IF nbytes >= len - offset THEN len - offset ELSE nbytes
  <1>2. IsOpen(q, j, "file") /\ nbytes \in Nat \ {0}
    BY <1>1, ReadLengthAssumption, WordAssumption DEF read_file, IsOpen
  <1>3. /\ inode \in DOMAIN inodes /\ offset \in Nat /\ offset <= len
        /\ seen[q][j] = SubSeq(C, 1, offset)
        /\ read_dentry_by_name(fileName[q][j]).fileType = REGULAR
    BY <1>1, <1>2, InodeFound DEF DInv, DescriptorOK, Shapes, InodeOf
  <1>4. /\ filePosition' = [filePosition EXCEPT ![q][j] = NextPosition(inode, offset, got)]
        /\ seen' = [seen EXCEPT ![q][j] = @ \o got]
        /\ UNCHANGED <<flags, sysops, fileName, fg, dirvars>>
    BY <1>1 DEF read_file, InodeOf, tables
  <1>. HIDE DEF inode, offset
  <1>5. len \in Nat /\ offset \in 0 .. len
    BY <1>3, WordAssumption
  <1>6. /\ got = SubSeq(C, offset + 1, offset + n)
        /\ NextPosition(inode, offset, got) = offset + n
    BY <1>2, <1>3, <1>5, ReadDataCorrect
  <1>7. n \in Nat /\ offset + n \in 0 .. len
    BY <1>2, <1>5
  <1>. HIDE DEF n, got
  <1>8. SubSeq(C, 1, offset) \o got = SubSeq(C, 1, offset + n)
    <2>1. PICK S : C \in Seq(S)
      BY <1>3, ContentSeq
    <2>2. Len(C) = len
      BY <1>3, ContentSeq
    <2>. DEFINE k == offset + n
    <2>3. k \in offset .. Len(C) /\ offset \in 1 - 1 .. Len(C) /\ 1 \in 1 .. Len(C) + 1
      BY <1>5, <1>7, <2>2
    <2>. HIDE DEF C, k
    <2>4. SubSeq(C, 1, offset) \o SubSeq(C, offset + 1, k) = SubSeq(C, 1, k)
      BY <2>1, <2>3, ConcatAdjacentSubSeq
    <2>. QED  BY <1>6, <2>4 DEF k
  <1>9. Shapes'
    <2>1. filePosition' \in [Tasks -> [Fds -> Nat]]
      BY <1>1, <1>4, <1>6, <1>7 DEF DInv, Shapes
    <2>2. seen' = [p \in Tasks |-> [i \in Fds |-> seen'[p][i]]]
      BY <1>1, <1>4 DEF DInv, Shapes
    <2>. QED  BY <1>4, <2>1, <2>2 DEF DInv, Shapes
  <1>10. DirectoryOK'
    BY <1>4, DirectoryKept
  <1>11. DescriptorOK(q, j)'
    <2>1. filePosition'[q][j] = offset + n /\ seen'[q][j] = SubSeq(C, 1, offset + n)
      <3>1. filePosition'[q][j] = offset + n
        BY <1>1, <1>4, <1>6 DEF DInv, Shapes
      <3>2. seen'[q][j] = seen[q][j] \o got
        BY <1>1, <1>4 DEF DInv, Shapes
      <3>. QED  BY <1>3, <1>8, <3>1, <3>2
    <2>2. InodeOf(q, j)' = inode /\ sysops'[q][j] = "file" /\ offset + n <= len
      BY <1>2, <1>4, <1>5, <1>7 DEF inode, InodeOf, IsOpen
    <2>. QED  BY <1>3, <1>4, <2>1, <2>2 DEF DescriptorOK, IsOpen, InodeOf
  <1>12. ASSUME NEW p \in Tasks, NEW i \in Fds, p # q \/ i # j
         PROVE  DescriptorOK(p, i)'
    <2>1. UNCHANGED <<flags[p][i], sysops[p][i], fileName[p][i], filePosition[p][i], seen[p][i]>>
      BY <1>1, <1>4, <1>12 DEF DInv, Shapes
    <2>. QED  BY <2>1, DescriptorKept
  <1>. QED  BY <1>1, <1>9, <1>10, <1>11, <1>12

(* The test of read_directory: the end, or one more name.                  *)
LEMMA ReadDirectoryStep ==
    ASSUME DInv, NEW j \in Fds, read_directory(j) PROVE DirectoryOK'
  <1>. DEFINE l == IF DirEnd(currentDirIndex) THEN "reset" ELSE "copy"
  <1>1. /\ fg \in Terms /\ dirpc[fg] = "user" /\ dirpc' = [dirpc EXCEPT ![fg] = l]
        /\ UNCHANGED <<fg, currentDirIndex, loaded, listed, cut>>
    BY DEF DInv, DirectoryOK, DirectoryTypes, read_directory, Calling, GotoDir, tables
  <1>2. DirectoryTypes'
    BY <1>1 DEF DInv, DirectoryOK, DirectoryTypes, DirLabels
  <1>3. ASSUME ~cut' PROVE Uncut'
    <2>1. Uncut
      BY <1>1, <1>3 DEF DInv, DirectoryOK
    <2>2. currentDirIndex \in 0 .. numDirectory
      BY <2>1, DirectorySeq DEF Uncut, DInv, DirectoryOK, DirectoryTypes
    <2>3. (currentDirIndex + 1) % Word = currentDirIndex + 1
      BY <2>2, DirectorySeq
    <2>4. DirEnd(currentDirIndex) <=> currentDirIndex = numDirectory
      BY <2>2, <2>3, DirectorySeq DEF DirEnd
    <2>5. /\ dirpc'[fg'] = l /\ (l = "reset" <=> currentDirIndex = numDirectory)
          /\ l \in {"reset", "copy"}
          /\ \A t \in Terms \ {fg} : dirpc'[t] = "user"
      BY <1>1, <2>1, <2>4 DEF Uncut, DInv, DirectoryOK, DirectoryTypes
    <2>. HIDE DEF l
    <2>. QED  BY <1>1, <2>1, <2>2, <2>5, DirectorySeq DEF Uncut, Given
  <1>. QED  BY <1>2, <1>3 DEF DirectoryOK

LEMMA ResetStep ==
    ASSUME DInv, directory_reset
    PROVE  /\ DirectoryOK'
           /\ ~cut => listed = [k \in DOMAIN dir_Entries |-> dir_Entries[k].fileName]
  <1>1. /\ fg \in Terms /\ dirpc' = [dirpc EXCEPT ![fg] = "user"]
        /\ currentDirIndex' = 0 /\ listed' = <<>> /\ UNCHANGED <<fg, loaded>>
        /\ cut' = (\E t \in Terms \ {fg} : dirpc[t] # "user")
    BY DEF DInv, DirectoryOK, DirectoryTypes, directory_reset, GotoDir, tables
  <1>2. DirectoryTypes'
    BY <1>1, DirectorySeq DEF DInv, DirectoryOK, DirectoryTypes, DirLabels
  <1>3. ASSUME ~cut' PROVE Uncut'
    <2>1. \A t \in Terms : dirpc'[t] = "user"
      BY <1>1, <1>3 DEF DInv, DirectoryOK, DirectoryTypes
    <2>. QED  BY <1>1, <2>1, DirectorySeq DEF Uncut, Given
  <1>4. ASSUME ~cut PROVE listed = [k \in DOMAIN dir_Entries |-> dir_Entries[k].fileName]
    BY <1>4, DirectorySeq DEF DInv, DirectoryOK, Uncut, Given, directory_reset
  <1>. QED  BY <1>2, <1>3, <1>4 DEF DirectoryOK

LEMMA CopyStep ==
    ASSUME DInv, directory_copy PROVE DirectoryOK' /\ (~cut => listed' # <<>>)
  <1>. DEFINE Name(k) == dir_Entries[k].fileName
              c == currentDirIndex
              S == {Name(k) : k \in 1 .. c + 1}
  <1>1. /\ fg \in Terms /\ dirpc[fg] = "copy" /\ dirpc' = [dirpc EXCEPT ![fg] = "load"]
        /\ listed' = Append(listed, NameAt(c))
        /\ UNCHANGED <<fg, currentDirIndex, loaded, cut>>
    BY DEF DInv, DirectoryOK, DirectoryTypes, directory_copy, GotoDir, tables
  <1>2. DirectoryTypes'
    BY <1>1 DEF DInv, DirectoryOK, DirectoryTypes, DirLabels
  <1>3. ASSUME ~cut PROVE Uncut' /\ listed' # <<>>
    <2>1. Uncut /\ c \in Nat /\ c < numDirectory
      BY <1>1, <1>3, DirectorySeq DEF DInv, DirectoryOK, DirectoryTypes, Uncut
    <2>2. listed = [k \in 1 .. c |-> Name(k)]
      BY <1>1, <2>1 DEF Uncut, Given
    <2>3. listed' = Append(listed, Name(c + 1))
      BY <1>1, <2>1 DEF NameAt
    <2>4. \A k \in 1 .. c : Name(k) \in S
      BY <2>1
    <2>5. Name(c + 1) \in S
      BY <2>1
    <2>. HIDE DEF S, Name
    <2>6. listed \in [1 .. c -> S]
      BY <2>2, <2>4
    <2>7. listed \in Seq(S) /\ Len(listed) = c
      <3>1. listed \in Seq(S)
        BY <2>1, <2>6, SeqDef
      <3>. QED  BY <2>1, <2>6, <3>1, LenProperties
    <2>8. /\ listed' \in Seq(S) /\ Len(listed') = c + 1
          /\ \A k \in 1 .. c : listed'[k] = listed[k]
          /\ listed'[c + 1] = Name(c + 1)
      BY <2>3, <2>5, <2>7, AppendProperties
    <2>9. listed' \in [1 .. c + 1 -> S]
      BY <2>8, LenProperties
    <2>10. \A k \in 1 .. c + 1 : listed'[k] = Name(k)
      BY <2>1, <2>2, <2>8
    <2>11. listed' = [k \in 1 .. c + 1 |-> Name(k)]
      BY <2>9, <2>10
    <2>12. listed' # <<>>
      BY <2>1, <2>8, EmptySeq
    <2>13. dirpc'[fg'] = "load" /\ \A t \in Terms \ {fg} : dirpc'[t] = "user"
      BY <1>1, <2>1 DEF Uncut, DInv, DirectoryOK, DirectoryTypes
    <2>14. Given' = c + 1
      BY <1>1, <2>13 DEF Given
    <2>15. Uncut'
      BY <1>1, <2>1, <2>11, <2>13, <2>14, DirectorySeq DEF Uncut, Name
    <2>. QED  BY <2>12, <2>15
  <1>. QED  BY <1>1, <1>2, <1>3 DEF DirectoryOK

(* The two halves of currentDirIndex++.                                    *)
LEMMA CountStep ==
    ASSUME DInv, directory_load \/ directory_store PROVE DirectoryOK'
  <1>. DEFINE c == currentDirIndex
  <1>1. fg \in Terms /\ c \in 0 .. Word - 1 /\ Word \in Nat \ {0}
    BY WordAssumption DEF DInv, DirectoryOK, DirectoryTypes
  <1>2. CASE directory_load
    <2>1. /\ dirpc[fg] = "load" /\ dirpc' = [dirpc EXCEPT ![fg] = "store"]
          /\ loaded' = [loaded EXCEPT ![fg] = (c + 1) % Word]
          /\ UNCHANGED <<fg, currentDirIndex, listed, cut>>
      BY <1>2 DEF directory_load, GotoDir, tables
    <2>2. (c + 1) % Word \in 0 .. Word - 1
      BY <1>1
    <2>3. DirectoryTypes'
      BY <1>1, <2>1, <2>2 DEF DInv, DirectoryOK, DirectoryTypes, DirLabels
    <2>4. ASSUME ~cut PROVE Uncut'
      <3>1. Uncut /\ c < numDirectory
        BY <2>1, <2>4 DEF DInv, DirectoryOK, Uncut
      <3>2. (c + 1) % Word = c + 1
        BY <1>1, <3>1, DirectorySeq
      <3>3. /\ dirpc'[fg'] = "store" /\ loaded'[fg'] = c + 1 /\ Given' = Given
            /\ \A t \in Terms \ {fg} : dirpc'[t] = "user"
        BY <1>1, <2>1, <3>1, <3>2 DEF Uncut, Given, DInv, DirectoryOK, DirectoryTypes
      <3>. QED  BY <2>1, <3>1, <3>3 DEF Uncut
    <2>. QED  BY <2>1, <2>3, <2>4 DEF DirectoryOK
  <1>3. CASE directory_store
    <2>1. /\ dirpc[fg] = "store" /\ dirpc' = [dirpc EXCEPT ![fg] = "user"]
          /\ loaded' = [loaded EXCEPT ![fg] = 0]
          /\ currentDirIndex' \in IF loaded[fg] = JUNK THEN Residue ELSE {loaded[fg]}
          /\ UNCHANGED <<fg, listed, cut>>
      BY <1>3 DEF directory_store, GotoDir, tables
    <2>2. currentDirIndex' \in 0 .. Word - 1
      BY <1>1, <2>1, ResidueAssumption DEF DInv, DirectoryOK, DirectoryTypes
    <2>3. DirectoryTypes'
      BY <1>1, <2>1, <2>2 DEF DInv, DirectoryOK, DirectoryTypes, DirLabels
    <2>4. ASSUME ~cut PROVE Uncut'
      <3>1. Uncut /\ c < numDirectory /\ loaded[fg] = c + 1
        BY <2>1, <2>4 DEF DInv, DirectoryOK, Uncut
      <3>2. currentDirIndex' = c + 1
        BY <1>1, <2>1, <3>1 DEF JUNK
      <3>3. /\ dirpc'[fg'] = "user" /\ Given' = Given
            /\ \A t \in Terms \ {fg} : dirpc'[t] = "user"
        BY <1>1, <2>1, <3>1, <3>2 DEF Uncut, Given, DInv, DirectoryOK, DirectoryTypes
      <3>. QED  BY <1>1, <2>1, <3>1, <3>2, <3>3, DirectorySeq DEF Uncut
    <2>. QED  BY <2>1, <2>3, <2>4 DEF DirectoryOK
  <1>. QED  BY <1>2, <1>3

LEMMA DStep == DInv /\ [Next]_vars => DInv'
  <1>. SUFFICES ASSUME DInv, [Next]_vars PROVE DInv'
    OBVIOUS
  <1>. DEFINE Goal == Shapes' /\ DirectoryOK' /\ \A p \in Tasks, i \in Fds : DescriptorOK(p, i)'
  <1>1. (Programs!TypeOK)' /\ (Programs!Forest)'
    BY ProgramsInductive DEF DInv
  <1>2. ASSUME NEW t \in Terms, NEW n \in Tasks, start_shell(t, n) PROVE Goal
    <2>1. DirectoryOK'
      <3>1. fg' = t /\ loaded' \in [Terms -> {JUNK} \cup 0 .. Word - 1]
        BY <1>2 DEF start_shell, Programs!Open, DInv, DirectoryOK, DirectoryTypes
      <3>. QED  BY <1>2, <3>1, LeaveStep DEF start_shell
    <2>. QED  BY <1>2, <2>1, StartStep DEF start_shell
  <1>3. ASSUME NEW n \in Tasks, execute(n) PROVE Goal
    <2>1. DirectoryOK'
      BY <1>3, DirectoryKept DEF execute, Programs!Spawn
    <2>. QED  BY <1>3, <2>1, StartStep DEF execute
  <1>4. ASSUME halt PROVE Goal
    <2>1. /\ parent[me] \in Tasks /\ OpenFds(parent[me]) \in SUBSET Fds
          /\ CloseAll(parent[me], OpenFds(parent[me])) /\ UNCHANGED <<fileName, dirvars, fg>>
      BY <1>4 DEF halt, Programs!Exit, Programs!Tasks, Tasks, me, OpenFds
    <2>. HIDE DEF Goal
    <2>2. Goal
      BY <2>1, CloseStep DEF Goal
    <2>. QED  BY <2>2
  <1>5. ASSUME NEW t \in Terms, terminal_switch(t) PROVE Goal
    <2>1. UNCHANGED <<flags, sysops, fileName, filePosition, seen>>
      BY <1>5 DEF terminal_switch, fdvars
    <2>2. Shapes'
      BY <2>1 DEF DInv, Shapes
    <2>3. DirectoryOK'
      <3>1. fg' = t /\ loaded' \in [Terms -> {JUNK} \cup 0 .. Word - 1]
        BY <1>5, DirectorySeq DEF terminal_switch, Programs!Show, DInv, DirectoryOK, DirectoryTypes
      <3>. QED  BY <1>5, <3>1, LeaveStep DEF terminal_switch
    <2>. QED  BY <2>1, <2>2, <2>3, DescriptorKept
  <1>6. ASSUME NEW name \in Names, NEW i \in Fds, open(name, i) PROVE Goal
    BY <1>6, OpenStep
  <1>7. ASSUME NEW i \in Fds, close(i) PROVE Goal
    <2>1. /\ me \in Tasks /\ {i} \in SUBSET Fds
          /\ CloseAll(me, {i}) /\ UNCHANGED <<fileName, dirvars, fg>>
      BY <1>7, RunningProgram DEF close, Calling, tables
    <2>. QED  BY <2>1, CloseStep
  <1>8. ASSUME UNCHANGED <<fdvars, seen>>, DirectoryOK' PROVE Goal
    <2>1. UNCHANGED <<flags, sysops, fileName, filePosition, seen>>
      BY <1>8 DEF fdvars
    <2>2. Shapes'
      BY <2>1 DEF DInv, Shapes
    <2>. QED  BY <1>8, <2>1, <2>2, DescriptorKept
  <1>9. ASSUME NEW i \in Fds, NEW nbytes \in NBytes, read_file(i, nbytes) PROVE Goal
    BY <1>9, ReadFileStep
  <1>10. ASSUME NEW i \in Fds, read_directory(i) PROVE Goal
    BY <1>8, <1>10, ReadDirectoryStep DEF read_directory
  <1>11. ASSUME directory_reset \/ directory_copy \/ directory_load \/ directory_store PROVE Goal
    BY <1>8, <1>11, ResetStep, CopyStep, CountStep
       DEF directory_reset, directory_copy, directory_load, directory_store
  <1>12. ASSUME UNCHANGED vars PROVE Goal
    BY <1>8, <1>12, DirectoryKept DEF vars, tables
  <1>. HIDE DEF Goal
  <1>13. Goal
    BY <1>2, <1>3, <1>4, <1>5, <1>6, <1>7, <1>9, <1>10, <1>11, <1>12 DEF Next
  <1>. QED  BY <1>1, <1>13 DEF DInv, Goal

-----------------------------------------------------------------------------

(* The PCBs keep their types, for every sequence of open, close, read,     *)
(* execute, halt and switches, those inside read_directory included: no    *)
(* position wraps below 0.                                                 *)
THEOREM DescriptorsTypeCorrect == Spec => []TypeOK
  <1>1. DInv => TypeOK
    BY DEF DInv, Shapes, DirectoryOK, DirectoryTypes, TypeOK
  <1>. QED  BY DInit, DStep, <1>1, PTL DEF Spec

(* An open descriptor always has operations to jump through, the one that  *)
(* execute forgets to clear included.                                      *)
THEOREM NeverNullCorrect == Spec => []NeverNull
  <1>1. DInv => NeverNull
    BY DEF DInv, DescriptorOK, NeverNull
  <1>. QED  BY DInit, DStep, <1>1, PTL DEF Spec

(* No descriptor ever stands behind the end of its file: data_length -     *)
(* offset in read_data does not wrap, for every image and every length     *)
(* passed to read.                                                         *)
THEOREM PositionInFileCorrect == Spec => []PositionInFile
  <1>1. DInv => PositionInFile
    BY DEF DInv, DescriptorOK, PositionInFile
  <1>. QED  BY DInit, DStep, <1>1, PTL DEF Spec

(* Reads in pieces of any sizes give the bytes of the file in order, each  *)
(* once, for every block size, file length and interleaving of programs.   *)
THEOREM ReadsInOrderCorrect == Spec => []ReadsInOrder
  <1>1. DInv => ReadsInOrder
    BY DEF DInv, DescriptorOK, ReadsInOrder
  <1>. QED  BY DInit, DStep, <1>1, PTL DEF Spec

(* From one end of the directory to the next the programs together get     *)
(* every name once, whoever reads and whatever they do in between, unless  *)
(* a switch cut one of the reads.                                          *)
THEOREM PassCompleteCorrect == Spec => PassCompleteUnlessCut
  <1>. DEFINE A == listed' = <<>> /\ listed # <<>> /\ ~cut =>
                     listed = [k \in DOMAIN dir_Entries |-> dir_Entries[k].fileName]
  <1>1. DInv /\ [Next]_vars => [A]_vars
    <2>. SUFFICES ASSUME DInv, Next PROVE A
      OBVIOUS
    <2>1. ASSUME directory_reset PROVE A
      BY <2>1, ResetStep
    <2>2. ASSUME directory_copy PROVE A
      BY <2>2, CopyStep
    <2>3. ~directory_reset /\ ~directory_copy => listed' = listed
      BY DEF Next, start_shell, execute, halt, terminal_switch, open, close, read_file,
             read_directory, directory_load, directory_store, dirvars
    <2>. QED  BY <2>1, <2>2, <2>3
  <1>. QED  BY DInit, DStep, <1>1, PTL DEF Spec, PassCompleteUnlessCut

(* A program that has a child: the child is not freed by this step, and    *)
(* the step touches the descriptors of one program only, which is the one  *)
(* that runs, the slot that is filled, or the parent whose child ends.     *)
LEMMA SuspendedStep ==
    ASSUME DInv, Next, NEW c \in Tasks, parent'[c] \in Tasks
    PROVE  /\ flags'[parent'[c]] = flags[parent'[c]]
           /\ sysops'[parent'[c]] = sysops[parent'[c]]
           /\ filePosition'[parent'[c]] = filePosition[parent'[c]]
  <1>. DEFINE Untouched(q) == /\ flags'[q] = flags[q]
                              /\ sysops'[q] = sysops[q]
                              /\ filePosition'[q] = filePosition[q]
  <1>. USE DEF Programs!Tasks, Programs!Terms, Programs!FREE, Programs!ROOT,
               Programs!NOLEAF, Programs!Live, Tasks, Terms
  <1>1. /\ parent \in [Tasks -> {-1, 0} \cup Tasks] /\ leaf \in [Terms -> {0} \cup Tasks]
        /\ fg \in Terms
    BY DEF DInv, Programs!TypeOK
  <1>2. PICK q \in Tasks : q = parent'[c]
    OBVIOUS
  <1>3. /\ \A n \in Tasks : parent[n] \in Tasks => parent[parent[n]] # -1
        /\ me # 0 => me \in Tasks /\ parent[me] # -1 /\ \A n \in Tasks : parent[n] # me
        /\ \A m, n \in Tasks : parent[m] = parent[n] /\ parent[m] \in Tasks => m = n
    BY <1>1 DEF DInv, Programs!Forest, Programs!ParentIsLive, Programs!LeafIsLive,
                Programs!LeafHasNoChild, Programs!AtMostOneChild, me
  <1>4. ASSUME NEW t \in Terms, NEW n \in Tasks, start_shell(t, n) PROVE Untouched(q)
    <2>1. q # n
      BY <1>1, <1>2, <1>3, <1>4 DEF start_shell, Programs!Open, Programs!Vacant
    <2>. QED  BY <1>4, <2>1 DEF start_shell, ClearFlags, DInv, Shapes
  <1>5. ASSUME NEW n \in Tasks, execute(n) PROVE Untouched(q)
    <2>1. q # n
      BY <1>1, <1>2, <1>3, <1>5 DEF execute, Programs!Spawn, Programs!Vacant, me
    <2>. QED  BY <1>5, <2>1 DEF execute, ClearFlags, DInv, Shapes
  <1>6. ASSUME halt PROVE Untouched(q)
    <2>1. PICK r \in Tasks : r = parent[me]
      BY <1>6 DEF halt, Programs!Exit, me
    <2>2. q # r
      BY <1>1, <1>2, <1>3, <1>6, <2>1 DEF halt, Programs!Exit, me
    <2>3. CloseAll(r, OpenFds(r))
      BY <1>6, <2>1 DEF halt
    <2>. QED  BY <2>2, <2>3 DEF CloseAll, DInv, Shapes
  <1>7. ASSUME UNCHANGED fdvars PROVE Untouched(q)
    BY <1>7 DEF fdvars
  <1>8. ASSUME me # 0, UNCHANGED tables PROVE q # me
    BY <1>2, <1>3, <1>8 DEF tables
  <1>9. ASSUME NEW name \in Names, NEW i \in Fds, open(name, i) PROVE Untouched(q)
    <2>1. q # me
      BY <1>8, <1>9 DEF open, Calling
    <2>. QED  BY <1>9, <2>1 DEF open, DInv, Shapes
  <1>10. ASSUME NEW i \in Fds, close(i) PROVE Untouched(q)
    <2>1. q # me
      BY <1>8, <1>10 DEF close, Calling
    <2>. QED  BY <1>10, <2>1 DEF close, CloseAll, DInv, Shapes
  <1>11. ASSUME NEW i \in Fds, NEW nbytes \in NBytes, read_file(i, nbytes) PROVE Untouched(q)
    <2>1. q # me
      BY <1>8, <1>11 DEF read_file, Calling
    <2>. QED  BY <1>11, <2>1 DEF read_file, DInv, Shapes
  <1>12. Untouched(q)
    <2>1. ASSUME NEW t \in Terms, terminal_switch(t) PROVE Untouched(q)
      BY <1>7, <2>1 DEF terminal_switch
    <2>2. ASSUME NEW i \in Fds, read_directory(i) PROVE Untouched(q)
      BY <1>7, <2>2 DEF read_directory
    <2>3. ASSUME directory_reset \/ directory_copy \/ directory_load \/ directory_store
          PROVE  Untouched(q)
      BY <1>7, <2>3 DEF directory_reset, directory_copy, directory_load, directory_store
    <2>. QED  BY <1>4, <1>5, <1>6, <1>9, <1>10, <1>11, <2>1, <2>2, <2>3 DEF Next
  <1>. QED  BY <1>2, <1>12

(* Whatever the other programs open, read and close, a program finds its   *)
(* descriptors after execute as it left them, but for the halt of its own  *)
(* child.                                                                  *)
THEOREM SuspendedUntouchedCorrect == Spec => SuspendedUntouched
  <1>. DEFINE A == \A c \in Tasks : parent'[c] \in Tasks =>
                       /\ flags'[parent'[c]] = flags[parent'[c]]
                       /\ sysops'[parent'[c]] = sysops[parent'[c]]
                       /\ filePosition'[parent'[c]] = filePosition[parent'[c]]
  <1>1. DInv /\ [Next]_vars => [A]_vars
    BY SuspendedStep
  <1>. QED  BY DInit, DStep, <1>1, PTL DEF Spec, SuspendedUntouched
=============================================================================
