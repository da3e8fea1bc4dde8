# A TLA+ verification project for the 391_mp3 kernel

The program is a small x86 teaching kernel (`src/student-distrib`): three
terminals, up to six programs, a read-only file system, an RTC driver and eight
system calls. It has one processor and no locks. What makes it hard is that
**system calls run with interrupts on** (the 0x80 gate is a trap gate) and that
the keyboard interrupt does real work: Alt-Fn saves one terminal, restores
another one and continues there, in the middle of whatever `execute`, `halt`,
`read` or `write` was doing.

File names without a directory are in `src/student-distrib`.

## 1. Inventory

| Component | State | Operations | Interacts with |
|---|---|---|---|
| Process life cycle (`systemcall.c`, `pcb.h`) | `openTasks[]`, PCBs (esp, ebp, descriptors), `tss.esp0`, cr3, `curr_status`, `newterminal_flag` | `execute`, `halt`, `set_programpage`, `page_loader`, `find_programid` | terminals (`program_id`), run queue, paging, file system |
| Terminals (`terminal.c`) | `terminals[3]` (program_id, cr3, esp, ebp, x, y, line_buffer, buffer_i, active), `old_terminal`, screen buffers | `terminal_init`, `save_terminal`, `terminal_switch`, `find_terminal` | calls `execute` for a terminal that is opened; runs inside irq 1 |
| Keyboard line editor (`terminal.c`) | `line_buffer`, `buffer_i`, modifiers, the cursor | `terminal_key_pressed`, `terminal_read`, `keyboard_read`, `terminal_write` | irq 1 writes what a system call reads |
| Screen and library (`lib.c`) | `screen_x`, `screen_y`, video memory | `putc`, `printf`, `set_cursor`, `move_back`, `clear`, `pressed_enter`, string functions | everything that prints |
| System call gate (`idt_linkage.S`) | `returnValue`, `esp_0`, `ebp_0` | `syscall_wrapper`, `irq*_wrapper`, `int_ret_helper` | every system call |
| Run queue (`scheduler.c`) | `tasks[]`, `current_task_idx` | `add_task_to_queue`, `remove_task_from_queue`, `switch_task` | `execute`, `halt`, `terminal_switch` |
| Paging (`paging.c`) | six page directories and tables, the TLB | `paging_initialize`, `video_mapping`, `non_video_mapping`, loads of cr3 | terminals, `execute`, `halt` |
| RTC driver (`rtc.c`) | `rtc_interrupt_flag`, registers A and B of the chip | `rtc_open`, `rtc_read`, `rtc_write`, `rtc_interrupt` | irq 8 and all programs share the flag |
| File system (`file_system.c`) | the image (read-only), `currentDirIndex` | `read_dentry_by_name`, `read_data`, `read_file`, `read_directory` | descriptors, `execute` |
| Descriptors (`systemcall.c`) | `fd[8]` in each PCB | `open`, `close`, `read`, `write` | `execute` and `halt` reset them |
| Exceptions, IDT (`idt.c`) | the IDT | 20 handlers that print and spin | stop the machine |
| Interrupt controllers (`i8259.c`) | masks, requests and in-service bits of both chips | `i8259_init`, `enable_irq`, `send_eoi`, `irq_handler`, `irq1`, `irq8` | deliver keys and ticks; `terminal_switch` leaves their handler without returning |
| Boot (`kernel.c`, `boot.S`, `x86_desc.*`) | descriptor tables | `entry` | starts the first shell |
| `getargs`, `vidmap` (`systemcall.c`) | `saved_argument` | two system calls | `execute` stores the argument; paging |
| User programs (`src/syscalls`) | their own buffers | the command loop of the shell, the search of grep, loops around one call in the others | system calls only |
| Fish (`src/fish`) | the list of blinking structs, the array they come from | `mp1_ioctl_add`, `_remove`, `_sync`, `mp1_rtc_tasklet`, `add_frames` | the RTC and the video page |
| User test and emulation (`ece391syserr.c`, `ece391emulate.c`) | - | - | not a part of the kernel |

What makes each one correct:

- **processes**: no slot has two owners; every program either runs on one
  terminal or waits for one live child; `halt` gets back into the `execute` of
  its parent; the status that `execute` returns is its own child's;
- **terminals**: a program finds its own terminal, its own kernel stack and its
  own screen after any number of switches;
- **line editor**: the buffer never overflows, a read returns the line its user
  edited, no read waits for a line that was ended, the cursor stays on screen;
- **RTC**: a read waits for the next tick, and each waiter gets out;
- **interrupts**: every way out of a handler acknowledges what it served and
  nothing else, so that no key and no tick is lost and no line goes silent;
- **screens**: each terminal shows what was drawn on it last, and a program in
  the background never reaches the screen;
- **library and programs**: the memory functions do what their C counterparts
  promise at every alignment, numbers print as numbers, a command line is split
  into name and argument, grep finds each line once, fish keeps its cells in
  phase;
- **files**: reads in pieces give the bytes in order, positions stay in the
  file, a program starts with its descriptors closed.

The hard behaviours are listed, each at its line, under `hazards` in
`PROJECT.json`: half-updated tables seen by a switch, globals shared by all
terminals (`curr_status`, `returnValue`, `rtc_interrupt_flag`,
`currentDirIndex`), the single esp/ebp pair per PCB, the kernel stack that is
freed while `halt` stands on it, full buffers, unsigned arithmetic at the end of
a file, the rows below the last one of the screen, EOIs on paths that do not
return, page tables changed under a live TLB entry, the direction flag that one
function leaves for the next, and arrays that are read before they are written.

## 2. Modules

| Module | Models | Proofs | Runs |
|---|---|---|---|
| `TaskTable` | what `execute`, `halt` and `terminal_switch` promise about `openTasks`, each as one step (the abstract specification) | `TaskTableProofs` | `screen`, and as a property of `kernel` |
| `Kernel` | the same, statement by statement, with the terminals, PCB frames, kernel stacks, video mappings, run queue and the system call return path | `KernelProofs` | `kernel`, `claim_race`, `register_lost` |
| `Screen` | video memory, the screen buffers, page tables and the TLB around the steps of `TaskTable` | `ScreenProofs` | `screen` |
| `Rtc` | the RTC driver and the chip's rate | `InterruptsProofs` | `interrupts`, `rtc_stale_tick` |
| `Interrupts` | both 8259s, the handlers and their EOIs around `Rtc` | `InterruptsProofs` | `interrupts` |
| `LineEditor` | keyboard handler, `terminal_read`, `terminal_write`, the cursor | `LineEditorProofs` | `line_editor`, `screen_bottom` |
| `FileSystem` | lookup and `read_data` as operators, with a reference definition of a file's contents | `DescriptorsProofs` | through `Descriptors` and `Loader` |
| `Descriptors` | open, close, read, the directory position and what `execute` and `halt` do to descriptors | `DescriptorsProofs` | `descriptors`, `fd_leak` |
| `Loader` | the check for an executable and `page_loader` | - | `stale_header` |
| `Lib` | the memory and string functions, `itoa`, the number conversions of `printf`, `pressed_enter` | `LibProofs` | `library` |
| `Text` | the parsing in the shell and in `execute`, `getargs`, the search of grep, `add_frames` of fish | `ProgramProofs` | `library` |
| `Fish` | the blink list | `ProgramProofs` | `library` |

How they are composed:

- `Kernel` implements `TaskTable` up to the first switch that finds the tables
  half-updated: `Table == INSTANCE TaskTable WITH parent <- openTasks, leaf <-
  LeafOf, fg <- old_terminal`, and `TableSpec`, which is `Table!Spec` for all
  steps before `torn` becomes true, is checked as a property and proved
  (`KernelImplementsTable`).
- `Screen` EXTENDS `TaskTable` and conjoins each of its steps with what the code
  does to the screens; that it implements `TaskTable` is proved
  (`ScreenImplements`). `Descriptors` takes its programs' starts and ends from
  `TaskTable` too. Both are justified by the refinement of `Kernel`, and hence
  for behaviours without such a switch inside `execute` or `halt`; the switches
  inside their own windows, the page tables and `read_directory`, they have.
- `Interrupts` EXTENDS `Rtc`: what `Rtc` takes for granted, that ticks and
  switches arrive, goes through the controllers there; that it implements `Rtc`
  is proved (`InterruptsImplementRtc`).
- `Descriptors` and `Loader` use `FileSystem`.
- The `MC*` modules give the constants of the runs. `MCLibrary` puts `Lib`,
  `Text` and `Fish`, which share nothing, into one run, one of them active at a
  time.

### Kernel

One thread of control exists per opened terminal, and `pc[t]` is the statement
it is at: `scan`, `claim`, `queue`, `bind`, `save`, `page`, `enter` in
`execute`; `hqueue`, `hbind`, `hpage`, `hfree`, `hclose` in `halt`; `ret`,
`sysret`, `sysload` on the way back. `cur` and `new` are the locals
(`cur_programid`, `new_programid` or `parent_programid`). Only the thread of
`old_terminal` runs, because irq 0 is never enabled (`kernel.c` 194). A terminal
switch is one step (interrupts are off in the handler) and may come at every
label, since int 0x80 is a trap gate (`idt.c` 226-227).

Six labels see half-updated tables (`HalfUpdated`): `claim`, where a slot was
found but not taken; `save` and `page`, where `program_id` is ahead of the page
directory; `hpage` and `hfree`, where they are the other way round or the slot
is not free yet; `hclose`, where the slot is free but its stack in use. No step
leaves them out. Two history variables, which no guard reads, say what switches
have done: `torn`, that one landed at such a label, and `clobbered`, the threads
whose result was overwritten by a `halt` or a call on another terminal or was in
eax when the switch came. The properties of the passing run are stated up to a
tear, or for the threads that are not clobbered. Without these words they fail:
`PidUnique` in `claim_race`, `StatusDelivered` in `register_lost`, and section 3
lists what happens to the others.

`frame[p]` says who wrote the esp and ebp in the PCB of `p` last: the `execute`
that waits for a child, or a nested `execute` inside an interrupt. `halt` that
loads anything but the former makes the machine `lost`. A thread whose kernel
stack is given to a new program becomes `trashed`, and the machine is `lost` when
that thread is shown again. Exceptions and `execute` without a free slot inside
the interrupt make it `frozen`. A lost or frozen machine has no next step, and a
terminal that is in `while (1)` need not be left: the runs of `Kernel` and
`LineEditor` therefore do not check deadlock.

`eax` is followed from the end of the C function to the user program.
`expected[t]` is the result the call of `t` computed, a history variable.

### Screen

A picture is one value. `mem` holds the picture in video memory and in the
buffer of each terminal, `vmap[p]` the frame that the video page of program `p`
leads to, and `tlb` the frame the TLB has for that page. `terminal_switch` is
one step made of the parts of the code in their order: `Saved` (the memcpy in
`save_terminal`), `non_video_mapping`, `Wiped` (`clear`), then either the first
shell of the terminal or `video_mapping` and `Restored`. Nothing between
`non_video_mapping` and the next load of cr3 flushes the TLB, and `clear` works
only because the entry that the memcpy used is still there. The processor may
drop it at any moment: `lost` chooses whether it does so inside the switch, and
`evict` is the same between two steps. The history variable `wiped` has the
terminals whose picture such a switch has spoiled. `MappingFollows` holds either
way, and `PictureKeptUnlessWiped` says that there is no other way to lose a
picture. `picture` is a history variable.

### LineEditor

The handler is one step. `terminal_read` is split where its condition reads
`buffer_i` a second time (`wait`, `look`) and per byte of `keyboard_read`
(`copy`, `reset`); `terminal_write` is split per character. Keys and
switches may come at every label. `typed[t]` is a history variable: the line as a
user would write it down from the keys alone. `marred` is another: the terminals
on which a key edited the line after the read had seen its newline. Screen contents, letter case and Caps
Lock are left out. The cursor of a terminal is `screen_x`, `screen_y` while it is
shown and the saved `x`, `y` otherwise. `frozen` is a page fault in the kernel:
only page 0xB8 is present around video memory (`paging.c` 46-53).

### Rtc

`flag` is `rtc_interrupt_flag`; `rtc_read` is two steps, the loop and the clear.
`Divider` is the loop of `rtc_write` in closed form, and one less goes into the
register. The chip's `Hertz` is external. `fresh` and `ticked` are history variables.

### Interrupts

`imr`, `irr` and `isr` are the masks, requests and in-service bits of both
controllers; lines 8 to 15 reach the processor through line 2. `accept` is what
the chips do (external): the request of the highest priority that is not masked
and not held back by a line in service. `irq_handler` is two steps, the function
of the line and the EOI, and `irq1_switch` leaves after the EOI that
`terminal_switch` sends itself. The rtc raises no further interrupt until
register C has been read. `PicTypeOK` says that only lines 1, 2 and 8, which
`entry` enables, come into service; irq 0 is not among them, which is why neither
`Kernel` nor this module has `switch_task`.

### FileSystem and Descriptors

A byte of the image is named by its block and offset, so that `ReadsInOrder`
compares what `read_data` walks through with what the layout says the file is
(`Content`). `Word` is the modulus of unsigned arithmetic (2^32 in the code).
`halt` closes the descriptors of the *parent*, because `close` asks
`find_programid` after the page directory has changed; the model does the same.

A call is one step, but for `read_directory`: it works on the one position
`currentDirIndex` of all programs, and a switch may come between any two of its
statements. `dirpc[t]` is `reset`, `copy`, `load` or `store`; the last two are
`currentDirIndex++`, which the unoptimised build makes a load into a register and
a store. `loaded` is that register, and `JUNK` when the terminal was left in
between, as `int_ret_helper` does not restore it: the store then writes any value
of `Residue`. `listed` (the names that were handed out since the last end of the
directory) and `cut` (a switch has come inside a `read_directory` since then) are
history variables.

### Loader

`buf` is the array in `execute` that takes the header. It is not initialised,
and the shell calls `execute` at the same depth every time, so it starts with
what is on the stack: the last header, or anything (`scribble`).

### Lib, Text and Fish

`Lib` translates each function to an operator from memory to memory. The
memory functions are built on `stos` and `movs` with the alignment prologue of
the code, and on the direction flag `df`, which stays set between calls and
which `memmove` turns around. A loop is a recursive function of the number of
rounds (`RepStos`, `RepMovs`, `Swapped`, `Left`, `Scrolled`) or, where it only looks
for a place to stop, the least such place (`strlen`, `Copied`, `strncmp`). The numbers of `printf` are taken modulo
`2 ^ Bits`, with the sign and the padding as the code computes them. Each has a
reference definition beside it.

`Text` has the parsers as operators on a text that grows by any character, so
that every text up to `MaxText` is looked at. The nested loops of grep and of
`add_frames` are one recursive function each over the rounds of the inner loop
(`SearchNext`, `NextCell`), which also does what the code does between two
inner loops. They stop changing once the code has left them; `do_one_file` takes `2 *
Len(file) + 2` rounds and `add_frames` one more than both files have characters,
and that this is enough is a part of what `GrepFinds` and `FramesComplete` say. grep
refills its buffer across lines; `junk` is what `data[BUFSIZE]` holds before
anything writes it. `GrepFinds` is stated for lines that fit the buffer and for
a `junk` that is not a newline. `FramesComplete` says which cells are made for all
files, and that none is made twice for lines of at most 80 characters, the
columns of the screen: `row*80 + col` gives the columns behind them the locations
of the next row.

`Fish` has one action per ioctl and one for the tick. `Walk` is the list as the
loops of `blink.S` see it: the struct after k steps along the next pointers. A
tick draws what the last struct due at a location leaves there. `age`, `pairs` and `drawer`
are history variables for `PhaseLasts`, `InPhase` and `CellShows`.

## 3. Runs

| Run | Bounds | States | Shows |
|---|---|---|---|
| `kernel` | 3 slots, 2 terminals, 2 status values, switches at every label; after a tear only states with a free last slot and no overwritten result (`SmallAfterTear`) | 562 253 | `TypeOK`, `TerminalFoundUnlessTorn`, `NeverLostUnlessTorn`, `VideoVisibleUnlessTorn`, `KernelStackMatches`, `StatusUnlessClobbered`, the refinement `TableSpec`, which carries `Forest` over, and `CallsFinish` |
| `screen` | 4 slots, 3 terminals, 2 pictures and a blank one, the TLB may drop its entry at any moment | 235 053 | `Forest` of `TaskTable`, `ScreenTypeOK`, `PictureKeptUnlessWiped`, `MappingFollows` |
| `interrupts` | 2 programs, the lengths 0, 1, 3, 1024 and 2048 for `rtc_write` | 18 770 | `PicTypeOK` (with the type of `Rtc`), `Acknowledged`, `OneTickPerReturn`, `ReadReturns`, `Delivered` |
| `descriptors` | 2 slots, 2 terminals, 2 descriptors, a file of 5 bytes in blocks of 2, reads of 2 and 3, a junk register of 5, a pass that was cut followed for 2 names (`ShortPass`) | 2 820 719 | `TypeOK`, `NeverNull`, `PositionInFile`, `ReadsInOrder`, `SuspendedUntouched`, `PassCompleteUnlessCut` |
| `line_editor` | lines of 2, a screen of 1 x 2, 2 terminals | 1 658 195 | `TypeOK`, `LineDeliveredUnlessMarred`, `EnterEndsLine`, `ReadReturns` |
| `library` | memories of 12 bytes, ints of 6 bits, radix 4 and 3, a screen of 2 x 2, texts up to 6 characters, 3 structs on 2 cells and a location off the screen | 280 047 | `MemoryRight`, `StringsRight`, `NumbersPrinted`, `ScrollsUp` of `Lib`; `CommandParsed`, `GrepFinds`, `FramesComplete` of `Text`; `ListSound`, `PhaseLasts`, `CellShows`, `InPhase` of `Fish` |
| `claim_race` | 3 slots, 2 terminals, 2 status values | - | `PidUnique` is violated |
| `register_lost` | as `claim_race` | - | `StatusDelivered` is violated |
| `rtc_stale_tick` | 2 programs | - | `WaitsForNextTick` is violated |
| `fd_leak` | as `descriptors`, with the rtc | - | `StartsClosed` is violated |
| `screen_bottom` | lines of 3, a screen of 3 x 3, 1 terminal | - | `NeverFaults` is violated |
| `stale_header` | a program, a text and an empty file | - | `OnlyExecutables` is violated |

Why the bounds are enough. Two terminals are what every race needs: one thread
inside a system call and one that runs meanwhile. Three slots allow a chain of
three programs, or a second shell beside a program and its child, on either
terminal, and they run out, so that the full table is reached in user mode and in
the interrupt. After a tear little is claimed any more: the type,
`KernelStackMatches`, `StatusUnlessClobbered` and `CallsFinish`, of which all but
the last are proved without the bound.
Two status values tell two results apart. The reads of 2 and 3 bytes start and
end in the middle and at the edge of blocks and at the end of the file. A line
of 2 characters is empty, partly full and full; the screens are chosen so that
a full line wraps and reaches the bottom row. `BootRow` is the row on which the
boot messages leave the cursor, which `clear` does not move. Three terminals in
`screen` tell the one that is left, the one that is shown and a third that must
not change apart. Twelve bytes let source and target lie at all four alignments,
overlap from either side, and leave a whole word between an unaligned beginning
and end. Ints of six bits are all tried, the most
negative one and all digits of both radices among them. Texts of twice the buffer of grep make it
refill in the middle and at the end of a line. Phases of length zero, one and two
are those that the countdown treats differently.

### Findings

- `claim_race`: `execute` tests `openTasks[i]` (line 129) and claims it later; a
  terminal opened in between gets the same slot.
- `register_lost`: `terminal_switch` returns through `int_ret_helper`, which
  restores no general register: a result in eax is lost.
- `rtc_stale_tick`: `rtc_read` returns on a tick from before the call.
- `fd_leak`: descriptor 7 is not cleared by `execute` (`i < 7`) and not closed
  by `halt`, and the next program in the slot starts with it open.
- `screen_bottom`: a newline written in the last column of the bottom row
  leaves the cursor two rows below the screen; the next key is drawn outside
  video memory and the page fault stops the machine.
- `stale_header`: the file `rtc` of the shipped image is empty, so that its header
  read leaves the array in `execute` as it was; after another command that is the
  header of a program, the check passes and the old image is run again.

Seen while modelling, most of them in the models, without a run of their own:

- `execute` sets `program_id` (`systemcall.c` 166) before it loads the page
  directory of the new program (208). A switch in between, at `save` or `page`,
  writes the old pid back (`terminal.c` 62), and the new program does not find its
  terminal: `TerminalFound` without `torn` fails. The same happens in `halt` at
  `hpage`;
- after `execute` has saved esp and ebp in the PCB of its caller (190), a terminal
  opened by Alt-Fn at `page` saves the interrupt's in the same place, and `halt`
  of the child loads those: `NeverLost` without `torn` fails. At the other end,
  after `halt` has loaded the parent's page directory (`hfree`, `hclose`), the same
  switch saves into the parent's PCB;
- `curr_status` (288) is overwritten by a `halt` on another terminal before the
  parent's `execute` returns it, and `returnValue` of the system call gate by any
  call on another terminal;
- `execute` and `halt` look the new pid up before `program_id` is set, so that
  `&terminals[-1]` enters the run queue (158-159, 298-299);
- `clear` (`terminal.c` 173) comes after `non_video_mapping` and before any
  flush: if the TLB has dropped the entry in between, the picture just saved is
  wiped instead of the screen;
- a switch between the copy of a name (`file_system.c` 399) and the increment of
  `currentDirIndex` (401) gives the name to a second program and skips the next,
  and one after the test (393) takes the position behind the directory, although
  the comment (384) promises the next unread file;
- `keyboard_read` looks at `buffer_i` again on every turn of its loop
  (`terminal.c` 536): a key after Enter makes the line longer or shorter than the
  one that was ended;
- the chip ticks four times as often as `rtc_write` was asked for (`rtc.c` 69
  writes `divd - 1`), 8 Hz after `open` instead of the 2 Hz of the comments
  (`rtc.c` 6, 39); `QuadrupleRateCorrect` states the factor for every frequency;
- `mp1_ioctl_sync` moves with `cmovl` after `testb`, which never sets the flags
  that way, so that it always shows the off character (`blink.S` 281-282);
- a blink struct is free while its location is 0: adding location 0 would make
  `mp1_malloc` hand out the head of the list again; fish never adds it;
- `execute` ends name and argument with a NUL one past the array when they have
  exactly 32 or 128 characters, and a line of spaces gives an empty name;
- `read_dentry_by_name` copies a name into 32 bytes before it looks at its length
  (`file_system.c` 131);
- grep looks at `data[BUFSIZE]` before anything has written it: a newline there
  cuts a line that reaches the end of the buffer in two;
- the handlers of all exceptions spin with interrupts off, although the comment
  of `execute` (`systemcall.c` 23) promises 256 for a program that dies to one;
- `rtc_write` takes the length passed to `write` for the frequency and does not
  look at the buffer;
- all programs share one position in the directory, which `open` does not reset.

## 4. Fairness

- `Kernel!FairSpec`: strong fairness of the statements of each thread while its
  terminal is shown. The processor does not stop between two statements, and
  keys are many thousands of statements apart, so a thread that is shown again
  and again makes progress. `CallsFinish` also assumes that its terminal is
  shown again and again and that the machine is up. Nothing is assumed of user
  programs.
- `Interrupts!SystemFairness`: handlers run to their end (weak fairness, nothing
  interrupts them). A key that is accepted again and again is served: it has the
  highest priority of the lines that are enabled. For each program that is on the
  screen again and again, some tick and its interrupt come while it is there with
  no key pending, and the statements of `rtc_read` go on: the chip ticks several
  times a second, and handlers take microseconds. No key is assumed to come, and
  `ReadReturns` also assumes that the program is shown again and again.
- `LineEditor!FairSpec`: weak fairness of the steps of `terminal_read` and
  `keyboard_read`. No key is ever assumed to come.

## 5. Theorems

All are proved by TLAPS for every value of the constants, from the named
assumptions of the modules: `MaxTask`, `MaxTerm` and the sizes are positive
naturals, status values are bytes; the image has a directory with at least one
entry and files whose inodes exist and whose lengths fit a word
(`DirectoryAssumption`, `ImageAssumption`, `WordAssumption`), and a register is a
word (`ResidueAssumption`); fish adds locations
above 0 and lengths that are signed words (`LocationsAssumption`,
`LengthsAssumption`); memory is bytes, the radixes are 2 to 36, `HexDigits` digits
fill an int exactly, and `conv_buf` and the video page are inside memory
(`MemoryAssumption`, `FillsAssumption`, `RadixAssumption`, `HexAssumption`,
`ConvAssumption`, `ScreenAssumption`); letters are not a newline, a space or the NUL,
grep has room for a character, and `exit` and the patterns are words of at least
one letter (`LettersAssumption`, `BoundsAssumption`, `WordsAssumption`). TLC evaluates each of them in the runs. No theorem
restricts where switches, keys or evictions come. What a switch in a bad place
does is in the history variables `torn`, `clobbered`, `cut`, `marred` and `wiped`
(section 2), and the theorems say that nothing else can do it. Section 3 says what
it does.

**TaskTable, Kernel and Screen**

| Theorem | Argument |
|---|---|
| `TaskTableProofs!TypeCorrect` | inductive as it stands |
| `TaskTableProofs!ForestCorrect` | `Forest` with the type is inductive: its six parts need each other (`Exit` needs `AtMostOneChild` and `LeafHasNoChild` so that the parent has no other child). The lemma `ForestInductive` is what `ScreenProofs`, `KernelProofs` and `DescriptorsProofs` build on |
| `KernelProofs!TypeCorrect` | needs that the pid under a running thread is a real one: `terminals[t].program_id` and the locals are read as indices |
| `KernelProofs!KernelStackCorrect` | `IInv = TypeOK /\ StackInv`: locals are in range at each label, the saved `cr3` and `program_id` of every terminal in the background agree, a thread behind `set_programpage` finds that directory loaded whenever it runs, and `tss.esp0` belongs to cr3 in user mode, at `call`, at `hqueue` (a shell without a parent is restarted from there) and on the return path. It holds behind a tear as well: a switch inside `execute` or `halt` never breaks it, although it breaks the tables |
| `KernelProofs!StatusDeliveredCorrect` | `ResultInv`, for the threads of all terminals that are not clobbered at once: `curr_status`, `returnValue` or `eax`, whichever holds the result at the label of the thread, is what its call computed, and in eax it is only for the thread on the screen. Two threads that wait for `curr_status` at the same time expect the same value or one of them is clobbered |
| `KernelProofs!KernelImplementsTable` | `WholeInv`: `IInv`, and `TableInv` as long as nothing is torn. While the machine is up, the locals of every thread agree with its page directory and with `openTasks` at each label that still uses them, only the thread on the screen is in a half-updated window, `program_id` runs ahead of cr3 exactly at `save`, `page` and `hpage`, the PCB of a suspended program has the frame of its own `execute` unless that has not come to its save yet, and a video page leads away from the screen only for the program of a terminal in the background. The claim of a slot then maps to `Spawn` and its release to `Exit`, both kinds of switch to `Open` and `Show`, and every other statement to stuttering |
| `KernelProofs!PidUniqueCorrect` | leaves of a forest are distinct; `torn \/ PidUnique`, as `claim_race` refutes `PidUnique` itself |
| `KernelProofs!NeverLostCorrect` | `TableInv` has it as a conjunct; what makes it inductive is that frames are saved and that no thread is on a stack that was given away |
| `KernelProofs!TerminalFoundCorrect` | `find_terminal` takes the first match, so that uniqueness is needed of the pids of all terminals, and that an unopened one, whose `program_id` is 0, never matches |
| `KernelProofs!VideoVisibleCorrect` | from the part `Mapped` of `TableInv`, which also speaks of free slots and suspended programs, since `execute` and `halt` make them leaves without remapping them |
| `ScreenProofs!ScreenImplements` | each step of `Screen` has a step of `TaskTable` as a conjunct or leaves its variables alone |
| `ScreenProofs!MappingCorrect` | `MapInv` on top of `Forest`: every program except the leaf of a terminal in the background maps video memory, free slots and suspended parents included (`halt` gives the screen back to a parent without remapping it), and that leaf maps the buffer of its terminal. `MappingFollows` alone is not inductive: it says nothing of the program that `halt` or `execute` makes the leaf |
| `ScreenProofs!ScreenTypeCorrect` | from `MapInv` and the type of the pictures |
| `ScreenProofs!PictureCorrect` | `PictureInv`: with `PictureKeptUnlessWiped`, that nothing is on the screen before the first shell |

**Drivers**

| Theorem | Argument |
|---|---|
| `InterruptsProofs!OneTickPerReturnCorrect` | `TickInv`: a set flag means that every program has seen a tick since its last return, and a thread at `clear` has seen one |
| `InterruptsProofs!QuadrupleRateCorrect` | `RateInv`: the register holds one less than the divider of the frequency that was accepted last, so that the chip ticks at four times that frequency, for each of them. The frequencies are the powers of two up to 1024, so that the closed form of the loop is a finite case distinction |
| `InterruptsProofs!InterruptsImplementRtc` | the handler of irq 8 maps to `rtc_interrupt`, the one of irq 1 that switches to `terminal_switch`; requests, priorities and EOIs stutter. `SystemTicks` carries the two results above over to the whole system |
| `InterruptsProofs!PicTypeCorrect`, `AcknowledgedCorrect` | `PicInv`: the types, `Acknowledged`, and `MaskInv`, that the masks are those that boot left. Without the masks neither is inductive: a request on another line could be accepted |
| `LineEditorProofs!TypeCorrect` | with `LineInv`: the history line and the first `buffer_i` bytes of the buffer are equal |
| `LineEditorProofs!LineDeliveredCorrect` | with `CopyInv`: during the copy, on a terminal that is not marred, the line ends in a newline and the copied bytes are a prefix of it; every read starts unmarred |
| `LineEditorProofs!EnterEndsLineCorrect` | an action property, from `TypeOK`: a full line gives up its last byte for the newline |

**Files and fish**

| Theorem | Argument |
|---|---|
| `DescriptorsProofs!DescriptorsTypeCorrect`, `NeverNullCorrect`, `PositionInFileCorrect`, `ReadsInOrderCorrect` | `DInv`: on top of `Forest`, every open file has a dentry of a regular file, a position inside it, and has been read exactly up to there. It rests on `ReadDataCorrect`: the walk of `read_data`, with its step to the next block at each block end, reads `SubSeq(Content(inode), offset + 1, offset + n)` with `n` clipped at the end of the file |
| `DescriptorsProofs!PassCompleteCorrect` | the part `DirectoryOK` of `DInv`: unless the pass was cut, only the program on the screen can be inside `read_directory`, and the names handed out are those before `currentDirIndex`, with the one that is just being counted (`Given`) |
| `DescriptorsProofs!SuspendedUntouchedCorrect` | one step needs `Forest`: the program that opens, closes or starts is a leaf and has no child, and the slot a new program takes is nobody's parent |
| `ProgramProofs!ListSoundCorrect` | `ListSound` with the pointers in range is inductive. Adding shifts the walk by one step (`AddToList`), removing cuts one step out (`RemoveFromList`), and a walk without repetition ends within `Slots` steps because there are no more structs (`TooMany`) |
| `ProgramProofs!PhaseLastsCorrect`, `CellShowsCorrect`, `InPhaseCorrect` | `FInv` adds to `ListSound`: the count left in each phase (`PhaseOK`), that a drawer is in use and at the cell it drew (`CellOK`), and that two structs in step agree in all fields but the location (`Alike`). `InPhase` alone is not inductive: equal counts with different lengths part at the next toggle |

**Library**

In each of the four the invariant is the property together with the type of
`before`, and the work is in lemmas that say what each function computes.

| Theorem | Argument |
|---|---|
| `LibProofs!MemoryRightCorrect` | `StosUp`, `MovsUp`, `MovsDown`: the memory after k rounds has k units in place and is unchanged elsewhere, where a copy upwards needs a source at or above its destination and one downwards the opposite. `memset` and `memcpy` are three such runs, the bytes up to the alignment, words and the rest (`AreaUp`), and `MemsetIs`, `MemcpyIs`, `MemmoveIs` put them together. That `cld` comes first is what makes `df` irrelevant |
| `LibProofs!ScrollsUpCorrect` | `ScrolledIs`: after k rounds the first k cells are those one row below, and the cells that are still to be read are unchanged |
| `LibProofs!StringsRightCorrect` | `StrlenIs` and `StrlenUnique`: the length is the one place with a NUL and none before it, which survives the copy because source and destination are disjoint |
| `LibProofs!NumbersPrintedCorrect` | `LeftIs`: what is left of a number after k digits is its quotient by the k-th power of the radix; `LengthIs`: there are at most `Bits` digits and the last is not 0; `SwappedIs`: `strrev` reverses; `RemaindersSpell`: the remainders, highest first, are the numeral of the number. `%#x` then writes its zeros before a numeral of at most `HexDigits` digits (`PrintsAlt`), and the most negative int is its own negation as an unsigned word (`PrintsNegative`) |

**Programs on text**

| Theorem | Argument |
|---|---|
| `ProgramProofs!CommandParsedCorrect` | the four positions that `execute` finds, the first non-space and the end of the word behind it, twice, are least ones (`Scans`). `FirstWords`: whatever the words of the line are, the first two are what lies between them, by the rounds of `WordsOf` before, in and behind each of the two words. The NUL that the shell puts over the newline ends the last word as a space would (`CutEnded`) |
| `ProgramProofs!FramesCompleteCorrect` | `Layout`: the pieces of a file lie one behind the other, with a newline between two. `ReaderAt`: in each row and column a reader is that far into its line, or waits at its end, or has met the end of its file. `Moving` keeps it for both readers, and `Rolled` adds the cells: what was made is what blinks before the current position, every such position was made, and the cells are ordered, which with lines of at most 80 characters makes them distinct. Each round takes a character from a file (`Pace`), so that the rounds are enough |
| `ProgramProofs!GrepFindsCorrect` | `GrepInv`: `data` holds the file from the start of the current line up to what has been read, and has no newline anywhere else, so that the byte behind the buffer never ends a line (`Loaded`); the next read has room (`Ready`); and grep is at the start of line i with the matches before i printed, or at its end with i among them (`Standing`). The second case is a line that was searched before its newline was read, because it fills the buffer or ends the file: what is read next, a newline or nothing, makes an empty line, which matches nothing. A round advances in the file or moves a line to the front, which happens once for each line (`Worth`), so that the rounds are enough |

**Induction.** Loops are recursive functions: the walks of `read_data` and of the
blink list, `rep stos`, the digits of `itoa`, the rounds of grep and of `add_frames`,
and the reference definitions of words, lines and matches. That such a function exists and is
determined by its equation, and what it computes after any number of rounds, is
proved without an induction rule: a least round at which the claim fails (`WFMin`
of the library) cannot exist. `LibProofs` has this once and for all (`LeastNat`,
`Rounds`, `Recursion`, `SolutionUnique`), with the claim given as a set of rounds, and the lemmas
above instantiate it.

Model-checked only: liveness (`CallsFinish`, both `ReadReturns`, `Delivered`),
which is out of the prover's reach, as ENABLED and fairness are. Every invariant
and every safety action property of a passing run is stated by a theorem. The
violated properties have counterexamples instead of proofs.

## 6. Abstractions

- Switches land between statements. The kernel is built without optimisation, so
  locals are in memory at statement boundaries. The loss of a general register
  in the middle of a statement is modelled where a result is in eax and in the
  increment of `currentDirIndex`, and nowhere else.
- The entries of the directory behind the last one are empty names, however far
  behind it the position was taken.
- `read_data` is called with a length of at least 1, a buffer and an inode of the
  image, so that its -1 path is left out; names are looked up among those of the
  image, not among the unused entries, whose names are empty.
- Command lines, ELF images and arguments are reduced to success, failure or
  the `while (1)` of `execute`.
- A name stands for the first 31 characters, which `strncmp` compares. The
  image is well formed, as `createfs` builds it.
- PCBs are zero at boot (the memory is not written before).
- Failing calls that change nothing are left out of `Descriptors`.
- A picture, a byte or a character is a value of a small set; a letter stands for
  every character that is neither a newline nor a space.
- The pointers that the library functions return are left out: no caller looks
  at them.
- The modifiers of a key are a part of the key. Scancodes of released keys read
  `kbdus` behind its end; in the built image `kbdus_shift` follows, and nothing
  printable results.

### Not modelled

- `switch_task`: irq 0 is never enabled, and `PicTypeOK` checks that.
  `disable_irq` has no caller.
- The dispatch on `eax` in the system call gate: a table of eight entries.
- Descriptor tables, the IDT, multiboot data and the pages that are set once at
  boot: constants that nothing changes.
- The exception handlers beyond that they spin: they print and stop.
- Drawing of single characters and colours; the test routines of the kernel and
  the two copy functions of `lib.c` without a caller.
- `cat`, `ls`, `counter`, `pingpong`: loops around one system call that keep no
  state. `Kernel`, `Descriptors` and `LineEditor` take any sequence of calls.
- `ece391syserr.c`, a test of the system calls whose claims are quoted in the
  findings, and `ece391emulate.c`, which runs programs on Linux.
- The host tools `createfs` and `elfconvert`: binaries without source.

Five hazards have no property. An exception stops the machine, by design of the
handlers (`idt.c` 19). The bytes behind an array belong to stack frames that no
module has: those behind the array into which `read_dentry_by_name` copies a name
(`file_system.c` 131), and the NUL behind `file_name` and `saved_argument`
(`systemcall.c` 60, 81). A name stands for its first 31 characters, so that two
names which agree there are one (`file_system.c` 145). Nothing reads
the run queue (`systemcall.c` 159). The rate of the RTC (`rtc.c` 54) is four times the one asked
for, which a theorem states.

## 7. Plan

Done: all modules above, their runs and the theorems of section 5, which state
every safety property of the passing runs. What could be added: the single
characters of `putc` on the screen, and the stack frames behind the hazards
without a property.
