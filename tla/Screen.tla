------------------------------- MODULE Screen -------------------------------
(***************************************************************************)
(* What is on the screens: video memory and the page at term0_buffer ...   *)
(* that keeps the picture of each terminal, which of these frames the      *)
(* video page of each program leads to (paging.c), the TLB entry of that   *)
(* page, and the copies terminal_switch makes.  Programs start, end and    *)
(* are switched by the actions of TaskTable; a picture is one value.       *)
(***************************************************************************)
EXTENDS TaskTable

CONSTANT Pictures       \* what programs and keys can draw

BLANK == "blank"        \* spaces only

(* The frames.  The buffer of terminal t is number t.                      *)
VIDEO == -1
NONE == -2
Frames == {VIDEO} \cup Terms

get_term_buffer_one(t) == t + 1         \* mutant: terminals counted from 1
get_term_buffer(t) == t

VARIABLES mem,                  \* [Frames -> the picture in it]
          vmap,                 \* the frame of page VIDEO_PAGE, for each page directory
          tlb,                  \* the frame the TLB has for that page, or NONE
          picture,              \* [Terms -> what was drawn on the terminal last]
          wiped                 \* the terminals that a switch has cleared too far or
                                \* too little, as the TLB had lost the entry

screenvars == <<vars, mem, vmap, tlb, picture, wiped>>

me == leaf[fg]          \* the program whose page directory is loaded, 0 at boot

ScreenInit ==
    /\ Init
    /\ mem = [f \in Frames |-> BLANK]               \* terminal_init; clear in entry
    /\ vmap = [p \in 0 .. MaxTask |-> VIDEO]        \* paging_initialize
    /\ tlb = NONE
    /\ picture = [t \in Terms |-> BLANK]
    /\ wiped = {}

-----------------------------------------------------------------------------

(* The frame behind the video page.                                        *)
Walk(entry, map, p) == IF entry # NONE THEN entry ELSE map[p]

(* A program or the kernel on its behalf draws: putc, vidmap, clear.       *)
draw(c) ==
    /\ me # 0
    /\ tlb' = Walk(tlb, vmap, me)
    /\ mem' = [mem EXCEPT ![tlb'] = c]
    /\ picture' = [picture EXCEPT ![fg] = c]
    /\ UNCHANGED <<vars, vmap, wiped>>

(* The processor drops an entry of the TLB.                                *)
evict ==
    /\ tlb # NONE
    /\ tlb' = NONE
    /\ UNCHANGED <<vars, mem, vmap, picture, wiped>>

(* execute and halt load a page directory, which empties the TLB.          *)
FirstFree(n) == Vacant(n) /\ \A m \in 1 .. n - 1 : ~Vacant(m)

execute(n) ==
    /\ FirstFree(n)
    /\ Spawn(n)
    /\ tlb' = NONE
    /\ UNCHANGED <<mem, vmap, picture, wiped>>

halt ==
    /\ Exit
    /\ tlb' = NONE
    /\ UNCHANGED <<mem, vmap, picture, wiped>>

(* The first shell.                                                        *)
boot(n) ==
    /\ me = 0 /\ leaf[0] = 0
    /\ FirstFree(n)
    /\ Open(0, n)
    /\ tlb' = NONE
    /\ UNCHANGED <<mem, vmap, picture, wiped>>

-----------------------------------------------------------------------------
(* terminal_switch(t), one step of the keyboard interrupt.                 *)

(* save_terminal: memcpy from the video page to the buffer of the old      *)
(* terminal, then non_video_mapping.  The page directory stays loaded.     *)
Saved_new(t) == [mem EXCEPT ![get_term_buffer(t)] =      \* mutant: after old_terminal = term
                    mem[Walk(tlb, vmap, me)]]
Saved(t) == [mem EXCEPT ![get_term_buffer(fg)] = mem[Walk(tlb, vmap, me)]]

non_video_mapping == [vmap EXCEPT ![me] = get_term_buffer(fg)]

(* clear(): still through the entry that the memcpy left in the TLB, unless *)
(* the TLB has lost it and the new mapping is read.                         *)
Wiped(m, lost) ==
    LET frame == IF lost THEN non_video_mapping[me] ELSE Walk(tlb, vmap, me)
    IN  [m EXCEPT ![frame] = BLANK]

(* A terminal that is not active yet: execute("shell").                    *)
terminal_switch_new(t, n, lost) ==
    /\ me # 0 /\ t # fg
    /\ FirstFree(n)
    /\ Open(t, n)
    /\ mem' = Wiped(Saved(t), lost)
    /\ vmap' = non_video_mapping
    /\ tlb' = NONE
    /\ picture' = [picture EXCEPT ![t] = BLANK]
    /\ wiped' = IF lost THEN wiped \cup {fg, t} ELSE wiped

(* One that was shown before: video_mapping, the page directory of its     *)
(* program, and memcpy from its buffer to the video page.                  *)
video_mapping_none(map, p) == map                       \* mutant: the call is dropped
video_mapping(map, p) == [map EXCEPT ![p] = VIDEO]

Restored(m, t) == [m EXCEPT ![vmap'[leaf[t]]] = m[get_term_buffer(t)]]

terminal_switch_back(t, lost) ==
    /\ me # 0 /\ t # fg
    /\ leaf[t] # 0
    /\ Show(t)
    /\ vmap' = video_mapping(non_video_mapping, leaf[t])
    /\ mem' = Restored(Wiped(Saved(t), lost), t)
    /\ tlb' = vmap'[leaf[t]]
    /\ wiped' = IF lost THEN wiped \cup {fg} ELSE wiped
    /\ UNCHANGED picture

ScreenNext ==
    \/ \E n \in Tasks : boot(n) \/ execute(n)
    \/ halt
    \/ \E c \in Pictures : draw(c)
    \/ evict
    \/ \E t \in Terms, n \in Tasks, lost \in BOOLEAN : terminal_switch_new(t, n, lost)
    \/ \E t \in Terms, lost \in BOOLEAN : terminal_switch_back(t, lost)

ScreenSpec == ScreenInit /\ [][ScreenNext]_screenvars

-----------------------------------------------------------------------------

(* Every video page leads to a frame of its own kernel.                    *)
ScreenTypeOK ==
    /\ TypeOK
    /\ mem \in [Frames -> Pictures \cup {BLANK}]
    /\ vmap \in [0 .. MaxTask -> Frames]
    /\ tlb \in Frames \cup {NONE}
    /\ picture \in [Terms -> Pictures \cup {BLANK}]
    /\ wiped \subseteq Terms

(* Where the picture of a terminal is.                                     *)
Kept(t) == leaf[t] # 0 => mem[IF t = fg THEN VIDEO ELSE get_term_buffer(t)] = picture[t]

(* The terminal on the screen shows what was drawn on it last, and the     *)
(* buffer of every other opened terminal keeps what it showed, however     *)
(* often terminal_switch saves, clears, remaps and restores: so it is for  *)
(* every terminal that was never left by a switch inside which the TLB     *)
(* lost the entry of the video page, whatever became of others.            *)
PictureKeptUnlessWiped == \A t \in Terms \ wiped : Kept(t)

(* A program that is not on the screen cannot reach the screen, and the    *)
(* entry the TLB has is the one in the page table of the program that      *)
(* runs: no mapping is changed under a live entry without a flush.         *)
MappingFollows ==
    /\ \A t \in Terms : leaf[t] # 0 =>
            vmap[leaf[t]] = IF t = fg THEN VIDEO ELSE get_term_buffer(t)
    /\ tlb \in {NONE, vmap[me]}
=============================================================================
