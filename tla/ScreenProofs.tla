---------------------------- MODULE ScreenProofs ----------------------------
(***************************************************************************)
(* The screens follow their terminals, for every number of slots, of       *)
(* terminals and of pictures.  A step of Screen is a step of TaskTable or  *)
(* leaves the table alone, so the chains of programs come from there; what *)
(* is new is that every slot whose program is not the leaf of a terminal   *)
(* in the background leads to video memory, free slots and suspended       *)
(* programs included: the next execute or halt runs one of these.          *)
(***************************************************************************)
EXTENDS Screen, TaskTableProofs

LEMMA FrameFacts ==
    /\ VIDEO \in Frames /\ VIDEO \notin Terms
    /\ NONE \notin Frames /\ NONE # VIDEO
    /\ Terms \subseteq Frames
    /\ Tasks \subseteq 0 .. MaxTask /\ 0 \in 0 .. MaxTask
    /\ 0 \notin Tasks /\ 0 \in Terms
  BY MaxTaskAssumption, MaxTermAssumption DEF VIDEO, NONE, Frames, Terms, Tasks

LEMMA StepImplements == [ScreenNext]_screenvars => [Next]_vars
  <1>. SUFFICES ASSUME [ScreenNext]_screenvars PROVE [Next]_vars
    OBVIOUS
  <1>1. ASSUME NEW n \in Tasks, boot(n) PROVE [Next]_vars
    BY <1>1, FrameFacts DEF boot, Next
  <1>2. ASSUME NEW n \in Tasks, execute(n) PROVE [Next]_vars
    BY <1>2 DEF execute, Next
  <1>3. ASSUME halt PROVE [Next]_vars
    BY <1>3 DEF halt, Next
  <1>4. ASSUME NEW c \in Pictures, draw(c) PROVE [Next]_vars
    BY <1>4 DEF draw
  <1>5. ASSUME evict PROVE [Next]_vars
    BY <1>5 DEF evict
  <1>6. ASSUME NEW t \in Terms, NEW n \in Tasks, NEW lost \in BOOLEAN,
               terminal_switch_new(t, n, lost) PROVE [Next]_vars
    BY <1>6 DEF terminal_switch_new, Next
  <1>7. ASSUME NEW t \in Terms, NEW lost \in BOOLEAN,
               terminal_switch_back(t, lost) PROVE [Next]_vars
    BY <1>7 DEF terminal_switch_back, Next
  <1>8. ASSUME UNCHANGED screenvars PROVE [Next]_vars
    BY <1>8 DEF screenvars
  <1>. QED  BY <1>1, <1>2, <1>3, <1>4, <1>5, <1>6, <1>7, <1>8 DEF ScreenNext

(* Drawing, the copies and the mappings of a switch change nothing in the  *)
(* table: Screen implements TaskTable, for any number of slots, terminals  *)
(* and pictures.                                                           *)
THEOREM ScreenImplements == ScreenSpec => Spec
  <1>1. ScreenInit => Init
    BY DEF ScreenInit
  <1>. QED  BY <1>1, StepImplements, PTL DEF ScreenSpec, Spec

-----------------------------------------------------------------------------

Background(p) == \E t \in Terms : t # fg /\ leaf[t] # NOLEAF /\ leaf[t] = p

MapTypeOK ==
    /\ vmap \in [0 .. MaxTask -> Frames]
    /\ tlb \in {NONE, VIDEO}

ForegroundMapped == \A p \in 0 .. MaxTask : ~Background(p) => vmap[p] = VIDEO

BackgroundMapped == \A t \in Terms : t # fg /\ leaf[t] # NOLEAF => vmap[leaf[t]] = t

(* The inductive invariant of the mappings.                                *)
MapInv == MapTypeOK /\ ForegroundMapped /\ BackgroundMapped

LEMMA MeMapped ==
    ASSUME TypeOK, Forest, MapInv
    PROVE  /\ me \in 0 .. MaxTask
           /\ vmap[me] = VIDEO
           /\ Walk(tlb, vmap, me) = VIDEO
  <1>1. me \in {NOLEAF} \cup Tasks
    BY DEF me, TypeOK
  <1>2. me \in 0 .. MaxTask
    BY <1>1, FrameFacts DEF NOLEAF
  <1>3. ~Background(me)
    BY DEF Background, me, Forest, LeafIsUnique, TypeOK
  <1>4. vmap[me] = VIDEO
    BY <1>2, <1>3 DEF MapInv, ForegroundMapped
  <1>. QED  BY <1>2, <1>4 DEF Walk, MapInv, MapTypeOK

LEMMA MapInit == ScreenInit => MapInv
  BY FrameFacts DEF ScreenInit, Init, MapInv, MapTypeOK, ForegroundMapped,
       BackgroundMapped, NOLEAF

LEMMA MapStep ==
    ASSUME TypeOK, Forest, MapInv, TypeOK', Forest', [ScreenNext]_screenvars
    PROVE  MapInv'
  <1>. USE FrameFacts DEF MapInv
  <1>1. ASSUME NEW n \in Tasks, boot(n) PROVE MapInv'
    <2>1. vmap' = vmap /\ tlb' = NONE /\ leaf' = [leaf EXCEPT ![0] = n] /\ fg' = 0
      BY <1>1 DEF boot, Open
    <2>2. me = 0 /\ leaf[0] = 0 /\ fg \in Terms /\ leaf \in [Terms -> {NOLEAF} \cup Tasks]
      BY <1>1 DEF boot, TypeOK
    <2>3. \A t \in Terms : t # 0 => leaf'[t] = leaf[t]
      BY <2>1, <2>2
    <2>4. \A t \in Terms : t # 0 /\ leaf[t] # NOLEAF => t # fg
      BY <2>2 DEF me, NOLEAF
    <2>5. MapTypeOK'
      BY <2>1 DEF MapTypeOK
    <2>6. \A p \in 0 .. MaxTask : Background(p) => Background(p)'
      BY <2>1, <2>2, <2>3 DEF Background, NOLEAF
    <2>7. ForegroundMapped'
      BY <2>1, <2>6 DEF ForegroundMapped
    <2>8. BackgroundMapped'
      BY <2>1, <2>2, <2>3, <2>4 DEF BackgroundMapped
    <2>. QED  BY <2>5, <2>7, <2>8
  <1>2. ASSUME NEW n \in Tasks, execute(n) PROVE MapInv'
    <2>1. vmap' = vmap /\ tlb' = NONE /\ leaf' = [leaf EXCEPT ![fg] = n] /\ fg' = fg
      BY <1>2 DEF execute, Spawn
    <2>. QED  BY <2>1 DEF TypeOK, MapTypeOK, ForegroundMapped, BackgroundMapped, Background
  <1>3. ASSUME halt PROVE MapInv'
    <2>1. vmap' = vmap /\ tlb' = NONE /\ leaf' = [leaf EXCEPT ![fg] = parent[leaf[fg]]] /\ fg' = fg
      BY <1>3 DEF halt, Exit
    <2>. QED  BY <2>1 DEF TypeOK, MapTypeOK, ForegroundMapped, BackgroundMapped, Background
  <1>4. ASSUME NEW c \in Pictures, draw(c) PROVE MapInv'
    <2>1. vmap' = vmap /\ tlb' = VIDEO /\ leaf' = leaf /\ fg' = fg
      BY <1>4, MeMapped DEF draw, vars
    <2>. QED  BY <2>1 DEF MapTypeOK, ForegroundMapped, BackgroundMapped, Background
  <1>5. ASSUME evict PROVE MapInv'
    <2>1. vmap' = vmap /\ tlb' = NONE /\ leaf' = leaf /\ fg' = fg
      BY <1>5 DEF evict, vars
    <2>. QED  BY <2>1 DEF MapTypeOK, ForegroundMapped, BackgroundMapped, Background
  <1>6. ASSUME NEW t \in Terms, NEW n \in Tasks, NEW lost \in BOOLEAN,
               terminal_switch_new(t, n, lost) PROVE MapInv'
    <2>1. /\ vmap' = [vmap EXCEPT ![leaf[fg]] = fg] /\ tlb' = NONE
          /\ leaf' = [leaf EXCEPT ![t] = n] /\ fg' = t
          /\ t # fg /\ leaf[fg] # NOLEAF /\ leaf[t] = NOLEAF
      BY <1>6 DEF terminal_switch_new, Open, non_video_mapping, get_term_buffer, me, NOLEAF
    <2>2. fg \in Terms /\ leaf[fg] \in Tasks /\ leaf \in [Terms -> {NOLEAF} \cup Tasks]
      BY <2>1 DEF TypeOK
    <2>3. MapTypeOK'
      BY <2>1, <2>2 DEF MapTypeOK
    <2>4. \A p \in 0 .. MaxTask : ~Background(p)' => ~Background(p) /\ p # leaf[fg]
      BY <2>1, <2>2 DEF Background
    <2>5. ForegroundMapped'
      BY <2>1, <2>2, <2>4 DEF ForegroundMapped, MapTypeOK
    <2>6. \A u \in Terms : u # t /\ u # fg /\ leaf[u] # NOLEAF => leaf[u] # leaf[fg]
      BY <2>2 DEF Forest, LeafIsUnique
    <2>7. BackgroundMapped'
      BY <2>1, <2>2, <2>6 DEF BackgroundMapped, MapTypeOK
    <2>. QED  BY <2>3, <2>5, <2>7
  <1>7. ASSUME NEW t \in Terms, NEW lost \in BOOLEAN,
               terminal_switch_back(t, lost) PROVE MapInv'
    <2>1. /\ vmap' = [[vmap EXCEPT ![leaf[fg]] = fg] EXCEPT ![leaf[t]] = VIDEO]
          /\ tlb' = vmap'[leaf[t]]
          /\ leaf' = leaf /\ fg' = t
          /\ t # fg /\ leaf[fg] # NOLEAF /\ leaf[t] # NOLEAF
      BY <1>7 DEF terminal_switch_back, Show, non_video_mapping, video_mapping,
            get_term_buffer, me, NOLEAF
    <2>2. /\ fg \in Terms /\ leaf[fg] \in Tasks /\ leaf[t] \in Tasks
          /\ leaf \in [Terms -> {NOLEAF} \cup Tasks]
      BY <2>1 DEF TypeOK
    <2>3. \A u, w \in Terms : u # w /\ leaf[u] # NOLEAF => leaf[u] # leaf[w]
      BY DEF Forest, LeafIsUnique
    <2>4. MapTypeOK'
      BY <2>1, <2>2 DEF MapTypeOK
    <2>5. \A p \in 0 .. MaxTask : p # leaf[t] /\ ~Background(p)' => ~Background(p) /\ p # leaf[fg]
      BY <2>1, <2>2 DEF Background
    <2>6. ForegroundMapped'
      BY <2>1, <2>2, <2>5 DEF ForegroundMapped, MapTypeOK
    <2>7. BackgroundMapped'
      BY <2>1, <2>2, <2>3 DEF BackgroundMapped, MapTypeOK
    <2>. QED  BY <2>4, <2>6, <2>7
  <1>8. ASSUME UNCHANGED screenvars PROVE MapInv'
    BY <1>8 DEF screenvars, vars, MapTypeOK, ForegroundMapped, BackgroundMapped, Background
  <1>. QED  BY <1>1, <1>2, <1>3, <1>4, <1>5, <1>6, <1>7, <1>8 DEF ScreenNext

LEMMA MapInvariant == ScreenSpec => [](TypeOK /\ Forest /\ MapInv)
  <1>1. ScreenSpec => []TypeOK
    BY ScreenImplements, TypeCorrect, PTL
  <1>2. ScreenSpec => []Forest
    BY ScreenImplements, ForestCorrect, PTL
  <1>3. TypeOK /\ Forest /\ MapInv /\ TypeOK' /\ Forest' /\ [ScreenNext]_screenvars => MapInv'
    BY MapStep
  <1>. QED  BY <1>1, <1>2, <1>3, MapInit, PTL DEF ScreenSpec

(* A program in the background never reaches the screen and the one on the *)
(* screen always does, with no mapping changed under a live TLB entry, for *)
(* any number of slots and terminals and whether or not the TLB loses      *)
(* entries.                                                                *)
THEOREM MappingCorrect == ScreenSpec => []MappingFollows
  <1>1. ASSUME TypeOK, Forest, MapInv PROVE MappingFollows
    <2>1. \A t \in Terms : leaf[t] # 0 =>
            vmap[leaf[t]] = IF t = fg THEN VIDEO ELSE get_term_buffer(t)
      BY <1>1, MeMapped DEF me, MapInv, BackgroundMapped, get_term_buffer, NOLEAF
    <2>. QED  BY <1>1, <2>1, MeMapped DEF MappingFollows, MapInv, MapTypeOK
  <1>. QED  BY <1>1, MapInvariant, PTL

-----------------------------------------------------------------------------
(* What the actions do to the pictures, once the frames are known.         *)

SwitchedOut(lost) ==
    [[mem EXCEPT ![fg] = mem[VIDEO]] EXCEPT ![IF lost THEN fg ELSE VIDEO] = BLANK]

LEMMA SavedAndWiped ==
    ASSUME TypeOK, Forest, MapInv, NEW t \in Terms, NEW lost \in BOOLEAN, me # 0
    PROVE  Wiped(Saved(t), lost) = SwitchedOut(lost)
  <1>1. me \in DOMAIN vmap
    BY MeMapped DEF MapInv, MapTypeOK
  <1>2. non_video_mapping[me] = fg
    BY <1>1 DEF non_video_mapping, get_term_buffer
  <1>3. Saved(t) = [mem EXCEPT ![fg] = mem[VIDEO]]
    BY MeMapped DEF Saved, get_term_buffer
  <1>. QED  BY <1>2, <1>3, MeMapped DEF Wiped, SwitchedOut

LEMMA SwitchNewFacts ==
    ASSUME TypeOK, Forest, MapInv, NEW t \in Terms, NEW n \in Tasks, NEW lost \in BOOLEAN,
           terminal_switch_new(t, n, lost)
    PROVE  /\ mem' = SwitchedOut(lost)
           /\ picture' = [picture EXCEPT ![t] = BLANK]
           /\ leaf' = [leaf EXCEPT ![t] = n] /\ fg' = t /\ t # fg
           /\ leaf[fg] # NOLEAF
           /\ wiped' = IF lost THEN wiped \cup {fg, t} ELSE wiped
  BY SavedAndWiped DEF terminal_switch_new, Open, me, NOLEAF

LEMMA SwitchBackFacts ==
    ASSUME TypeOK, Forest, MapInv, NEW t \in Terms, NEW lost \in BOOLEAN,
           terminal_switch_back(t, lost)
    PROVE  /\ mem' = [SwitchedOut(lost) EXCEPT ![VIDEO] = SwitchedOut(lost)[t]]
           /\ picture' = picture
           /\ leaf' = leaf /\ fg' = t /\ t # fg
           /\ leaf[fg] # NOLEAF /\ leaf[t] # NOLEAF
           /\ wiped' = IF lost THEN wiped \cup {fg} ELSE wiped
  <1>1. leaf[t] \in Tasks /\ Tasks \subseteq DOMAIN vmap
    BY FrameFacts DEF terminal_switch_back, TypeOK, NOLEAF, MapInv, MapTypeOK
  <1>2. vmap'[leaf[t]] = VIDEO
    BY <1>1 DEF terminal_switch_back, video_mapping, non_video_mapping
  <1>3. mem' = [Wiped(Saved(t), lost) EXCEPT ![VIDEO] = Wiped(Saved(t), lost)[t]]
    BY <1>2 DEF terminal_switch_back, Restored, get_term_buffer
  <1>4. Wiped(Saved(t), lost) = SwitchedOut(lost)
    BY SavedAndWiped DEF terminal_switch_back
  <1>. QED  BY <1>3, <1>4 DEF terminal_switch_back, Show, me, NOLEAF

PictureTypeOK ==
    /\ mem \in [Frames -> Pictures \cup {BLANK}]
    /\ picture \in [Terms -> Pictures \cup {BLANK}]
    /\ wiped \subseteq Terms

LEMMA PictureTypeStep ==
    ASSUME TypeOK, Forest, MapInv, PictureTypeOK, [ScreenNext]_screenvars
    PROVE  PictureTypeOK'
  <1>. USE FrameFacts DEF PictureTypeOK
  <1>0. fg \in Terms /\ fg \in Frames
    BY DEF TypeOK
  <1>1. ASSUME NEW c \in Pictures, draw(c) PROVE PictureTypeOK'
    <2>1. mem' = [mem EXCEPT ![VIDEO] = c] /\ picture' = [picture EXCEPT ![fg] = c]
      BY <1>1, MeMapped DEF draw
    <2>2. wiped' = wiped
      BY <1>1 DEF draw
    <2>. QED  BY <1>0, <2>1, <2>2
  <1>2. ASSUME NEW t \in Terms, NEW n \in Tasks, NEW lost \in BOOLEAN,
               terminal_switch_new(t, n, lost) PROVE PictureTypeOK'
    BY <1>0, <1>2, SwitchNewFacts DEF SwitchedOut
  <1>3. ASSUME NEW t \in Terms, NEW lost \in BOOLEAN,
               terminal_switch_back(t, lost) PROVE PictureTypeOK'
    <2>1. SwitchedOut(lost) \in [Frames -> Pictures \cup {BLANK}]
      BY <1>0 DEF SwitchedOut
    <2>2. wiped' \subseteq Terms
      BY <1>0, <1>3, SwitchBackFacts
    <2>3. mem' \in [Frames -> Pictures \cup {BLANK}] /\ picture' = picture
      BY <1>3, <2>1, SwitchBackFacts
    <2>. QED  BY <2>2, <2>3
  <1>4. CASE UNCHANGED <<mem, picture, wiped>>
    BY <1>4
  <1>. QED  BY <1>1, <1>2, <1>3, <1>4 DEF ScreenNext, boot, execute, halt, evict, screenvars

(* Every frame, mapping and TLB entry stays inside the frames there are,   *)
(* for any number of slots and terminals and whether or not the TLB loses  *)
(* entries.                                                                *)
THEOREM ScreenTypeCorrect == ScreenSpec => []ScreenTypeOK
  <1>1. ScreenInit => PictureTypeOK
    BY DEF ScreenInit, PictureTypeOK
  <1>2. TypeOK /\ Forest /\ MapInv /\ PictureTypeOK /\ [ScreenNext]_screenvars => PictureTypeOK'
    BY PictureTypeStep
  <1>3. TypeOK /\ MapInv /\ PictureTypeOK => ScreenTypeOK
    BY FrameFacts DEF MapInv, MapTypeOK, PictureTypeOK, ScreenTypeOK
  <1>. QED  BY <1>1, <1>2, <1>3, MapInvariant, PTL DEF ScreenSpec

-----------------------------------------------------------------------------

(* Before the first shell nothing was drawn.                               *)
NothingDrawn == me = 0 => mem[VIDEO] = BLANK /\ picture[0] = BLANK

PictureInv == PictureTypeOK /\ PictureKeptUnlessWiped /\ NothingDrawn

LEMMA PictureStep ==
    ASSUME TypeOK, Forest, MapInv, PictureInv, [ScreenNext]_screenvars
    PROVE  PictureInv'
  <1>. USE FrameFacts DEF PictureInv, PictureKeptUnlessWiped, Kept
  <1>0. /\ fg \in Terms /\ fg \in Frames /\ fg # VIDEO
        /\ leaf \in [Terms -> {NOLEAF} \cup Tasks]
        /\ parent \in [Tasks -> {FREE, ROOT} \cup Tasks]
        /\ mem \in [Frames -> Pictures \cup {BLANK}]
        /\ picture \in [Terms -> Pictures \cup {BLANK}]
    BY DEF TypeOK, PictureTypeOK
  <1>1. PictureTypeOK'
    BY PictureTypeStep
  <1>2. ASSUME NEW n \in Tasks, boot(n) PROVE PictureInv'
    <2>1. /\ mem' = mem /\ picture' = picture /\ wiped' = wiped
          /\ leaf' = [leaf EXCEPT ![0] = n] /\ fg' = 0
          /\ leaf[fg] = 0
      BY <1>2 DEF boot, Open, me
    <2>2. mem[VIDEO] = BLANK /\ picture[0] = BLANK
      BY <2>1 DEF NothingDrawn, me
    <2>. QED  BY <1>0, <1>1, <2>1, <2>2 DEF NothingDrawn, me, get_term_buffer
  <1>3. ASSUME NEW n \in Tasks, execute(n) PROVE PictureInv'
    <2>1. /\ mem' = mem /\ picture' = picture /\ wiped' = wiped
          /\ leaf' = [leaf EXCEPT ![fg] = n] /\ fg' = fg
          /\ leaf[fg] # 0
      BY <1>3 DEF execute, Spawn, NOLEAF
    <2>. QED  BY <1>0, <1>1, <2>1 DEF NothingDrawn, me, get_term_buffer
  <1>4. ASSUME halt PROVE PictureInv'
    <2>1. /\ mem' = mem /\ picture' = picture /\ wiped' = wiped
          /\ leaf' = [leaf EXCEPT ![fg] = parent[leaf[fg]]] /\ fg' = fg
          /\ leaf[fg] # 0 /\ parent[leaf[fg]] \in Tasks
      BY <1>4 DEF halt, Exit, NOLEAF
    <2>. QED  BY <1>0, <1>1, <2>1 DEF NothingDrawn, me, get_term_buffer
  <1>5. ASSUME NEW c \in Pictures, draw(c) PROVE PictureInv'
    <2>1. /\ mem' = [mem EXCEPT ![VIDEO] = c] /\ picture' = [picture EXCEPT ![fg] = c]
          /\ leaf' = leaf /\ fg' = fg /\ leaf[fg] # 0 /\ wiped' = wiped
      BY <1>5, MeMapped DEF draw, vars, me
    <2>. QED  BY <1>0, <1>1, <2>1 DEF NothingDrawn, me, get_term_buffer
  <1>6. ASSUME NEW t \in Terms, NEW n \in Tasks, NEW lost \in BOOLEAN,
               terminal_switch_new(t, n, lost) PROVE PictureInv'
    <2>1. \A u \in Terms \ {fg, t} : SwitchedOut(lost)[u] = mem[u]
      BY <1>0 DEF SwitchedOut
    <2>2. ~lost => SwitchedOut(lost)[fg] = mem[VIDEO] /\ SwitchedOut(lost)[VIDEO] = BLANK
      BY <1>0 DEF SwitchedOut
    <2>. QED  BY <1>0, <1>1, <1>6, <2>1, <2>2, SwitchNewFacts
              DEF NothingDrawn, me, get_term_buffer, NOLEAF
  <1>7. ASSUME NEW t \in Terms, NEW lost \in BOOLEAN,
               terminal_switch_back(t, lost) PROVE PictureInv'
    <2>1. mem'[VIDEO] = mem[t] /\ \A u \in Terms \ {fg} : mem'[u] = mem[u]
      BY <1>0, <1>7, SwitchBackFacts DEF SwitchedOut
    <2>2. ~lost => mem'[fg] = mem[VIDEO]
      BY <1>0, <1>7, SwitchBackFacts DEF SwitchedOut
    <2>. QED  BY <1>0, <1>1, <1>7, <2>1, <2>2, SwitchBackFacts
              DEF NothingDrawn, me, get_term_buffer, NOLEAF
  <1>8. CASE evict \/ UNCHANGED screenvars
    <2>1. UNCHANGED <<mem, picture, leaf, fg, wiped>>
      BY <1>8 DEF evict, screenvars, vars
    <2>. QED  BY <1>1, <2>1 DEF NothingDrawn, me
  <1>. QED  BY <1>2, <1>3, <1>4, <1>5, <1>6, <1>7, <1>8 DEF ScreenNext

(* No switch loses or mixes up a picture, for any number of slots,         *)
(* terminals and pictures, but those of the terminals left by a switch in  *)
(* which the TLB lost the entry that clear() at terminal.c:173 leans on.   *)
THEOREM PictureCorrect == ScreenSpec => []PictureKeptUnlessWiped
  <1>1. ScreenInit => PictureInv
    BY FrameFacts DEF ScreenInit, Init, PictureInv, PictureTypeOK,
         PictureKeptUnlessWiped, Kept, NothingDrawn, NOLEAF
  <1>2. TypeOK /\ Forest /\ MapInv /\ PictureInv /\ [ScreenNext]_screenvars => PictureInv'
    BY PictureStep
  <1>3. PictureInv => PictureKeptUnlessWiped
    BY DEF PictureInv
  <1>. QED  BY <1>1, <1>2, <1>3, MapInvariant, PTL DEF ScreenSpec
=============================================================================
