-------------------------------- MODULE Fish --------------------------------
(***************************************************************************)
(* The blinking characters of fish (blink.S, mp1_malloc and mp1_free of    *)
(* fish.c): a linked list of structs taken from blink_array, where a       *)
(* struct is free as long as its location is 0, walked once per RTC tick.  *)
(* on_char and off_char of a struct are the characters "on" and "off".     *)
(***************************************************************************)
EXTENDS Integers, FiniteSetsExt

CONSTANTS Slots,        \* the number of structs in blink_array: 80*25
          Places,       \* 80*25: valid locations are below
          Locations,    \* the locations passed to ioctl
          Lengths       \* the pairs of on_length and off_length

ShortMax == 32767       \* the largest word, signed and unsigned
UShortMax == 65535

ASSUME SlotsAssumption == Slots \in Nat
ASSUME PlacesAssumption == Places \in Nat \ {0}
(* add_frames starts at column 40, so that location 0 is never added.      *)
ASSUME LocationsAssumption == Locations \subseteq 1 .. UShortMax
(* The tasklet takes the words as signed ones; fish has lengths up to 15.  *)
ASSUME LengthsAssumption == Lengths \subseteq (0 .. ShortMax) \X (0 .. ShortMax)

VARIABLES blink,        \* blink_array without the next pointers
          next,         \* the next pointers
          head,         \* mp1_list_head
          screen,       \* what mp1_poke wrote last at each location
          age,          \* the ticks since a struct was added or changed its status
          pairs,        \* the structs that sync has put into step
          drawer        \* the struct that drew a cell last, unless sync did

ghosts == <<age, pairs, drawer>>
fishvars == <<blink, next, head, screen, ghosts>>

NULL == 0
Array == 1 .. Slots
Cells == 1 .. Places - 1
FREE == [location |-> 0, on_length |-> 0, off_length |-> 0, countdown |-> 0, status |-> 0]

(* main clears blink_array.                                                *)
FishInit ==
    /\ blink = [i \in Array |-> FREE]
    /\ next = [i \in Array |-> NULL]
    /\ head = NULL
    /\ screen = [c \in Cells |-> "blank"]
    /\ age = [i \in Array |-> 0]
    /\ pairs = {}
    /\ drawer = [c \in Cells |-> NULL]

(* A walk along the pointers p from h: the struct after k steps, NULL from *)
(* the end of the list on.                                                 *)
WalkFrom(h, p) ==
    LET at[k \in 0 .. Slots] == IF k = 0 THEN h
                               ELSE LET i == at[k - 1] IN IF i = NULL THEN NULL ELSE p[i]
    IN  at
Walk == WalkFrom(head, next)
Steps == LET w == Walk IN {k \in 0 .. Slots : w[k] # NULL}
List == LET w == Walk IN {w[k] : k \in Steps}
StepsTo(c) == LET w == Walk IN {k \in Steps : blink[w[k]].location = c}

(* mp1_find_helper: the first struct of the list at that location.         *)
mp1_find_helper(loc) == IF StepsTo(loc) = {} THEN NULL ELSE Walk[Min(StepsTo(loc))]

mp1_malloc ==
    LET unused == {i \in Array : blink[i].location = 0}
    IN  IF unused = {} THEN NULL ELSE Min(unused)

(* A failing ioctl changes nothing and is left out.                        *)
mp1_ioctl_add(loc, on, off) ==
    LET i == mp1_malloc
    IN  /\ loc < Places
        /\ i # NULL
        /\ blink' = [blink EXCEPT ![i] = [location |-> loc, on_length |-> on, off_length |-> off,
                                         countdown |-> on, status |-> 1]]
        /\ next' = [next EXCEPT ![i] = head]
        /\ head' = i
        /\ screen' = [screen EXCEPT ![loc] = "on"]
        /\ age' = [age EXCEPT ![i] = 0]
        /\ drawer' = [drawer EXCEPT ![loc] = i]
        /\ UNCHANGED pairs

Without(i) == {p \in pairs : i \notin {p[1], p[2]}}

(* The pointer that leads to i is set to the one behind i.                 *)
Unlinked_next(p, i) == p                \* mutant: only mp1_list_head is looked at
Unlinked(p, i) == [j \in Array |-> IF p[j] = i THEN p[i] ELSE p[j]]

(* mp1_free clears the whole struct.                                       *)
mp1_ioctl_remove(loc) ==
    LET i == mp1_find_helper(loc)
    IN  /\ i # NULL
        /\ head' = IF head = i THEN next[i] ELSE head
        /\ next' = [Unlinked(next, i) EXCEPT ![i] = NULL]
        /\ blink' = [blink EXCEPT ![i] = FREE]
        /\ pairs' = Without(i)
        /\ drawer' = [c \in Cells |-> IF drawer[c] = i THEN NULL ELSE drawer[c]]
        /\ UNCHANGED <<screen, age>>

(* What the struct b takes over from a.                                    *)
InStep_running(a, b) ==                 \* mutant: countdown is left as it is
    [b EXCEPT !.on_length = a.on_length, !.off_length = a.off_length, !.status = a.status]
InStep(a, b) == [a EXCEPT !.location = b.location]

(* cmovl after testb never moves: the cell shows off_char in both states.  *)
mp1_ioctl_sync(from, to) ==
    LET i == mp1_find_helper(from)
        j == mp1_find_helper(to)
    IN  /\ i # NULL /\ j # NULL
        /\ blink' = [blink EXCEPT ![j] = InStep(blink[i], blink[j])]
        /\ screen' = [screen EXCEPT ![to] = "off"]
        /\ age' = [age EXCEPT ![j] = age[i]]
        /\ pairs' = Without(j) \cup {<<i, j>>}
        /\ drawer' = [drawer EXCEPT ![to] = NULL]
        /\ UNCHANGED <<next, head>>

-----------------------------------------------------------------------------
(* mp1_rtc_tasklet, one walk along the list.                               *)

(* decw; jg on the signed word.                                            *)
Due_late(b) == b.countdown - 1 < 0      \* mutant: jge
Due(b) == b.countdown - 1 <= 0

Toggled(b) ==
    IF b.status = 1 THEN [b EXCEPT !.status = 0, !.countdown = b.off_length]
    ELSE [b EXCEPT !.status = 1, !.countdown = b.on_length]
Shown_kept(b) == IF b.status = 1 THEN "on" ELSE "off"   \* mutant: the character of the old status
Shown(b) == IF b.status = 1 THEN "off" ELSE "on"

(* Where the walk finds structs that are due at location c; the last one   *)
(* leaves its character there.                                             *)
DueAt(c) == LET w == Walk IN {k \in StepsTo(c) : Due(blink[w[k]])}
LastDue(c) == Walk[Max(DueAt(c))]

Ticked(b) == IF Due(b) THEN Toggled(b) ELSE [b EXCEPT !.countdown = @ - 1]

mp1_rtc_tasklet ==
    /\ blink' = LET list == List IN [i \in Array |-> IF i \in list THEN Ticked(blink[i]) ELSE blink[i]]
    /\ screen' = [c \in Cells |-> IF DueAt(c) = {} THEN screen[c] ELSE Shown(blink[LastDue(c)])]
    /\ age' = LET list == List IN [i \in Array |-> IF i \notin list \/ Due(blink[i]) THEN 0 ELSE age[i] + 1]
    /\ drawer' = [c \in Cells |-> IF DueAt(c) = {} THEN drawer[c] ELSE LastDue(c)]
    /\ UNCHANGED <<next, head, pairs>>

FishNext ==
    \/ \E loc \in Locations, len \in Lengths : mp1_ioctl_add(loc, len[1], len[2])
    \/ \E loc \in Locations : mp1_ioctl_remove(loc)
    \/ \E from, to \in Locations : mp1_ioctl_sync(from, to)
    \/ mp1_rtc_tasklet

FishSpec == FishInit /\ [][FishNext]_fishvars

-----------------------------------------------------------------------------

(* After any sequence of adds and removes the list holds exactly the       *)
(* structs in use, each once: nothing is lost, nothing is freed while it   *)
(* is linked, and every walk ends.                                         *)
ListSound ==
    /\ List = {i \in Array : blink[i].location # 0}
    /\ \A j, k \in Steps : Walk[j] = Walk[k] => j = k
    /\ Walk[Slots] = NULL

(* A phase of a struct lasts on_length or off_length ticks, and one tick   *)
(* at least, across any number of phases.                                  *)
Phase(b) == IF b.status = 1 THEN b.on_length ELSE b.off_length
PhaseLasts ==
    \A i \in List : /\ blink[i].countdown = Phase(blink[i]) - age[i]
                    /\ age[i] < Max({1, Phase(blink[i])})

(* A cell shows the character for the status of the struct that drew it    *)
(* last, through any number of ticks, shared locations and removals.       *)
CellShows ==
    \A c \in Cells : drawer[c] # NULL =>
        screen[c] = IF blink[drawer[c]].status = 1 THEN "on" ELSE "off"

(* Two structs that sync has put into step change their status at the same *)
(* ticks from then on.                                                     *)
InPhase ==
    \A p \in pairs : /\ blink[p[1]].status = blink[p[2]].status
                     /\ blink[p[1]].countdown = blink[p[2]].countdown
=============================================================================
