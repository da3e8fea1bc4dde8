-------------------------------- MODULE Rtc --------------------------------
(***************************************************************************)
(* The RTC driver (rtc.c): one flag between the interrupt handler and the  *)
(* rtc_read calls of all programs, and the divider that rtc_write puts     *)
(* into register A.  One program per terminal; the program on the screen   *)
(* runs, and a terminal switch may come between any two of its steps, with *)
(* the keyboard interrupt as the only thing that changes fg.               *)
(***************************************************************************)
EXTENDS Integers

CONSTANTS Programs,     \* the programs that have the rtc open
          NBytes        \* the lengths they pass to write

ASSUME NBytesAssumption == NBytes \subseteq Int

VARIABLES flag,         \* rtc_interrupt_flag
          rate,         \* the low 4 bits of register A
          on,           \* periodic interrupts enabled (bit 6 of register B)
          fg,           \* the program on the screen
          pc,           \* "user", "test" (the while loop) or "clear" in rtc_read
          freq,         \* the argument of the last rtc_write that succeeded
          fresh,        \* the programs that saw a tick since they called rtc_read
          ticked        \* the programs that saw a tick since they last returned

ghosts == <<fresh, ticked>>
vars == <<flag, rate, on, fg, pc, freq, ghosts>>

-----------------------------------------------------------------------------
(* The loop of rtc_write: mask runs over 1, 2, 4, ... while divd counts    *)
(* down from 15, and register A gets divd - 1.                             *)
Divider(f) == CHOOSE d \in 0 .. 15 : f = 2 ^ (15 - d)

(* 1 <= freq <= 1024 and the loop stops at mask = freq; 2^31 is no int32_t. *)
Accepted(f) == f > 0 /\ f <= 1024 /\ \E k \in 0 .. 30 : f = 2 ^ k

(* The periodic rate of the chip for a register A value of 3 or more.      *)
Hertz(r) == 32768 \div 2 ^ (r - 1)

Init ==
    /\ flag = 0
    /\ rate = 6             \* the BIOS default, 1024 Hz
    /\ on = FALSE
    /\ fg \in Programs
    /\ pc = [p \in Programs |-> "user"]
    /\ freq = 0
    /\ fresh = {} /\ ticked = {}

(* rtc_write(fd, buf, f) with interrupts off; buf is not looked at.        *)
rtc_write(f) ==
    \/ /\ Accepted(f)
       /\ rate' = Divider(f) - 1
       /\ on' = TRUE
       /\ freq' = f
    \/ /\ ~Accepted(f)
       /\ UNCHANGED <<rate, on, freq>>

(* open("rtc"): rtc_open calls rtc_write(0, NULL, 2).                      *)
open_rtc ==
    /\ pc[fg] = "user"
    /\ rtc_write(2)
    /\ UNCHANGED <<flag, fg, pc, ghosts>>

(* write(fd, buf, n): the dispatcher passes the length on as the frequency. *)
write_rtc(n) ==
    /\ pc[fg] = "user"
    /\ on
    /\ rtc_write(n)
    /\ UNCHANGED <<flag, fg, pc, ghosts>>

(* rtc_read is called.                                                     *)
read_begin ==
    /\ pc[fg] = "user"
    /\ on
    /\ pc' = [pc EXCEPT ![fg] = "test"]
    /\ fresh' = fresh \ {fg}
    /\ UNCHANGED <<flag, rate, on, fg, freq, ticked>>

(* while (!rtc_interrupt_flag);                                            *)
Ready == flag = 1

read_test ==
    /\ pc[fg] = "test"
    /\ Ready
    /\ pc' = [pc EXCEPT ![fg] = "clear"]
    /\ UNCHANGED <<flag, rate, on, fg, freq, ghosts>>

(* rtc_interrupt_flag = 0; return 0                                        *)
Cleared_kept == flag                    \* mutant: the flag stays set
Cleared == 0

read_clear ==
    /\ pc[fg] = "clear"
    /\ flag' = Cleared
    /\ pc' = [pc EXCEPT ![fg] = "user"]
    /\ ticked' = ticked \ {fg}
    /\ UNCHANGED <<rate, on, fg, freq, fresh>>

(* irq 8: register C is read, so that the chip interrupts again.           *)
Raised == 1

rtc_interrupt ==
    /\ on
    /\ flag' = Raised
    /\ fresh' = Programs
    /\ ticked' = Programs
    /\ UNCHANGED <<rate, on, fg, pc, freq>>

terminal_switch(p) ==
    /\ fg' = p
    /\ UNCHANGED <<flag, rate, on, pc, freq, ghosts>>

Next ==
    \/ open_rtc
    \/ \E n \in NBytes : write_rtc(n)
    \/ read_begin \/ read_test \/ read_clear
    \/ rtc_interrupt
    \/ \E p \in Programs : terminal_switch(p)

Spec == Init /\ [][Next]_vars

-----------------------------------------------------------------------------

TypeOK ==
    /\ flag \in {0, 1}
    /\ rate \in 0 .. 15
    /\ on \in BOOLEAN
    /\ fg \in Programs
    /\ pc \in [Programs -> {"user", "test", "clear"}]
    /\ freq \in Int
    /\ fresh \subseteq Programs
    /\ ticked \subseteq Programs

Returns(p) == pc[p] = "clear" /\ pc'[p] = "user"

(* No program returns twice from rtc_read on one interrupt, however the    *)
(* programs of the other terminals take and clear the shared flag.         *)
OneTickPerReturn == [][\A p \in Programs : Returns(p) => p \in ticked]_vars

(* A program that waits for the rtc and is on the screen again and again   *)
(* gets out of rtc_read.                                                   *)
ReadReturns ==
    \A p \in Programs : []<>(fg = p) => (pc[p] # "user" ~> pc[p] = "user")

(* rtc_read returns after an interrupt that came while it was waiting.     *)
WaitsForNextTick == [][\A p \in Programs : Returns(p) => p \in fresh]_vars
=============================================================================
