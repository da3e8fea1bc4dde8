----------------------------- MODULE Interrupts -----------------------------
(***************************************************************************)
(* The two 8259 interrupt controllers and the interrupt handlers (i8259.c, *)
(* the irq wrappers of idt_linkage.S) around the RTC driver: what Rtc      *)
(* takes for granted, that ticks and terminal switches arrive, goes        *)
(* through masks, requests, in-service bits and EOIs here.                 *)
(*                                                                         *)
(* Lines 0 to 7 are those of the master, 8 to 15 those of the slave, which *)
(* is wired to line 2.  The gates of the interrupts turn interrupts off:   *)
(* handlers do not nest.  irq0 and with it switch_task is left out: with   *)
(* line 0 masked it never comes into service (PicTypeOK).  disable_irq has *)
(* no caller.                                                              *)
(***************************************************************************)
EXTENDS Rtc

Lines == 0 .. 15
PLAIN == "plain"        \* a key that is not Alt-Fn
NONE == "none"
Keys == {PLAIN} \cup Programs   \* Alt-Fn is named by the program it shows

VARIABLES imr,          \* the masked lines
          irr,          \* the lines with a request
          isr,          \* the lines in service
          cpu,          \* "boot", "run", or in irq_handler: "handler", "eoi"
          line,         \* irq_num of irq_handler
          kbd,          \* the scancode at KYBD_ADDR, or NONE
          regC          \* the chip has an interrupt that register C still shows

pic == <<imr, irr, isr>>
devices == <<kbd, regC>>
allvars == <<vars, pic, cpu, line, devices>>

-----------------------------------------------------------------------------
(* i8259.c                                                                 *)

i8259_init == Lines     \* both masks are 0xFF

enable_irq_alone(mask, n) == mask \ {n}     \* mutant: without the cascade line
enable_irq_all(mask, n) == {}               \* mutant: value = 0
enable_irq(mask, n) == IF n < 8 THEN mask \ {n} ELSE mask \ {2, n}

(* A specific EOI; for a line of the slave the master gets one as well.    *)
send_eoi(s, n) == IF n < 8 THEN s \ {n} ELSE s \ {2, n}

(* What the controllers do: line n has a request that is not masked, no    *)
(* line of the same or a higher priority is in service, and no request     *)
(* beats it.  The slave counts as line 2 of the master.                    *)
Pin(n) == IF n < 8 THEN n ELSE 2
Open(n) ==
    /\ n \in irr \ imr
    /\ Pin(n) \notin imr
    /\ \A m \in isr : m < 8 => Pin(n) < m
    /\ \A m \in isr : n >= 8 /\ m >= 8 => n < m
Beats(m, n) == Pin(m) < Pin(n) \/ (Pin(m) = Pin(n) /\ m < n)
Wins(n) == Open(n) /\ \A m \in Lines : Open(m) => ~Beats(m, n)

-----------------------------------------------------------------------------

SystemInit ==
    /\ Init
    /\ imr = i8259_init
    /\ irr = {} /\ isr = {}
    /\ cpu = "boot" /\ line = 0
    /\ kbd = NONE
    /\ regC = FALSE

(* kernel.c: the keyboard and the rtc are enabled, the PIT is set up and   *)
(* not enabled, and the first shell starts with interrupts on.             *)
entry ==
    /\ cpu = "boot"
    /\ imr' = enable_irq(enable_irq(imr, 1), 8)
    /\ cpu' = "run"
    /\ UNCHANGED <<vars, irr, isr, line, devices>>

(* The devices.  The PIT runs (init_PIT) although nobody listens; the next *)
(* scancode comes long after the handler of the one before; the rtc is     *)
(* silent until register C is read.                                        *)
init_PIT ==
    /\ cpu # "boot"
    /\ 0 \notin irr
    /\ irr' = irr \cup {0}
    /\ UNCHANGED <<vars, imr, isr, cpu, line, devices>>

InHandler(n) == cpu \in {"handler", "eoi"} /\ line = n

key_edge(k) ==
    /\ cpu # "boot" /\ ~InHandler(1)
    /\ kbd = NONE
    /\ kbd' = k
    /\ irr' = irr \cup {1}
    /\ UNCHANGED <<vars, imr, isr, cpu, line, regC>>

rtc_edge ==
    /\ on /\ ~regC
    /\ regC' = TRUE
    /\ irr' = irr \cup {8}
    /\ UNCHANGED <<vars, imr, isr, cpu, line, kbd>>

(* The processor enters the wrapper of line n.                             *)
accept(n) ==
    /\ cpu = "run"
    /\ Wins(n)
    /\ irr' = irr \ {n}
    /\ isr' = isr \cup {n, Pin(n)}
    /\ cpu' = "handler"
    /\ line' = n
    /\ UNCHANGED <<vars, imr, devices>>

(* irq1 with a key that leaves the terminal as it is.                      *)
irq1_key ==
    /\ cpu = "handler" /\ line = 1
    /\ kbd \in {PLAIN, fg}
    /\ kbd' = NONE
    /\ cpu' = "eoi"
    /\ UNCHANGED <<vars, pic, line, regC>>

(* irq1 with Alt-Fn for another terminal.  terminal_switch never returns   *)
(* to irq_handler: it sends the EOI itself and leaves through the first    *)
(* shell or int_ret_helper.                                                *)
SwitchEoi_none(s) == s      \* mutant: left to the irq_handler that is never reached
SwitchEoi(s) == send_eoi(s, 1)

irq1_switch ==
    /\ cpu = "handler" /\ line = 1
    /\ kbd \in Programs \ {fg}
    /\ terminal_switch(kbd)
    /\ isr' = SwitchEoi(isr)
    /\ kbd' = NONE
    /\ cpu' = "run"
    /\ UNCHANGED <<imr, irr, line, regC>>

(* rtc_interrupt selects and reads register C.                             *)
AfterRead_kept == regC          \* mutant: register C is not read
AfterRead == FALSE

irq8 ==
    /\ cpu = "handler" /\ line = 8
    /\ rtc_interrupt
    /\ regC' = AfterRead
    /\ cpu' = "eoi"
    /\ UNCHANGED <<pic, line, kbd>>

(* The end of irq_handler.                                                 *)
irq_handler ==
    /\ cpu = "eoi"
    /\ isr' = send_eoi(isr, line)
    /\ cpu' = "run"
    /\ UNCHANGED <<vars, imr, irr, line, devices>>

(* Programs and their rtc calls, as in Rtc.                                *)
ReadStep == cpu = "run" /\ (read_test \/ read_clear) /\ UNCHANGED <<pic, cpu, line, devices>>

ProgramStep ==
    /\ cpu = "run"
    /\ open_rtc \/ (\E n \in NBytes : write_rtc(n)) \/ read_begin
    /\ UNCHANGED <<pic, cpu, line, devices>>

HandlerStep == irq1_key \/ irq1_switch \/ irq8 \/ irq_handler

SystemNext ==
    \/ entry
    \/ init_PIT \/ (\E k \in Keys : key_edge(k)) \/ rtc_edge
    \/ \E n \in Lines : accept(n)
    \/ HandlerStep
    \/ ReadStep \/ ProgramStep

(* Handlers run to their end.  A request that is open again and again is   *)
(* taken: a key may go before a tick, but there are pauses between keys.   *)
(* The chip ticks several times a second and handlers are short, so that a *)
(* program that is on the screen again and again is there for some of the  *)
(* ticks and their interrupts, with no key pending; and the processor does *)
(* not stop.                                                               *)
Quiet(p) == fg = p /\ cpu = "run" /\ 1 \notin irr

SystemFairness ==
    /\ WF_allvars(HandlerStep)
    /\ SF_allvars(accept(1))
    /\ \A p \in Programs : /\ SF_allvars(Quiet(p) /\ rtc_edge)
                          /\ SF_allvars(Quiet(p) /\ accept(8))
                          /\ SF_allvars(fg = p /\ ReadStep)

SystemSpec == SystemInit /\ [][SystemNext]_allvars /\ SystemFairness

-----------------------------------------------------------------------------

(* Only lines that are enabled come into service: no handler that is       *)
(* missing in irq_functions is ever looked up.                             *)
PicTypeOK ==
    /\ TypeOK
    /\ imr \subseteq Lines
    /\ irr \subseteq {0, 1, 8} /\ isr \subseteq {1, 2, 8}
    /\ cpu \in {"boot", "run", "handler", "eoi"}
    /\ line \in {0, 1, 8}
    /\ kbd \in Keys \cup {NONE}
    /\ regC \in BOOLEAN

(* Every way out of a handler has acknowledged its interrupt at both       *)
(* controllers and no other: a line left in service would silence itself   *)
(* and every line of lower priority for good.                              *)
Acknowledged ==
    isr = IF cpu \in {"boot", "run"} THEN {} ELSE {line, Pin(line)}

(* Every key press and every tick reaches its handler.                     *)
Delivered == \A n \in {1, 8} : n \in irr ~> n \in isr
=============================================================================
