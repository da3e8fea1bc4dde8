-------------------------- MODULE InterruptsProofs --------------------------
(***************************************************************************)
(* The RTC driver under the interrupt controllers, for any set of programs *)
(* and any lengths they pass to write.                                     *)
(***************************************************************************)
EXTENDS Interrupts, TLAPS

-----------------------------------------------------------------------------
(* The frequency arithmetic of rtc_write.                                  *)

Exp2(k) == 2 ^ k

LEMMA Powers ==
    /\ Exp2(0) = 1 /\ Exp2(1) = 2 /\ Exp2(2) = 4 /\ Exp2(3) = 8
    /\ Exp2(4) = 16 /\ Exp2(5) = 32 /\ Exp2(6) = 64 /\ Exp2(7) = 128
    /\ Exp2(8) = 256 /\ Exp2(9) = 512 /\ Exp2(10) = 1024 /\ Exp2(11) = 2048
    /\ Exp2(12) = 4096 /\ Exp2(13) = 8192 /\ Exp2(14) = 16384 /\ Exp2(15) = 32768
    /\ Exp2(16) = 65536 /\ Exp2(17) = 131072 /\ Exp2(18) = 262144 /\ Exp2(19) = 524288
    /\ Exp2(20) = 1048576 /\ Exp2(21) = 2097152 /\ Exp2(22) = 4194304 /\ Exp2(23) = 8388608
    /\ Exp2(24) = 16777216 /\ Exp2(25) = 33554432 /\ Exp2(26) = 67108864 /\ Exp2(27) = 134217728
    /\ Exp2(28) = 268435456 /\ Exp2(29) = 536870912 /\ Exp2(30) = 1073741824
  BY DEF Exp2

(* The loop of rtc_write accepts 1, 2, 4, ... 1024 only.                   *)
LEMMA AcceptedFrequencies ==
    ASSUME NEW f, Accepted(f)
    PROVE  \E k \in 0 .. 10 : f = Exp2(k)
  <1>1. PICK k \in 0 .. 30 : f = Exp2(k)
    BY DEF Accepted, Exp2
  <1>2. k <= 10
    BY <1>1, Powers DEF Accepted
  <1>. QED  BY <1>1, <1>2

LEMMA DividerFor ==
    ASSUME NEW f, Accepted(f)
    PROVE  Divider(f) \in 5 .. 15 /\ f = Exp2(15 - Divider(f))
  <1>. DEFINE d == Divider(f)
  <1>1. PICK k \in 0 .. 10 : f = Exp2(k)
    BY AcceptedFrequencies
  <1>2. 15 - k \in 0 .. 15 /\ 15 - (15 - k) = k
    OBVIOUS
  <1>3. \E e \in 0 .. 15 : f = Exp2(15 - e)
    BY <1>1, <1>2
  <1>4. d \in 0 .. 15 /\ f = Exp2(15 - d)
    BY <1>3 DEF Divider, Exp2
  <1>. HIDE DEF d
  <1>5. f <= 1024
    BY DEF Accepted
  <1>6. 15 - d <= 10
    BY <1>4, <1>5, Powers
  <1>. QED  BY <1>4, <1>6 DEF d

LEMMA HertzOfDivider ==
    ASSUME NEW d \in 5 .. 15
    PROVE  Hertz(d - 1) = 4 * Exp2(15 - d)
  <1>1. d - 1 - 1 = d - 2
    OBVIOUS
  <1>2. Hertz(d - 1) = 32768 \div Exp2(d - 2)
    BY <1>1 DEF Exp2, Hertz
  <1>3. d \in {5, 6, 7, 8, 9, 10, 11, 12, 13, 14, 15}
    OBVIOUS
  <1>. QED  BY <1>2, <1>3, Powers

-----------------------------------------------------------------------------
(* Rtc.                                                                    *)

(* The register holds a divider the chip implements, and the chip ticks    *)
(* four times as often as rtc_write was asked for.                         *)
QuadrupleRate == on => rate \in 3 .. 15 /\ Hertz(rate) = 4 * freq

RateInv == TypeOK /\ QuadrupleRate

LEMMA WriteRate ==
    ASSUME RateInv, NEW f \in Int, rtc_write(f)
    PROVE  rate' \in 0 .. 15 /\ on' \in BOOLEAN /\ freq' \in Int /\ QuadrupleRate'
  <1>1. CASE Accepted(f)
    <2>. DEFINE d == Divider(f)
    <2>1. d \in 5 .. 15 /\ f = Exp2(15 - d)
      BY <1>1, DividerFor
    <2>2. rate' = d - 1 /\ on' = TRUE /\ freq' = f
      BY <1>1 DEF rtc_write
    <2>. HIDE DEF d
    <2>3. Hertz(rate') = 4 * f
      BY <2>1, <2>2, HertzOfDivider
    <2>. QED  BY <2>1, <2>2, <2>3 DEF QuadrupleRate
  <1>2. CASE ~Accepted(f)
    BY <1>2 DEF rtc_write, RateInv, TypeOK, QuadrupleRate
  <1>. QED  BY <1>1, <1>2

LEMMA RateInit == Init => RateInv
  <1>. SUFFICES ASSUME Init PROVE RateInv
    OBVIOUS
  <1>1. on = FALSE
    BY DEF Init
  <1>2. TypeOK
    <2>1. on \in BOOLEAN
      BY <1>1, Zenon
    <2>. QED  BY <2>1 DEF Init, TypeOK
  <1>3. QuadrupleRate
    BY <1>1, Zenon DEF QuadrupleRate
  <1>. QED  BY <1>2, <1>3 DEF RateInv

LEMMA RateInductive == RateInv /\ [Next]_vars => RateInv'
  <1>. SUFFICES ASSUME RateInv, [Next]_vars PROVE RateInv'
    OBVIOUS
  <1>. USE DEF RateInv, TypeOK, vars, ghosts
  <1>1. CASE open_rtc
    BY <1>1, WriteRate DEF open_rtc
  <1>2. ASSUME NEW n \in NBytes, write_rtc(n) PROVE RateInv'
    BY <1>2, WriteRate, NBytesAssumption DEF write_rtc
  <1>3. CASE read_begin
    BY <1>3 DEF read_begin, QuadrupleRate
  <1>4. CASE read_test
    BY <1>4 DEF read_test, QuadrupleRate
  <1>5. CASE read_clear
    BY <1>5 DEF read_clear, Cleared, QuadrupleRate
  <1>6. CASE rtc_interrupt
    BY <1>6 DEF rtc_interrupt, Raised, QuadrupleRate
  <1>7. CASE \E p \in Programs : terminal_switch(p)
    BY <1>7 DEF terminal_switch, QuadrupleRate
  <1>8. CASE UNCHANGED vars
    BY <1>8 DEF QuadrupleRate
  <1>. QED  BY <1>1, <1>2, <1>3, <1>4, <1>5, <1>6, <1>7, <1>8 DEF Next

(* A set flag is a tick that no program has returned on, and a program     *)
(* that has left the loop has its tick until it returns, whoever clears    *)
(* the flag meanwhile.                                                     *)
TickInv ==
    /\ fg \in Programs
    /\ pc \in [Programs -> {"user", "test", "clear"}]
    /\ flag = 1 => ticked = Programs
    /\ \A p \in Programs : pc[p] = "clear" => p \in ticked

LEMMA TickInductive == TickInv /\ [Next]_vars => TickInv'
  <1>. SUFFICES ASSUME TickInv, [Next]_vars PROVE TickInv'
    OBVIOUS
  <1>. USE DEF TickInv, vars, ghosts
  <1>1. CASE open_rtc
    BY <1>1 DEF open_rtc
  <1>2. CASE \E n \in NBytes : write_rtc(n)
    BY <1>2 DEF write_rtc
  <1>3. CASE read_begin
    BY <1>3 DEF read_begin
  <1>4. CASE read_test
    BY <1>4 DEF read_test, Ready
  <1>5. CASE read_clear
    BY <1>5 DEF read_clear, Cleared
  <1>6. CASE rtc_interrupt
    BY <1>6 DEF rtc_interrupt, Raised
  <1>7. CASE \E p \in Programs : terminal_switch(p)
    BY <1>7 DEF terminal_switch
  <1>8. CASE UNCHANGED vars
    BY <1>8
  <1>. QED  BY <1>1, <1>2, <1>3, <1>4, <1>5, <1>6, <1>7, <1>8 DEF Next

(* rtc_read never gives one interrupt to the same program twice, for any   *)
(* number of programs that share rtc_interrupt_flag.                       *)
THEOREM OneTickPerReturnCorrect == Spec => OneTickPerReturn
  <1>1. Init => TickInv
    BY DEF Init, TickInv
  <1>2. TickInv => [\A p \in Programs : Returns(p) => p \in ticked]_vars
    BY DEF TickInv, Returns
  <1>. QED  BY <1>1, <1>2, TickInductive, PTL DEF Spec, OneTickPerReturn

(* Every frequency that rtc_write accepts leaves the chip at a divider it  *)
(* implements and at four times that frequency, whatever lengths the       *)
(* programs pass to write.                                                 *)
THEOREM QuadrupleRateCorrect == Spec => []QuadrupleRate
  <1>1. Init => RateInv
    BY RateInit
  <1>2. RateInv => QuadrupleRate
    BY DEF RateInv
  <1>. QED  BY <1>1, <1>2, RateInductive, PTL DEF Spec

-----------------------------------------------------------------------------
(* Interrupts: what Rtc takes for granted.                                 *)

LEMMA SystemStep == [SystemNext]_allvars => [Next]_vars
  <1>. SUFFICES ASSUME [SystemNext]_allvars PROVE [Next]_vars
    OBVIOUS
  <1>1. CASE entry \/ init_PIT \/ (\E k \in Keys : key_edge(k)) \/ rtc_edge
    BY <1>1 DEF entry, init_PIT, key_edge, rtc_edge
  <1>2. CASE \E n \in Lines : accept(n)
    BY <1>2 DEF accept
  <1>3. CASE HandlerStep
    BY <1>3 DEF HandlerStep, irq1_key, irq1_switch, irq8, irq_handler, Next
  <1>4. CASE ReadStep \/ ProgramStep
    BY <1>4 DEF ReadStep, ProgramStep, Next
  <1>5. CASE UNCHANGED allvars
    BY <1>5 DEF allvars
  <1>. QED  BY <1>1, <1>2, <1>3, <1>4, <1>5 DEF SystemNext

(* With masks, requests, in-service bits and EOIs, the system is still an  *)
(* Rtc: a tick is irq8's handler, a terminal switch is irq1's, and         *)
(* everything the controllers do is invisible to the driver.               *)
THEOREM InterruptsImplementRtc == SystemSpec => Spec
  <1>1. SystemInit => Init
    BY DEF SystemInit
  <1>. QED  BY <1>1, SystemStep, PTL DEF SystemSpec, Spec

(* The RTC results for the whole system: no program returns twice from     *)
(* rtc_read on one interrupt, and the chip runs at four times the rate.    *)
THEOREM SystemTicks == SystemSpec => OneTickPerReturn /\ []QuadrupleRate
  BY InterruptsImplementRtc, OneTickPerReturnCorrect, QuadrupleRateCorrect, PTL

(* Once the kernel runs, the keyboard, the cascade and the rtc are the     *)
(* lines that get through, and only the first and the last have handlers.  *)
MaskInv ==
    /\ imr = IF cpu = "boot" THEN Lines ELSE Lines \ {1, 2, 8}
    /\ cpu \in {"handler", "eoi"} => line \in {1, 8}

PicInv == PicTypeOK /\ QuadrupleRate /\ MaskInv /\ Acknowledged

LEMMA PicInductive == PicInv /\ [SystemNext]_allvars => PicInv'
  <1>. SUFFICES ASSUME PicInv, [SystemNext]_allvars PROVE PicInv'
    OBVIOUS
  <1>1. TypeOK' /\ QuadrupleRate'
    BY SystemStep, RateInductive DEF PicInv, PicTypeOK, RateInv
  <1>. SUFFICES /\ imr' \subseteq Lines
                /\ irr' \subseteq {0, 1, 8} /\ isr' \subseteq {1, 2, 8}
                /\ cpu' \in {"boot", "run", "handler", "eoi"}
                /\ line' \in {0, 1, 8}
                /\ kbd' \in Keys \cup {NONE}
                /\ regC' \in BOOLEAN
                /\ MaskInv' /\ Acknowledged'
    BY <1>1 DEF PicInv, PicTypeOK
  <1>. USE DEF PicInv, PicTypeOK, MaskInv, Acknowledged, Pin, pic, devices
  <1>2. CASE entry
    BY <1>2 DEF entry, enable_irq, Lines
  <1>3. CASE init_PIT
    BY <1>3 DEF init_PIT
  <1>4. ASSUME NEW k \in Keys, key_edge(k) PROVE PicInv'
    BY <1>1, <1>4 DEF key_edge
  <1>5. CASE rtc_edge
    BY <1>5 DEF rtc_edge
  <1>6. ASSUME NEW n \in Lines, accept(n) PROVE PicInv'
    <2>1. n \in {1, 8}
      BY <1>6 DEF accept, Wins, Open, Lines
    <2>. QED  BY <1>1, <1>6, <2>1 DEF accept
  <1>7. CASE HandlerStep
    BY <1>7 DEF HandlerStep, irq1_key, irq1_switch, irq8, irq_handler, SwitchEoi, send_eoi, AfterRead
  <1>8. CASE ReadStep \/ ProgramStep
    BY <1>8 DEF ReadStep, ProgramStep
  <1>9. CASE UNCHANGED allvars
    BY <1>9 DEF allvars
  <1>. QED  BY <1>2, <1>3, <1>4, <1>5, <1>6, <1>7, <1>8, <1>9 DEF SystemNext

LEMMA PicInit == SystemInit => PicInv
  <1>. SUFFICES ASSUME SystemInit PROVE PicInv
    OBVIOUS
  <1>1. RateInv
    BY RateInit DEF SystemInit
  <1>2. PicTypeOK
    BY <1>1 DEF SystemInit, PicTypeOK, RateInv, i8259_init, Lines, Keys
  <1>3. MaskInv /\ Acknowledged
    BY DEF SystemInit, MaskInv, Acknowledged, i8259_init
  <1>. QED  BY <1>1, <1>2, <1>3 DEF PicInv, RateInv

(* The controllers and the driver keep their types: no line without a      *)
(* handler is ever looked up in irq_functions.                             *)
THEOREM PicTypeCorrect == SystemSpec => []PicTypeOK
  <1>1. PicInv => PicTypeOK
    BY DEF PicInv
  <1>. QED  BY PicInit, PicInductive, <1>1, PTL DEF SystemSpec

(* Every way out of irq_handler, and the way out through terminal_switch,  *)
(* leaves no line in service.                                              *)
THEOREM AcknowledgedCorrect == SystemSpec => []Acknowledged
  <1>1. PicInv => Acknowledged
    BY DEF PicInv
  <1>. QED  BY PicInit, PicInductive, <1>1, PTL DEF SystemSpec
=============================================================================
