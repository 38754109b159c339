------------------------------ MODULE Stm32Rcc ------------------------------
(***************************************************************************)
(* The reset and clock controller as the clock code of the four STM32      *)
(* families uses it: what the vendor's HAL does with a request, and how    *)
(* fast each clock then really runs.  Frequencies are counted in units of  *)
(* 64 Hz, so that every oscillator of the code is a whole number and the   *)
(* 32-bit count of hertz the code computes with wraps at a whole number.   *)
(***************************************************************************)
EXTENDS Naturals

VARIABLES cs,      \* the clock settings the program is built with
          rcc,     \* the clock hardware
          step     \* how far the configuring function has come

MHz == 15625
kHz == 16
Wrap == 2^26       \* 2^32 Hz: hertz is Freq<uint32_t, ...>
Distance(a, b) == IF a > b THEN a - b ELSE b - a

Oscillators == {"hsi", "csi", "hse", "lsi", "lse"}
Buses == {"core", "ahb", "apb1", "apb2", "apb3", "apb4"}
ApbBuses == {"apb1", "apb2", "apb3", "apb4"}
SpiGroups == {"spi123", "spi45", "spi6"}
AhbPrescalers == {1, 2, 4, 8, 16, 64, 128, 256, 512}
ApbPrescalers == {1, 2, 4, 8, 16}
NoPrescaler == [b \in Buses |-> 1]
NoPll == [enable |-> FALSE, m |-> 1, n |-> 1, p |-> 1, q |-> 1, r |-> 1]

(* The controller after a reset: everything on the internal oscillator;    *)
(* hsiPll is what a PLL sees of it.                                        *)
ResetRcc(hsi) ==
    [on |-> {"hsi"}, hsi |-> hsi, hsiPll |-> hsi, pllSource |-> "hsi",
     pll |-> <<NoPll, NoPll>>, vci |-> 0, sysclk |-> "hsi",
     pre |-> NoPrescaler, ws |-> 0, i2c |-> "pclk1",
     spi |-> [spi123 |-> "pll1q", spi45 |-> "pclk2", spi6 |-> "pclk4"]]

(* What an oscillator delivers; one that was never started delivers 0.     *)
OscFrequency(osc) ==
    CASE osc \notin rcc.on -> 0
      [] osc = "hsi" -> rcc.hsi
      [] osc = "csi" -> 4 * MHz
      [] osc = "hse" -> cs.hse
      [] osc = "lsi" -> 32 * kHz
      [] osc = "lse" -> 512

(* What an output of a PLL delivers: the hardware divides its input first  *)
(* and does not wrap.                                                      *)
PllFrequency(i, div) ==
    LET pll == rcc.pll[i]
        src == IF rcc.pllSource = "hsi" THEN rcc.hsiPll
               ELSE OscFrequency(rcc.pllSource)
    IN IF pll.enable THEN (src * pll.n) \div (pll.m * div) ELSE 0

(* The clock of a bus; "out" is the PLL output that feeds the system.      *)
BusFrequency(out, bus) ==
    LET sys  == IF rcc.sysclk = "pll" THEN PllFrequency(1, rcc.pll[1][out])
                ELSE OscFrequency(rcc.sysclk)
        core == sys \div rcc.pre["core"]
        ahb  == core \div rcc.pre["ahb"]
    IN CASE bus = "core" -> core
         [] bus = "ahb" -> ahb
         [] bus \in ApbBuses -> ahb \div rcc.pre[bus]

(* Timers run at twice a divided bus. *)
TimerFrequency(out, bus) ==
    BusFrequency(out, bus) * (IF rcc.pre[bus] = 1 THEN 1 ELSE 2)

(* HAL_RCC_OscConfig with the HSI as the only oscillator named.  The PLL   *)
(* locks only on an oscillator that runs; otherwise, or on any other       *)
(* time-out, the call fails and leaves the PLL off.                        *)
HalOscConfig(hsi, hsiPll, source, pll, range, next) ==
    LET osc == [rcc EXCEPT !.hsi = hsi, !.hsiPll = hsiPll,
                           !.pllSource = IF pll.enable THEN source ELSE @]
    IN \/ /\ pll.enable => source \in rcc.on
          /\ rcc' = [osc EXCEPT !.pll[1] = pll, !.vci = range]
          /\ step' = next
       \/ rcc' = osc /\ step' = "failed"

(* HAL_RCC_ClockConfig: refuses a system clock that is not ready.          *)
HalClockConfig(source, pre, ws, next) ==
    \/ /\ IF source = "pll" THEN rcc.pll[1].enable ELSE source \in rcc.on
       /\ rcc' = [rcc EXCEPT !.sysclk = source, !.pre = pre, !.ws = ws]
       /\ step' = next
    \/ rcc' = rcc /\ step' = "failed"
=============================================================================
