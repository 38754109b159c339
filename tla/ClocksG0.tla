------------------------------ MODULE ClocksG0 ------------------------------
(***************************************************************************)
(* The clock settings of the STM32G0 (impl/stm32g0_old/clocks.h) and       *)
(* ConfigurePowerAndClocks.                                                *)
(***************************************************************************)
EXTENDS Stm32Rcc

G0Hsi == 16 * MHz

(* PllSettings::Output divides first. *)
G0Output(src, pll, div) == (((src \div pll.m) * pll.n) % Wrap) \div div

G0Default ==
    [hse |-> 8 * MHz, pllSource |-> "hsi", hsiPre |-> 1, sysclk |-> "hsi",
     pll1 |-> [enable |-> TRUE, m |-> 1, n |-> 8, p |-> 4, q |-> 2, r |-> 2],
     pre |-> NoPrescaler, cortex |-> 1]

(* Mutant: the divider of the HSI forgotten. *)
G0UnscaledHsi == G0Hsi

G0ScaledHsi == G0Hsi \div cs.hsiPre
G0PllSource == IF cs.pllSource = "hsi" THEN G0Hsi ELSE cs.hse

G0SysClk ==
    CASE cs.sysclk = "hsi" -> G0ScaledHsi
      [] cs.sysclk = "hse" -> cs.hse
      [] cs.sysclk = "lsi" -> 32 * kHz
      [] cs.sysclk = "lse" -> 512
      [] cs.sysclk = "pll" -> G0Output(G0PllSource, cs.pll1, cs.pll1.r)

G0Bus(b) ==
    (G0SysClk \div cs.pre["ahb"]) \div (IF b = "apb1" THEN cs.pre["apb1"] ELSE 1)
G0Timer == G0Bus("apb1") * (IF cs.pre["apb1"] = 1 THEN 1 ELSE 2)

G0SystemValid ==
    /\ cs.pre["ahb"] \in AhbPrescalers
    /\ cs.pre["apb1"] \in ApbPrescalers
    /\ cs.cortex \in {1, 8}
    /\ \A b \in {"ahb", "apb1"} : G0Bus(b) <= 64 * MHz

G0Validate == cs.hsiPre \in {1, 2, 4, 8, 16, 64, 128} /\ G0SystemValid

(* GetPllM and GetPllRDiv: a divider less one, in three bits. *)
G0Field3(div) == (div - 1) % 8
G0Pll == [cs.pll1 EXCEPT !.m = G0Field3(@) + 1, !.r = G0Field3(@) + 1]

(* FindPrescalerValue: the first divider with the smallest error. *)
G0SpiPrescalers == {2, 4, 8, 16, 32, 64, 128, 256}
G0FindPrescalerValue(baud) ==
    LET err(p) == Distance(G0Bus("apb1") \div p, baud)
    IN CHOOSE p \in G0SpiPrescalers :
         \A q \in G0SpiPrescalers : err(p) < err(q) \/ (err(p) = err(q) /\ p <= q)

(* Mutant: a table that is one step off. *)
G0FlashLatencyLate(hclk) ==
    IF hclk <= 32 * MHz THEN 0 ELSE IF hclk <= 48 * MHz THEN 1 ELSE 2

(* GetFlashLatency in voltage range 1. *)
G0FlashLatency(hclk) ==
    IF hclk <= 24 * MHz THEN 0 ELSE IF hclk <= 48 * MHz THEN 1 ELSE 2

(* The values of GetAhbDivider and GetApbDivider stand for the dividers    *)
(* they are named for.                                                     *)
G0Prescalers == [b \in Buses |-> IF b \in {"ahb", "apb1"} THEN cs.pre[b] ELSE 1]

(* ConfigurePowerAndClocks: HAL_RCC_DeInit first, then the HSI alone is    *)
(* started.  Its divider is on the way to the system clock, not to the PLL.*)
G0OscConfig ==
    /\ step = "osc"
    /\ LET pll == IF cs.pll1.enable THEN G0Pll ELSE NoPll
       IN HalOscConfig(G0Hsi \div cs.hsiPre, G0Hsi, cs.pllSource, pll, 0, "clk")

G0ClockConfig ==
    /\ step = "clk"
    /\ HalClockConfig(cs.sysclk, G0Prescalers, G0FlashLatency(G0Bus("ahb")), "done")

G0Clocks == G0OscConfig \/ G0ClockConfig
=============================================================================
