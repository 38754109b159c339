------------------------------ MODULE ClocksH5 ------------------------------
(***************************************************************************)
(* The clock settings of the STM32H5 (impl/stm32h5_old/clocks.h) and       *)
(* ConfigurePowerAndClocks.                                                *)
(***************************************************************************)
EXTENDS Stm32Rcc

H5Hsi == 64 * MHz

(* PllSettings divides first. *)
H5PllInput(src, pll) == src \div pll.m
H5PllOutput(src, pll) == (H5PllInput(src, pll) * pll.n) % Wrap
H5Output(src, pll, div) == H5PllOutput(src, pll) \div div

H5Default ==
    [hse |-> 25 * MHz, pllSource |-> "hsi", sysclk |-> "pll",
     pll1 |-> [enable |-> TRUE, m |-> 16, n |-> 125, p |-> 2, q |-> 2, r |-> 2],
     pre |-> NoPrescaler]

H5Oscillator(osc) ==
    CASE osc = "hsi" -> H5Hsi [] osc = "csi" -> 4 * MHz [] osc = "hse" -> cs.hse

H5PllSource == H5Oscillator(cs.pllSource)
H5SysClk ==
    IF cs.sysclk = "pll" THEN H5Output(H5PllSource, cs.pll1, cs.pll1.p)
    ELSE H5Oscillator(cs.sysclk)

H5Buses == {"ahb", "apb1", "apb2", "apb3"}
H5Bus(b) ==
    (H5SysClk \div cs.pre["ahb"]) \div (IF b = "ahb" THEN 1 ELSE cs.pre[b])
H5Timer(b) == H5Bus(b) * (IF cs.pre[b] = 1 THEN 1 ELSE 2)

H5SystemValid ==
    /\ cs.pre["ahb"] \in AhbPrescalers
    /\ \A b \in H5Buses \ {"ahb"} : cs.pre[b] \in ApbPrescalers
    /\ \A b \in H5Buses : H5Bus(b) <= 250 * MHz

H5VciRange(f) ==
    IF f >= MHz /\ f < 2 * MHz THEN 0
    ELSE IF f <= 4 * MHz THEN 1
    ELSE IF f <= 8 * MHz THEN 2 ELSE 3

H5VcoExists(f) == f >= 150 * MHz /\ f <= 836 * MHz

(* The settings that compile; PLL2 and PLL3 are refused. *)
H5Validate ==
    /\ H5SystemValid
    /\ cs.pll1.enable => /\ H5PllInput(H5PllSource, cs.pll1) <= 16 * MHz
                         /\ H5VcoExists(H5PllOutput(H5PllSource, cs.pll1))

(* GetFlashLatency at the highest voltage scale. *)
H5FlashLatency(hclk) ==
    CHOOSE ws \in 0..5 : /\ hclk <= 42 * (ws + 1) * MHz
                         /\ \A less \in 0..(ws - 1) : hclk > 42 * (less + 1) * MHz

(* The register values of GetAhbDivider and GetApbDivider stand for the    *)
(* dividers they are named for; the core has none of its own.              *)
H5Prescalers == [b \in Buses |-> IF b \in H5Buses THEN cs.pre[b] ELSE 1]

(* ConfigurePowerAndClocks: the HSI is divided by two. *)
H5OscConfig ==
    /\ step = "osc"
    /\ LET range == H5VciRange(H5PllInput(H5PllSource, cs.pll1))
           pll   == IF cs.pll1.enable THEN cs.pll1 ELSE NoPll
       IN HalOscConfig(H5Hsi \div 2, H5Hsi \div 2, cs.pllSource, pll, range, "clk")

H5ClockConfig ==
    /\ step = "clk"
    /\ HalClockConfig(cs.sysclk, H5Prescalers, H5FlashLatency(H5Bus("ahb")), "done")

H5Clocks == H5OscConfig \/ H5ClockConfig
=============================================================================
