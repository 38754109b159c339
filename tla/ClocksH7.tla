------------------------------ MODULE ClocksH7 ------------------------------
(***************************************************************************)
(* The clock and power settings of the STM32H7 (impl/stm32h7/clocks.h and  *)
(* power.h): the frequencies the settings claim at compile time, which     *)
(* baud rates and timer periods are computed from, and the functions that  *)
(* program the hardware.                                                   *)
(***************************************************************************)
EXTENDS Stm32Rcc

H7Hsi == 64 * MHz

(* PllSettings multiplies first, in 32 bits. *)
H7PllInput(src, pll) == src \div pll.m
H7PllOutput(src, pll) == ((src * pll.n) % Wrap) \div pll.m
H7Output(src, pll, div) == H7PllOutput(src, pll) \div div

H7Default ==
    [hse |-> 25 * MHz, pllSource |-> "hsi", sysclk |-> "hsi",
     pll1 |-> [enable |-> TRUE, m |-> 5, n |-> 48, p |-> 2, q |-> 5, r |-> 2],
     pll2 |-> [enable |-> FALSE, m |-> 32, n |-> 129, p |-> 2, q |-> 2, r |-> 2],
     pre |-> NoPrescaler, systick |-> 1, per |-> "hsi",
     spi |-> [spi123 |-> "pll1q", spi45 |-> "pclk2", spi6 |-> "pclk4"],
     vcore |-> "ldo", scale |-> 0]

H7Oscillator(osc) ==
    CASE osc = "hsi" -> H7Hsi [] osc = "csi" -> 4 * MHz [] osc = "hse" -> cs.hse

H7PllSource == H7Oscillator(cs.pllSource)
H7PerClk == H7Oscillator(cs.per)
H7SysClk ==
    IF cs.sysclk = "pll" THEN H7Output(H7PllSource, cs.pll1, cs.pll1.p)
    ELSE H7Oscillator(cs.sysclk)

(* The frequencies of the three domains, claimed by SystemClockSettings. *)
H7Bus(b) ==
    LET core == H7SysClk \div cs.pre["core"]
        ahb  == core \div cs.pre["ahb"]
    IN CASE b = "core" -> core [] b = "ahb" -> ahb
         [] b \in ApbBuses -> ahb \div cs.pre[b]
H7Timer(b) == H7Bus(b) * (IF cs.pre[b] = 1 THEN 1 ELSE 2)

H7SystemValid ==
    /\ {cs.pre["core"], cs.pre["ahb"]} \subseteq AhbPrescalers
    /\ \A b \in ApbBuses : cs.pre[b] \in ApbPrescalers /\ H7Bus(b) <= 120 * MHz
    /\ cs.systick \in {1, 8}
    /\ H7Bus("core") <= 480 * MHz
    /\ H7Bus("ahb") <= 240 * MHz

(* PeripheralClockFrequency: what the SPIs of a group are told. *)
H7SpiClk(group) ==
    LET src == cs.spi[group]
    IN CASE src = "pll1q" -> H7Output(H7PllSource, cs.pll1, cs.pll1.q)
         [] src = "pll2p" -> H7Output(H7PllSource, cs.pll2, cs.pll2.p)
         [] src = "pll2q" -> H7Output(H7PllSource, cs.pll2, cs.pll2.q)
         [] src = "perck" -> H7PerClk
         [] src = "pclk2" -> H7Bus("apb2")
         [] src = "pclk4" -> H7Bus("apb4")
         [] OTHER -> H7Oscillator(src)

(* What it asserts: the PLL that is used is enabled - except PLL1. *)
H7SpiValid(group) == cs.spi[group] \in {"pll2p", "pll2q"} => cs.pll2.enable

(* FindPrescalerValue of the SPI: the first of the nearest. *)
H7SpiPrescalers == {2, 4, 8, 16, 32, 64, 128, 256}
H7FindPrescalerValue(group, baud) ==
    LET err(p) == Distance(H7SpiClk(group) \div p, baud)
    IN CHOOSE p \in H7SpiPrescalers :
         \A q \in H7SpiPrescalers : err(p) < err(q) \/ (err(p) = err(q) /\ p <= q)

(* PowerSupplySettings::Validate, the numbers that it compares with: its   *)
(* texts say 400 MHz for scale 2 and 200 MHz for scale 3.                  *)
H7CoreLimit == CASE cs.scale = 0 -> 480 [] cs.scale = 1 -> 400 [] OTHER -> 300
H7PowerValid ==
    /\ cs.scale = 0 => cs.vcore # "smps"
    /\ H7Bus("core") <= H7CoreLimit * MHz

(* GetPllVciRange; there is no result above 16 MHz. *)
H7VciRange(f) ==
    IF f >= MHz /\ f < 2 * MHz THEN 0
    ELSE IF f <= 4 * MHz THEN 1
    ELSE IF f <= 8 * MHz THEN 2 ELSE 3

(* GetPllVcoRange has a result for these only. *)
H7VcoExists(f) == f >= 150 * MHz /\ f <= 960 * MHz

(* The settings that compile. *)
H7Validate ==
    /\ H7SystemValid
    /\ H7PowerValid
    /\ cs.pll1.enable => /\ H7PllInput(H7PllSource, cs.pll1) <= 16 * MHz
                         /\ H7VcoExists(H7PllOutput(H7PllSource, cs.pll1))

(* The divider tables: GetApb1Divider is used for APB3 too, whose register *)
(* field is encoded alike.                                                 *)
H7Prescalers == [b \in Buses |-> cs.pre[b]]

(* ConfigurePowerSupply. *)
H7Power == step = "power" /\ step' = "osc" /\ rcc' = rcc

(* Mutant: the result of HAL_RCC_OscConfig ignored. *)
H7OscConfigUnchecked ==
    /\ step = "osc"
    /\ rcc' = [rcc EXCEPT !.pllSource = IF cs.pll1.enable THEN cs.pllSource ELSE @]
    /\ step' = "pll2"

(* ConfigureClocks, one action per call that can fail or wait. *)
H7OscConfig ==
    /\ step = "osc"
    /\ LET range == H7VciRange(H7PllInput(H7PllSource, cs.pll1))
           pll   == IF cs.pll1.enable THEN cs.pll1 ELSE NoPll
       IN HalOscConfig(H7Hsi, H7Hsi, cs.pllSource, pll, range, "pll2")

(* PLL2 is enabled and polled until it is ready: no way out if the source  *)
(* that the PLLs share does not run.                                       *)
H7Pll2 ==
    /\ step = "pll2"
    /\ cs.pll2.enable => rcc.pllSource \in rcc.on
    /\ rcc' = IF cs.pll2.enable THEN [rcc EXCEPT !.pll[2] = cs.pll2] ELSE rcc
    /\ step' = "clk"

H7ClockConfig ==
    step = "clk" /\ HalClockConfig(cs.sysclk, H7Prescalers, 4, "spi")

(* A source that differs from the default is selected, others are left.    *)
H7SpiClocks ==
    /\ step = "spi"
    /\ rcc' = [rcc EXCEPT !.spi =
                 [g \in SpiGroups |-> IF cs.spi[g] # H7Default.spi[g]
                                      THEN cs.spi[g] ELSE @[g]]]
    /\ step' = "done"

H7Clocks == H7Power \/ H7OscConfig \/ H7Pll2 \/ H7ClockConfig \/ H7SpiClocks
=============================================================================
