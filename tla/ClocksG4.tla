------------------------------ MODULE ClocksG4 ------------------------------
(***************************************************************************)
(* The clock settings of the STM32G4 (impl/stm32g4_old/clocks.h, .cpp):    *)
(* the constructor that validates them and ClockSettings::Configure.  The  *)
(* constructor is given system clock settings (cs.mcs) and checks them,    *)
(* but the member the rest of the class uses (cs.system) keeps its         *)
(* defaults.                                                               *)
(***************************************************************************)
EXTENDS Stm32Rcc

G4Hsi == 16 * MHz
G4PllDefault == [enable |-> TRUE, m |-> 4, n |-> 85, p |-> 2, q |-> 2, r |-> 2]
G4SystemDefault == [sysclk |-> "pll", pre |-> NoPrescaler, systick |-> 1]
G4I2cDefault == "pclk1"

(* The member initialisers of the constructor; mcs has none. *)
G4Construct(hse, source, pll, mcs, i2c) ==
    [hse |-> hse, pllSource |-> source, pll1 |-> pll, mcs |-> mcs,
     system |-> G4SystemDefault, i2c |-> i2c]

(* PllClkFreq multiplies first. *)
G4PllClk ==
    LET src == IF cs.pllSource = "hsi" THEN G4Hsi ELSE cs.hse
    IN (((src * cs.pll1.n) % Wrap) \div cs.pll1.m) \div cs.pll1.r

G4SysClk ==
    CASE cs.system.sysclk = "hsi" -> G4Hsi
      [] cs.system.sysclk = "hse" -> cs.hse
      [] cs.system.sysclk = "pll" -> G4PllClk
G4Bus(b) ==
    (G4SysClk \div cs.system.pre["ahb"])
        \div (IF b \in ApbBuses THEN cs.system.pre[b] ELSE 1)
G4I2cClk ==
    CASE cs.i2c = "pclk1" -> G4Bus("apb1")
      [] cs.i2c = "sysclk" -> G4SysClk
      [] cs.i2c = "hsi" -> G4Hsi

G4SpiClk(spi) == G4Bus(IF spi \in {1, 4} THEN "apb2" ELSE "apb1")

(* The constructor's assertions; As<MHz> rounds down. *)
G4Validate ==
    /\ cs.pll1.enable => /\ cs.pll1.m \in 1..16
                         /\ cs.pll1.n \in 8..127
                         /\ cs.pll1.p \in 2..31
                         /\ {cs.pll1.q, cs.pll1.r} \subseteq {2, 4, 6, 8}
                         /\ G4PllClk \div MHz <= 170
    /\ cs.mcs.pre["ahb"] \in AhbPrescalers
    /\ {cs.mcs.pre["apb1"], cs.mcs.pre["apb2"]} \subseteq ApbPrescalers
    /\ cs.mcs.systick \in {1, 8}
    /\ G4Bus("apb1") \div MHz <= 170
    /\ G4Bus("apb2") \div MHz <= 170

(* GetHalAhbDivider and GetHalApbDivider, GetHalI2c1ClkSource and its like *)
(* for the other three.                                                    *)
G4Prescalers == [b \in Buses |-> cs.system.pre[b]]
G4I2cSelect == cs.i2c

(* Configure.  A PLL that is not enabled is left as it is. *)
G4OscConfig ==
    /\ step = "osc"
    /\ LET pll == IF cs.pll1.enable THEN cs.pll1 ELSE rcc.pll[1]
       IN HalOscConfig(G4Hsi, G4Hsi, cs.pllSource, pll, 0, "clk")
G4ClockConfig ==
    step = "clk" /\ HalClockConfig(cs.system.sysclk, G4Prescalers, 4, "i2c")
G4PeriphClocks ==
    /\ step = "i2c"
    /\ \/ rcc' = [rcc EXCEPT !.i2c = G4I2cSelect] /\ step' = "done"
       \/ rcc' = rcc /\ step' = "failed"

G4Clocks == G4OscConfig \/ G4ClockConfig \/ G4PeriphClocks
=============================================================================
