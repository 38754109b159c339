---------------------------- MODULE Stm32Clocks ----------------------------
(***************************************************************************)
(* The clock configuration of four STM32 families: what the settings       *)
(* claim, on which every baud rate, timer period and I2C timing is         *)
(* computed, against what the hardware does after the configuring function *)
(* has run.  A program is built for one chip and one set of settings.      *)
(***************************************************************************)
EXTENDS ClocksH7, ClocksH5, ClocksG0, ClocksG4, I2cTiming

CONSTANTS H7Settings, H5Settings, G0Settings, G4Settings, SpiRates

(* Settings are structures of the code's types; that compile, so that no   *)
(* divider is 0.  Those of the STM32G4 have gone through its constructor.  *)
Divider == Nat \ {0}
Plls == [enable : BOOLEAN, m : Divider, n : Nat, p : Divider, q : Divider, r : Divider]
SpiSources ==
    {"pll1q", "pll2p", "pll2q", "pll3p", "pll3q", "pll3r", "i2s_ckin",
     "perck", "pclk2", "pclk4", "hsi", "csi", "hse"}
ASSUME SettingsAssumption ==
    /\ \A s \in H7Settings \union H5Settings \union G0Settings \union G4Settings :
          s.pll1 \in Plls /\ s.hse \in Nat
    /\ \A s \in H7Settings \union H5Settings :
          s.pllSource \in {"hsi", "csi", "hse"} /\ s.sysclk \in {"hsi", "csi", "hse", "pll"}
    /\ \A s \in G0Settings :
          s.pllSource \in {"hsi", "hse"} /\ s.sysclk \in {"hsi", "hse", "lsi", "lse", "pll"}
    /\ \A s \in H7Settings : /\ s.pll2 \in Plls /\ s.spi \in [SpiGroups -> SpiSources]
                             /\ s.scale \in 0..3
    /\ \A s \in G4Settings : /\ s.pllSource \in {"hsi", "hse"}
                             /\ s.system = G4SystemDefault
                             /\ s.i2c \in {"pclk1", "sysclk", "hsi"}
    /\ SpiRates \subseteq Nat

VARIABLE chip

clockVars == <<chip, cs, rcc, step>>

Chips == {"h7", "h5", "g0", "g4"}
Steps == {"power", "osc", "pll2", "clk", "spi", "i2c", "done", "failed"}

ClocksInit ==
    \/ /\ chip = "h7" /\ cs \in H7Settings /\ H7Validate
       /\ rcc = ResetRcc(H7Hsi) /\ step = "power"
    \/ /\ chip = "h5" /\ cs \in H5Settings /\ H5Validate
       /\ rcc = ResetRcc(H5Hsi \div 2) /\ step = "osc"
    \/ /\ chip = "g0" /\ cs \in G0Settings /\ G0Validate
       /\ rcc = ResetRcc(G0Hsi) /\ step = "osc"
    \/ /\ chip = "g4" /\ cs \in G4Settings /\ G4Validate
       /\ rcc = ResetRcc(G4Hsi) /\ step = "osc"

ClocksNext ==
    /\ \/ chip = "h7" /\ H7Clocks
       \/ chip = "h5" /\ H5Clocks
       \/ chip = "g0" /\ G0Clocks
       \/ chip = "g4" /\ G4Clocks
    /\ UNCHANGED <<chip, cs>>

ClocksSpec == ClocksInit /\ [][ClocksNext]_clockVars /\ WF_clockVars(ClocksNext)

-----------------------------------------------------------------------------
(* How fast the hardware runs.  Each family feeds the system from another  *)
(* output of the PLL.                                                      *)
PllOut == IF chip \in {"h7", "h5"} THEN "p" ELSE "r"
Real(b) == BusFrequency(PllOut, b)

RealSpi(group) ==
    LET src == rcc.spi[group]
    IN CASE src = "pll1q" -> PllFrequency(1, rcc.pll[1].q)
         [] src = "pll2p" -> PllFrequency(2, rcc.pll[2].p)
         [] src = "pll2q" -> PllFrequency(2, rcc.pll[2].q)
         [] src = "perck" -> rcc.hsi
         [] src = "pclk2" -> Real("apb2")
         [] src = "pclk4" -> Real("apb4")
         [] OTHER -> OscFrequency(src)

RealI2c ==
    CASE rcc.i2c = "pclk1" -> Real("apb1")
      [] rcc.i2c = "sysclk" -> Real("core")
      [] rcc.i2c = "hsi" -> rcc.hsi

(* The divider of an SPI gives the rate nearest to the one asked for. *)
Nearest(clk, baud, divider) ==
    \A p \in {2, 4, 8, 16, 32, 64, 128, 256} :
      Distance(clk \div divider, baud) <= Distance(clk \div p, baud)

(* Settings whose PLL arithmetic does not fit 32 bits. *)
Wraps(pll) == H7PllSource * pll.n >= Wrap

(* Settings that name a clock for a group of SPIs that runs.  PLL3 is      *)
(* never enabled and I2S_CKIN not supported: an SPI on them is refused.    *)
Fed(group) ==
    LET src == cs.spi[group]
    IN CASE src = "pll1q" -> cs.pll1.enable /\ ~Wraps(cs.pll1)
         [] src \in {"pll2p", "pll2q"} -> /\ H7SpiValid(group)
                                          /\ ~Wraps(cs.pll2)
                                          /\ cs.pll1.enable \/ cs.pllSource = "hsi"
         [] src = "perck" -> cs.per = "hsi"
         [] src \in {"pclk2", "pclk4"} -> cs.sysclk # "pll" \/ ~Wraps(cs.pll1)
         [] OTHER -> src = "hsi"

H7AsClaimed ==
    /\ cs.sysclk = "pll" => cs.pll1.enable
    /\ (cs.sysclk # "pll" \/ ~Wraps(cs.pll1)) =>
          /\ \A b \in Buses : Real(b) = H7Bus(b)
          /\ \A b \in ApbBuses : TimerFrequency("p", b) = H7Timer(b)
    /\ \A g \in SpiGroups : 
         Fed(g) => /\ RealSpi(g) = H7SpiClk(g)
                   /\ \A baud \in SpiRates :
                        Nearest(RealSpi(g), baud, H7FindPrescalerValue(g, baud))

(* The settings of these two families divide before they multiply: what    *)
(* the PLL is fed with is cut to a whole number.                           *)
Fits(src, pll) == (src \div pll.m) * pll.n < Wrap
Exact(src, pll) == src % pll.m = 0 /\ Fits(src, pll)

(* The HSI is divided by two behind the settings' back, and nothing else   *)
(* runs; equal up to rounding.                                             *)
H5AsClaimed ==
    (cs.sysclk = "pll" => Exact(H5PllSource, cs.pll1)) =>
       /\ \A b \in H5Buses : Real(b) = H5Bus(b) \div 2
       /\ \A b \in H5Buses \cap ApbBuses :
             TimerFrequency("p", b) \div 2 = H5Timer(b) \div 4

(* Dividers of more than 8 do not fit their field of the register. *)
G0PllFits == cs.pll1.m <= 8 /\ cs.pll1.r <= 8 /\ Exact(G0PllSource, cs.pll1)
G0AsClaimed ==
    (cs.sysclk = "pll" => G0PllFits) =>
       /\ \A b \in {"ahb", "apb1"} : Real(b) = G0Bus(b)
       /\ TimerFrequency("r", "apb1") = G0Timer
       /\ \A baud \in SpiRates : Nearest(Real("apb1"), baud, G0FindPrescalerValue(baud))

G4AsClaimed ==
    /\ \A b \in {"ahb", "apb1", "apb2"} : Real(b) = G4Bus(b)
    /\ RealI2c = G4I2cClk
    /\ \A spi \in {1, 4} : Real("apb2") = G4SpiClk(spi)
    /\ \A spi \in {2, 3} : Real("apb1") = G4SpiClk(spi)

-----------------------------------------------------------------------------
(* Once the configuring function has returned true, every bus, timer, SPI  *)
(* and I2C clock that the program is told about is what the hardware       *)
(* delivers, and the divider of an SPI is the best there is.  Except: on   *)
(* the H7, a PLL product that wraps, an oscillator that is never started,  *)
(* PLL1 asked for although disabled, and PLL2 or per_clk on a source that  *)
(* is never selected; on the H5 everything runs at half of what is         *)
(* claimed; on the G0 a PLL divider above 8 is cut off; and on both the    *)
(* input of the PLL is cut to a whole number.                              *)
ClocksAsClaimed ==
    step = "done" =>
      CASE chip = "h7" -> H7AsClaimed
        [] chip = "h5" -> H5AsClaimed
        [] chip = "g0" -> G0AsClaimed
        [] chip = "g4" -> G4AsClaimed

(* How fast the core of the STM32H7 may run at each voltage scale, in MHz, *)
(* by the texts of the assertions in power.h:43-55 (at scale 2, where the  *)
(* text repeats that of scale 1, by the number compared).  At scale 3 the  *)
(* text says 200 and the comparison 300: what lies between compiles.       *)
H7Rated == <<480, 400, 300, 200>>[cs.scale + 1]
H7Overrated == cs.scale = 3 /\ H7Bus("core") > H7Rated * MHz

(* As<MHz> cuts off the fraction of a megahertz that G4Validate lets by.   *)
G4Cut == IF G4PllClk % MHz = 0 THEN 0 ELSE 1

(* At no time, and not after a failure either, does a core or a bus run    *)
(* beyond the limits that the texts of the assertions name, and the flash  *)
(* has the wait states that the real clock of the AHB needs (42, 24, 34    *)
(* and 48 MHz for each).  Apart from: PLL products that wrap; on the G0    *)
(* dividers and inputs of the PLL that are cut off; on the G4 a fraction   *)
(* of a megahertz, by which 170 MHz may be exceeded (clocks.h:151); on the *)
(* H7 a core that was asked for more than 200 MHz at scale 3, which gets   *)
(* up to the 300 MHz of the comparison (power.h:56).                       *)
WithinLimits ==
    CASE chip = "h7" ->
           (cs.sysclk # "pll" \/ ~Wraps(cs.pll1)) =>
             /\ Real("core") <= (IF H7Overrated THEN H7CoreLimit ELSE H7Rated) * MHz
             /\ Real("ahb") <= 240 * MHz
             /\ \A b \in ApbBuses : Real(b) <= 120 * MHz
             /\ rcc.sysclk = "pll" => Real("ahb") <= 48 * (rcc.ws + 1) * MHz
      [] chip = "h5" ->
           (cs.sysclk = "pll" => Fits(H5PllSource, cs.pll1)) =>
             /\ \A b \in H5Buses : Real(b) <= 250 * MHz
             /\ Real("ahb") <= 42 * (rcc.ws + 1) * MHz
      [] chip = "g0" ->
           (cs.sysclk = "pll" => G0PllFits) =>
             /\ \A b \in {"ahb", "apb1"} : Real(b) <= 64 * MHz
             /\ Real("ahb") <= 24 * (rcc.ws + 1) * MHz
      [] chip = "g4" ->
           /\ Real("core") <= (170 + G4Cut) * MHz
           /\ Real("ahb") <= (34 * (rcc.ws + 1) + G4Cut) * MHz

(* The period of SCL in nanoseconds, for a timing and the clock that the   *)
(* I2C really has: the analog filter twice, and ticks of the real length.  *)
SclPeriod(t, clk) ==
    LET ticks == (t.scll + t.sclh + 2) * (t.presc + 1) + 4
    IN 2 * I2cAnalogFilterDelayMin + (ticks * 156250) \div (clk \div 100)

(* The timing that the compiler finds for an I2C of the STM32G4 suits the  *)
(* bus, driven by the clock that the hardware has in the end: SCL is       *)
(* within the limits of the table, though the search rounds the clock's    *)
(* period to nanoseconds; SCL is low and high for as long as it must be,   *)
(* and the data is set up in time and valid in time, for the mode that was *)
(* asked for.  It finds one for every clock from 2 MHz on; a program with  *)
(* an I2C for which it finds none does not compile.  Except: in every mode *)
(* SCL is that of the standard mode, because the search for its halves is  *)
(* always told so (i2c_timing.h:307), and a clock too slow for the data to *)
(* be valid in time with any delay is not refused (i2c_timing.h:140).      *)
I2cWithinMode ==
    (chip = "g4" /\ step = "done") =>
      \A mode \in I2cSpeedModes :
        LET c     == I2cCharacteristics[mode]
            std   == I2cCharacteristics.standard
            ti    == Ti2cclk(G4I2cClk)
            found == CalculateI2cTiming(G4I2cClk, mode)
        IN /\ G4I2cClk >= 2 * MHz => found # {}
           /\ \A t \in found :
                /\ SclPeriod(t, RealI2c) \in PeriodOf(std.freq_max)..PeriodOf(std.freq_min)
                /\ HalfPeriod(ti, t.presc, t.scll) >= std.lscl_min
                /\ HalfPeriod(ti, t.presc, t.sclh) >= std.hscl_min
                /\ (t.scldel + 1) * (t.presc + 1) * ti >= c.sudat_min
                /\ I2cAnalogFilterDelayMax + 4 * ti <= c.vddat_max =>
                     I2cAnalogFilterDelayMax + (t.sdadel * (t.presc + 1) + 4) * ti <= c.vddat_max

(* Configuring the clocks returns, on success or failure: the endless wait *)
(* for PLL2 is only reached with a source that runs.                       *)
ConfigurationEnds == <>(step \in {"done", "failed"})

(* clocks.h:161 of the H7: "D1 AHB Frequency may not exceed 240 MHz".      *)
AhbLimit == chip = "h7" => Real("ahb") <= 240 * MHz
=============================================================================
