------------------------- MODULE Stm32Clocks_proofs -------------------------
(***************************************************************************)
(* For all settings that compile, on any of the four families, the clocks  *)
(* are what the settings claim, and no core, bus or flash is driven beyond *)
(* its limits at any time.                                                 *)
(***************************************************************************)
EXTENDS Stm32Clocks, WellFoundedInduction, TLAPS

-----------------------------------------------------------------------------
(* Division with remainder: what the code computes and what the hardware   *)
(* does differ in the order of multiplications and divisions.              *)
LEMMA Quotient ==
  ASSUME NEW a \in Nat, NEW b \in Divider
  PROVE  /\ a \div b \in Nat
         /\ b * (a \div b) <= a
         /\ a < b * (a \div b) + b
BY DEF Divider

LEMMA QuotientIs ==
  ASSUME NEW a \in Nat, NEW b \in Divider, NEW q \in Nat, b * q <= a, a < b * q + b
  PROVE  a \div b = q
BY DEF Divider

LEMMA ByOne == ASSUME NEW a \in Nat PROVE a \div 1 = a
OBVIOUS

LEMMA SmallModulus ==
  ASSUME NEW a \in Nat, a < Wrap
  PROVE  a % Wrap = a
BY DEF Wrap

LEMMA NoRemainder ==
  ASSUME NEW a \in Nat, NEW b \in Divider, a % b = 0
  PROVE  b * (a \div b) = a
BY DEF Divider

LEMMA QuotientMonotonic ==
  ASSUME NEW a \in Nat, NEW c \in Nat, NEW m \in Divider, a <= c
  PROVE  a \div m <= c \div m
BY DEF Divider

LEMMA QuotientSmaller ==
  ASSUME NEW a \in Nat, NEW m \in Divider
  PROVE  a \div m \in Nat /\ a \div m <= a
BY DEF Divider

LEMMA ProductDivides ==
  ASSUME NEW a \in Divider, NEW b \in Divider
  PROVE  a * b \in Divider
BY DEF Divider

(* One division after the other is a division by the product. *)
LEMMA DivideTwice ==
  ASSUME NEW a \in Nat, NEW m \in Divider, NEW p \in Divider
  PROVE  (a \div m) \div p = a \div (m * p)
<1> DEFINE q == a \div m
           r == q \div p
<1>1. q \in Nat /\ m * q <= a /\ a < m * q + m
  BY Quotient
<1>2. r \in Nat /\ p * r <= q /\ q < p * r + p
  BY <1>1, Quotient
<1> HIDE DEF q, r
<1>3. m * (p * r) <= m * q
  BY <1>1, <1>2 DEF Divider
<1>4. m * q + m <= m * (p * r) + m * p
  <2>1. q + 1 <= p * r + p
    BY <1>1, <1>2 DEF Divider
  <2>2. m * (q + 1) <= m * (p * r + p)
    BY <1>1, <1>2, <2>1 DEF Divider
  <2> QED BY <1>1, <1>2, <2>2 DEF Divider
<1>5. (m * p) * r = m * (p * r) /\ m * p \in Divider
  BY <1>2, ProductDivides DEF Divider
<1>6. (m * p) * r <= a /\ a < (m * p) * r + m * p
  BY <1>1, <1>2, <1>3, <1>4, <1>5 DEF Divider
<1>7. a \div (m * p) = r
  BY <1>2, <1>5, <1>6, QuotientIs
<1> QED BY <1>7 DEF q, r

LEMMA DivisionsCommute ==
  ASSUME NEW a \in Nat, NEW m \in Divider, NEW p \in Divider
  PROVE  (a \div m) \div p = (a \div p) \div m
<1>1. m * p = p * m
  BY DEF Divider
<1> QED BY <1>1, DivideTwice

(* A factor of both is cancelled. *)
LEMMA CancelFactor ==
  ASSUME NEW a \in Nat, NEW m \in Divider, NEW k \in Divider
  PROVE  (k * a) \div (k * m) = a \div m
<1> DEFINE q == a \div m
<1>1. q \in Nat /\ m * q <= a /\ a < m * q + m
  BY Quotient
<1> HIDE DEF q
<1>2. k * (m * q) <= k * a /\ k * a < k * (m * q + m)
  BY <1>1 DEF Divider
<1>3. (k * m) * q = k * (m * q) /\ k * (m * q + m) = (k * m) * q + k * m
  BY <1>1 DEF Divider
<1>4. k * a \in Nat /\ k * m \in Divider
  BY ProductDivides DEF Divider
<1>5. (k * a) \div (k * m) = q
  BY <1>1, <1>2, <1>3, <1>4, QuotientIs
<1> QED BY <1>5 DEF q

-----------------------------------------------------------------------------
(* The invariant.  The controller has types; nothing but the HSI is ever   *)
(* started, so that a PLL locks and the system is switched only if they    *)
(* are fed by it; before the switch the core runs on the HSI undivided,    *)
(* after it as the settings ask, for a failure later on takes nothing      *)
(* back.                                                                   *)
Sources == Oscillators \union {"pll"}
RccType ==
    [on : {{"hsi"}}, hsi : Nat, hsiPll : Nat, pllSource : Sources, pll : [{1, 2} -> Plls],
     vci : 0..3, sysclk : Sources, pre : [Buses -> Divider], ws : Nat,
     i2c : {"pclk1", "sysclk", "hsi"}, spi : [SpiGroups -> SpiSources]]

(* A program's settings are such as compile, for its chip. *)
Compiled ==
    \/ chip = "h7" /\ cs \in H7Settings /\ H7Validate
    \/ chip = "h5" /\ cs \in H5Settings /\ H5Validate
    \/ chip = "g0" /\ cs \in G0Settings /\ G0Validate
    \/ chip = "g4" /\ cs \in G4Settings /\ G4Validate

FullHsi == CASE chip = "h7" -> H7Hsi [] chip = "h5" -> H5Hsi \div 2
             [] chip = "g0" -> G0Hsi [] chip = "g4" -> G4Hsi
StartedHsi == IF chip = "g0" THEN G0ScaledHsi ELSE FullHsi
Asked == IF chip = "g4" THEN cs.system.sysclk ELSE cs.sysclk
SystemPll == IF chip = "g0" THEN G0Pll ELSE cs.pll1
Prescalers == CASE chip = "h7" -> H7Prescalers [] chip = "h5" -> H5Prescalers
                [] chip = "g0" -> G0Prescalers [] chip = "g4" -> G4Prescalers
WaitStates == CASE chip = "h5" -> H5FlashLatency(H5Bus("ahb"))
                [] chip = "g0" -> G0FlashLatency(G0Bus("ahb"))
                [] OTHER -> 4

Fresh == rcc.sysclk = "hsi" /\ rcc.pre = NoPrescaler /\ rcc.ws = 0
PllOff == rcc.pllSource = "hsi" /\ ~rcc.pll[1].enable
Started ==
    /\ rcc.hsi = StartedHsi /\ rcc.pllSource = "hsi"
    /\ IF cs.pll1.enable THEN cs.pllSource = "hsi" /\ rcc.pll[1] = SystemPll
       ELSE ~rcc.pll[1].enable
Switched ==
    /\ Started
    /\ rcc.sysclk = Asked /\ rcc.pre = Prescalers /\ rcc.ws = WaitStates
    /\ IF Asked = "pll" THEN cs.pll1.enable ELSE Asked = "hsi"

PhaseInv ==
    /\ step \in Steps
    /\ step \in {"power", "osc"} => Fresh /\ PllOff
    /\ step \in {"pll2", "clk"} => Fresh /\ Started
    /\ step \in {"spi", "i2c", "done"} => Switched
    /\ step = "failed" => Fresh \/ Switched
SelectInv ==
    /\ chip = "h7" =>
         /\ step \notin {"done", "failed"} => rcc.spi = H7Default.spi
         /\ step \in {"clk", "spi", "done"} /\ cs.pll2.enable => rcc.pll[2] = cs.pll2
         /\ step = "done" => \A g \in SpiGroups : rcc.spi[g] = cs.spi[g]
    /\ chip = "g4" /\ step = "done" => rcc.i2c = cs.i2c
ClocksInv ==
    /\ Compiled
    /\ rcc \in RccType
    /\ rcc.hsiPll = FullHsi /\ rcc.hsi \in {FullHsi, StartedHsi}
    /\ PhaseInv /\ SelectInv

-----------------------------------------------------------------------------
(* Types of what the functions compute and hand to the HAL. *)
LEMMA H5LatencyIs ==
  ASSUME NEW hclk \in Nat, hclk <= 250 * MHz
  PROVE  /\ H5FlashLatency(hclk) \in 0..5
         /\ hclk <= 42 * (H5FlashLatency(hclk) + 1) * MHz
<1> DEFINE P(ws) == /\ hclk <= 42 * (ws + 1) * MHz
                    /\ \A less \in 0..(ws - 1) : hclk > 42 * (less + 1) * MHz
<1>1. \E ws \in 0..5 : P(ws)
  <2>1. CASE hclk <= 42 * MHz
    <3>1. P(0)
      BY <2>1 DEF MHz
    <3> QED BY <3>1
  <2>2. CASE 42 * MHz < hclk /\ hclk <= 84 * MHz
    <3>1. P(1)
      BY <2>2 DEF MHz
    <3> QED BY <3>1
  <2>3. CASE 84 * MHz < hclk /\ hclk <= 126 * MHz
    <3>1. P(2)
      BY <2>3 DEF MHz
    <3> QED BY <3>1
  <2>4. CASE 126 * MHz < hclk /\ hclk <= 168 * MHz
    <3>1. P(3)
      BY <2>4 DEF MHz
    <3> QED BY <3>1
  <2>5. CASE 168 * MHz < hclk /\ hclk <= 210 * MHz
    <3>1. P(4)
      BY <2>5 DEF MHz
    <3> QED BY <3>1
  <2>6. CASE 210 * MHz < hclk
    <3>1. P(5)
      BY <2>6 DEF MHz
    <3> QED BY <3>1
  <2> QED BY <2>1, <2>2, <2>3, <2>4, <2>5, <2>6 DEF MHz
<1>2. H5FlashLatency(hclk) = CHOOSE ws \in 0..5 : P(ws)
  BY DEF H5FlashLatency
<1> HIDE DEF P
<1>3. H5FlashLatency(hclk) \in 0..5 /\ P(H5FlashLatency(hclk))
  BY <1>1, <1>2
<1> QED BY <1>3 DEF P

(* Outputs of a PLL are whole numbers, the divided input of one is too. *)
LEMMA OutputTypes ==
  ASSUME NEW src \in Nat, NEW pll \in Plls, NEW div \in Divider
  PROVE  /\ H7PllInput(src, pll) \in Nat /\ H7Output(src, pll, div) \in Nat
         /\ H5PllInput(src, pll) \in Nat /\ H5Output(src, pll, div) \in Nat
         /\ G0Output(src, pll, div) \in Nat
BY DEF Plls, Divider, Wrap, H7PllInput, H7Output, H7PllOutput, H5PllInput, H5Output, H5PllOutput, G0Output

LEMMA H5BusTypes ==
  ASSUME cs \in H5Settings, H5Validate
  PROVE  /\ H5PllSource \in Nat /\ H5SysClk \in Nat
         /\ \A b \in H5Buses : H5Bus(b) \in Nat /\ H5Bus(b) <= 250 * MHz
<1>1. /\ cs.pll1 \in Plls /\ cs.hse \in Nat /\ cs.pllSource \in {"hsi", "csi", "hse"}
      /\ cs.sysclk \in {"hsi", "csi", "hse", "pll"}
  BY SettingsAssumption
<1>2. cs.sysclk # "pll" => H5Oscillator(cs.sysclk) \in Nat
  BY <1>1 DEF H5PllSource, H5Oscillator, H5Hsi, MHz
<1>3. H5PllSource \in Nat /\ cs.pll1.p \in Divider
  BY <1>1 DEF H5PllSource, H5Oscillator, H5Hsi, MHz, Plls
<1>4. H5SysClk \in Nat
  BY <1>1, <1>2, <1>3, OutputTypes DEF H5SysClk
<1>5. cs.pre["ahb"] \in Divider /\ \A b \in H5Buses \ {"ahb"} : cs.pre[b] \in Divider
  BY DEF H5Validate, H5SystemValid, AhbPrescalers, ApbPrescalers, Divider
<1>6. H5SysClk \div cs.pre["ahb"] \in Nat
  BY <1>4, <1>5, QuotientSmaller
<1>7. \A b \in H5Buses : (IF b = "ahb" THEN 1 ELSE cs.pre[b]) \in Divider
  BY <1>5 DEF Divider
<1>8. \A b \in H5Buses : H5Bus(b) \in Nat
  BY <1>6, <1>7, QuotientSmaller DEF H5Bus
<1> QED BY <1>3, <1>4, <1>8 DEF H5Validate, H5SystemValid

LEMMA SettingTypes ==
  ASSUME Compiled
  PROVE  /\ chip \in Chips
         /\ cs.pll1 \in Plls /\ cs.pllSource \in Sources /\ Asked \in Sources
         /\ FullHsi \in Nat /\ StartedHsi \in Nat
         /\ SystemPll \in Plls
         /\ Prescalers \in [Buses -> Divider]
         /\ WaitStates \in Nat
<1>1. chip \in Chips /\ cs.pll1 \in Plls /\ cs.hse \in Nat /\ cs.pllSource \in Sources
  BY SettingsAssumption DEF Compiled, Chips, Sources, Oscillators
<1>2. Asked \in Sources
  BY SettingsAssumption DEF Compiled, Asked, G4SystemDefault, Sources, Oscillators
<1>3. FullHsi \in Nat /\ StartedHsi \in Nat
  BY DEF Compiled, FullHsi, StartedHsi, H7Hsi, H5Hsi, G0Hsi, G4Hsi, MHz, G0ScaledHsi, G0Validate
<1>4. SystemPll \in Plls
  <2>1. cs.pll1.m - 1 \in Nat /\ cs.pll1.r - 1 \in Nat
    BY <1>1 DEF Plls, Divider
  <2>2. G0Field3(cs.pll1.m) + 1 \in Divider /\ G0Field3(cs.pll1.r) + 1 \in Divider
    BY <2>1 DEF G0Field3, Divider
  <2>3. G0Pll \in Plls
    BY <1>1, <2>2 DEF G0Pll, Plls
  <2> QED BY <1>1, <2>3 DEF SystemPll
<1>5. Prescalers \in [Buses -> Divider]
  <2>1. AhbPrescalers \subseteq Divider /\ ApbPrescalers \subseteq Divider /\ 1 \in Divider
    BY DEF AhbPrescalers, ApbPrescalers, Divider
  <2>2. CASE chip = "h7" /\ H7Validate
    BY <2>1, <2>2 DEF Prescalers, H7Prescalers, H7Validate, H7SystemValid, Buses, ApbBuses
  <2>3. CASE chip = "h5" /\ H5Validate
    BY <2>1, <2>3 DEF Prescalers, H5Prescalers, H5Validate, H5SystemValid, H5Buses
  <2>4. CASE chip = "g0" /\ G0Validate
    BY <2>1, <2>4 DEF Prescalers, G0Prescalers, G0Validate, G0SystemValid
  <2>5. CASE chip = "g4" /\ cs \in G4Settings
    BY <2>1, <2>5, SettingsAssumption DEF Prescalers, G4Prescalers, G4SystemDefault, NoPrescaler
  <2> QED BY <2>2, <2>3, <2>4, <2>5 DEF Compiled
<1>6. WaitStates \in Nat
  <2>1. CASE chip = "h5" /\ cs \in H5Settings /\ H5Validate
    <3>1. H5Bus("ahb") \in Nat /\ H5Bus("ahb") <= 250 * MHz
      BY <2>1, H5BusTypes DEF H5Buses
    <3> QED BY <2>1, <3>1, H5LatencyIs DEF WaitStates
  <2>2. CASE chip = "g0"
    BY <2>2 DEF WaitStates, G0FlashLatency
  <2> QED BY <1>1, <2>1, <2>2 DEF Compiled, WaitStates, Chips
<1> QED BY <1>1, <1>2, <1>3, <1>4, <1>5, <1>6

LEMMA OscEffect ==
  ASSUME rcc \in RccType, NEW hsi \in Nat, NEW hsiPll \in Nat, NEW source \in Sources,
         NEW pll \in Plls, NEW range \in 0..3, NEW next,
         HalOscConfig(hsi, hsiPll, source, pll, range, next)
  PROVE  /\ rcc' \in RccType
         /\ rcc'.hsi = hsi /\ rcc'.hsiPll = hsiPll
         /\ rcc'.sysclk = rcc.sysclk /\ rcc'.pre = rcc.pre /\ rcc'.ws = rcc.ws
         /\ rcc'.i2c = rcc.i2c /\ rcc'.spi = rcc.spi
         /\ \/ /\ step' = next /\ rcc'.pll[1] = pll
               /\ rcc'.pllSource = IF pll.enable THEN source ELSE rcc.pllSource
               /\ pll.enable => source = "hsi"
            \/ step' = "failed"
<1> DEFINE osc == [rcc EXCEPT !.hsi = hsi, !.hsiPll = hsiPll,
                              !.pllSource = IF pll.enable THEN source ELSE @]
<1>1. osc \in RccType
  BY DEF RccType, Plls
<1>2. /\ osc.hsi = hsi /\ osc.hsiPll = hsiPll /\ osc.on = rcc.on /\ osc.pll = rcc.pll
      /\ osc.sysclk = rcc.sysclk /\ osc.pre = rcc.pre /\ osc.ws = rcc.ws
      /\ osc.i2c = rcc.i2c /\ osc.spi = rcc.spi
      /\ osc.pllSource = IF pll.enable THEN source ELSE rcc.pllSource
  BY DEF RccType
<1>3. \/ /\ pll.enable => source \in rcc.on
         /\ rcc' = [osc EXCEPT !.pll[1] = pll, !.vci = range] /\ step' = next
      \/ rcc' = osc /\ step' = "failed"
  BY DEF HalOscConfig
<1>4. rcc.on = {"hsi"}
  BY DEF RccType
<1> HIDE DEF osc
<1>5. [osc.pll EXCEPT ![1] = pll] \in [{1, 2} -> Plls] /\ [osc.pll EXCEPT ![1] = pll][1] = pll
  BY <1>1 DEF RccType
<1>6. [osc EXCEPT !.pll[1] = pll, !.vci = range] = [osc EXCEPT !.pll = [osc.pll EXCEPT ![1] = pll], !.vci = range]
  BY <1>1 DEF RccType
<1> DEFINE plls == [osc.pll EXCEPT ![1] = pll]
<1>7. plls \in [{1, 2} -> Plls] /\ plls[1] = pll
  BY <1>5
<1>8. \/ /\ pll.enable => source \in rcc.on
         /\ rcc' = [osc EXCEPT !.pll = plls, !.vci = range] /\ step' = next
      \/ rcc' = osc /\ step' = "failed"
  BY <1>3, <1>6
<1> HIDE DEF plls
<1>9. CASE rcc' = osc /\ step' = "failed"
  BY <1>9, <1>1, <1>2
<1>10. CASE /\ pll.enable => source \in rcc.on
            /\ rcc' = [osc EXCEPT !.pll = plls, !.vci = range] /\ step' = next
  <2>1. rcc' \in RccType
    BY <1>10, <1>1, <1>7 DEF RccType
  <2>2. /\ rcc'.pll = plls /\ rcc'.hsi = osc.hsi /\ rcc'.hsiPll = osc.hsiPll
        /\ rcc'.sysclk = osc.sysclk /\ rcc'.pre = osc.pre /\ rcc'.ws = osc.ws
        /\ rcc'.i2c = osc.i2c /\ rcc'.spi = osc.spi /\ rcc'.pllSource = osc.pllSource
    BY <1>10, <1>1 DEF RccType
  <2> QED BY <2>1, <2>2, <1>2, <1>4, <1>7, <1>10
<1> QED BY <1>8, <1>9, <1>10

LEMMA SwitchEffect ==
  ASSUME rcc \in RccType, NEW source \in Sources, NEW pre \in [Buses -> Divider],
         NEW ws \in Nat, NEW next, HalClockConfig(source, pre, ws, next)
  PROVE  /\ rcc' \in RccType
         /\ rcc'.hsi = rcc.hsi /\ rcc'.hsiPll = rcc.hsiPll /\ rcc'.pllSource = rcc.pllSource
         /\ rcc'.pll = rcc.pll /\ rcc'.i2c = rcc.i2c /\ rcc'.spi = rcc.spi
         /\ \/ /\ step' = next
               /\ rcc'.sysclk = source /\ rcc'.pre = pre /\ rcc'.ws = ws
               /\ IF source = "pll" THEN rcc.pll[1].enable ELSE source = "hsi"
            \/ rcc' = rcc /\ step' = "failed"
<1>1. rcc.on = {"hsi"}
  BY DEF RccType
<1>2. CASE rcc' = rcc /\ step' = "failed"
  BY <1>2
<1>3. CASE /\ IF source = "pll" THEN rcc.pll[1].enable ELSE source \in rcc.on
           /\ rcc' = [rcc EXCEPT !.sysclk = source, !.pre = pre, !.ws = ws] /\ step' = next
  <2>1. rcc' \in RccType
    BY <1>3 DEF RccType
  <2>2. /\ rcc'.hsi = rcc.hsi /\ rcc'.hsiPll = rcc.hsiPll /\ rcc'.pllSource = rcc.pllSource
        /\ rcc'.pll = rcc.pll /\ rcc'.i2c = rcc.i2c /\ rcc'.spi = rcc.spi
        /\ rcc'.sysclk = source /\ rcc'.pre = pre /\ rcc'.ws = ws
    BY <1>3 DEF RccType
  <2> QED BY <2>1, <2>2, <1>1, <1>3
<1> QED BY <1>2, <1>3 DEF HalClockConfig

-----------------------------------------------------------------------------
(* Settings stay; so does everything that is computed from them. *)
LEMMA SettingsStay ==
  ASSUME UNCHANGED <<chip, cs>>
  PROVE  /\ Compiled' = Compiled /\ FullHsi' = FullHsi /\ StartedHsi' = StartedHsi
         /\ Asked' = Asked /\ SystemPll' = SystemPll
         /\ Prescalers' = Prescalers /\ WaitStates' = WaitStates
<1>1. H7Validate' = H7Validate
  <2>1. H7SysClk' = H7SysClk /\ H7PllSource' = H7PllSource
    BY DEF H7SysClk, H7PllSource, H7Oscillator, H7Output, H7PllOutput
  <2>2. \A b : H7Bus(b)' = H7Bus(b)
    BY <2>1 DEF H7Bus
  <2> QED BY <2>1, <2>2 DEF H7Validate, H7SystemValid, H7PowerValid, H7CoreLimit, H7PllInput,
                            H7VcoExists, H7PllOutput
<1>2. H5Validate' = H5Validate /\ \A b : H5Bus(b)' = H5Bus(b)
  <2>1. H5SysClk' = H5SysClk /\ H5PllSource' = H5PllSource
    BY DEF H5SysClk, H5PllSource, H5Oscillator, H5Output, H5PllOutput, H5PllInput
  <2>2. \A b : H5Bus(b)' = H5Bus(b)
    BY <2>1 DEF H5Bus
  <2> QED BY <2>1, <2>2 DEF H5Validate, H5SystemValid, H5PllInput, H5VcoExists, H5PllOutput
<1>3. G0Validate' = G0Validate /\ \A b : G0Bus(b)' = G0Bus(b)
  <2>1. G0SysClk' = G0SysClk
    BY DEF G0SysClk, G0PllSource, G0ScaledHsi, G0Output
  <2>2. \A b : G0Bus(b)' = G0Bus(b)
    BY <2>1 DEF G0Bus
  <2> QED BY <2>2 DEF G0Validate, G0SystemValid
<1>4. G4Validate' = G4Validate
  <2>1. G4PllClk' = G4PllClk
    BY DEF G4PllClk
  <2>2. \A b : G4Bus(b)' = G4Bus(b)
    BY <2>1 DEF G4Bus, G4SysClk
  <2> QED BY <2>1, <2>2 DEF G4Validate
<1>5. Compiled' = Compiled
  BY <1>1, <1>2, <1>3, <1>4 DEF Compiled
<1>6. FullHsi' = FullHsi /\ StartedHsi' = StartedHsi /\ Asked' = Asked /\ SystemPll' = SystemPll
  BY DEF FullHsi, StartedHsi, G0ScaledHsi, Asked, SystemPll, G0Pll
<1>7. Prescalers' = Prescalers
  BY DEF Prescalers, H7Prescalers, H5Prescalers, G0Prescalers, G4Prescalers
<1>8. WaitStates' = WaitStates
  BY <1>2, <1>3 DEF WaitStates
<1> QED BY <1>5, <1>6, <1>7, <1>8

(* The two calls of the HAL, as each family makes them. *)
LEMMA OscStep ==
  ASSUME ClocksInv, UNCHANGED <<chip, cs>>, NEW range \in 0..3, NEW next, NEW pll \in Plls,
         IF cs.pll1.enable THEN pll = SystemPll ELSE ~pll.enable,
         next = IF chip = "h7" THEN "pll2" ELSE "clk",
         step = "osc", HalOscConfig(StartedHsi, FullHsi, cs.pllSource, pll, range, next)
  PROVE  ClocksInv'
<1>1. SystemPll.enable = cs.pll1.enable
  BY SettingTypes DEF SystemPll, G0Pll, Plls, ClocksInv
<1>2. /\ rcc' \in RccType
      /\ rcc'.hsi = StartedHsi /\ rcc'.hsiPll = FullHsi
      /\ rcc'.sysclk = rcc.sysclk /\ rcc'.pre = rcc.pre /\ rcc'.ws = rcc.ws
      /\ rcc'.i2c = rcc.i2c /\ rcc'.spi = rcc.spi
      /\ \/ /\ step' = next /\ rcc'.pll[1] = pll
            /\ rcc'.pllSource = IF pll.enable THEN cs.pllSource ELSE rcc.pllSource
            /\ pll.enable => cs.pllSource = "hsi"
         \/ step' = "failed"
  BY SettingTypes, OscEffect DEF ClocksInv
<1>3. Fresh /\ PllOff
  BY DEF ClocksInv, PhaseInv
<1>4. Fresh'
  BY <1>2, <1>3 DEF Fresh
<1>5. step' = next => Started'
  BY <1>1, <1>2, <1>3, SettingsStay DEF Started, PllOff
<1>6. PhaseInv'
  BY <1>2, <1>4, <1>5 DEF PhaseInv, Steps
<1>7. SelectInv'
  BY <1>2 DEF ClocksInv, SelectInv
<1> QED BY <1>2, <1>6, <1>7, SettingsStay DEF ClocksInv

LEMMA SwitchStep ==
  ASSUME ClocksInv, UNCHANGED <<chip, cs>>, NEW next,
         next = CASE chip = "h7" -> "spi" [] chip = "g4" -> "i2c" [] OTHER -> "done",
         step = "clk", HalClockConfig(Asked, Prescalers, WaitStates, next)
  PROVE  ClocksInv'
<1>1. /\ rcc' \in RccType
      /\ rcc'.hsi = rcc.hsi /\ rcc'.hsiPll = rcc.hsiPll /\ rcc'.pllSource = rcc.pllSource
      /\ rcc'.pll = rcc.pll /\ rcc'.i2c = rcc.i2c /\ rcc'.spi = rcc.spi
      /\ \/ /\ step' = next
            /\ rcc'.sysclk = Asked /\ rcc'.pre = Prescalers /\ rcc'.ws = WaitStates
            /\ IF Asked = "pll" THEN rcc.pll[1].enable ELSE Asked = "hsi"
         \/ rcc' = rcc /\ step' = "failed"
  BY SettingTypes, SwitchEffect DEF ClocksInv
<1>2. Fresh /\ Started
  BY DEF ClocksInv, PhaseInv
<1>3. Started'
  BY <1>1, <1>2, SettingsStay DEF Started
<1>4. CASE step' = "failed" /\ rcc' = rcc
  <2>1. Fresh'
    BY <1>4, <1>2 DEF Fresh
  <2>2. PhaseInv' /\ SelectInv'
    BY <1>4, <2>1 DEF PhaseInv, SelectInv, Steps
  <2> QED BY <1>1, <1>4, <2>2, SettingsStay DEF ClocksInv
<1>5. CASE /\ step' = next
           /\ rcc'.sysclk = Asked /\ rcc'.pre = Prescalers /\ rcc'.ws = WaitStates
           /\ IF Asked = "pll" THEN rcc.pll[1].enable ELSE Asked = "hsi"
  <2>1. Switched'
    BY <1>2, <1>3, <1>5, SettingsStay DEF Switched, Started
  <2>2. next \in {"spi", "i2c", "done"} /\ (chip = "h7" => next = "spi") /\ (chip = "g4" => next = "i2c")
    BY SettingTypes DEF Chips, ClocksInv
  <2>3. PhaseInv'
    BY <1>5, <2>1, <2>2 DEF PhaseInv, Steps
  <2>4. SelectInv'
    BY <1>1, <1>5, <2>2 DEF ClocksInv, SelectInv
  <2> QED BY <1>1, <2>3, <2>4, SettingsStay DEF ClocksInv
<1> QED BY <1>1, <1>4, <1>5

LEMMA ClocksStart ==
  ASSUME ClocksInit
  PROVE  ClocksInv
<1> DEFINE Reset(hsi, first) == rcc = ResetRcc(hsi) /\ step = first
<1>1. /\ Compiled
      /\ Reset(FullHsi, IF chip = "h7" THEN "power" ELSE "osc")
  BY DEF ClocksInit, Compiled, FullHsi
<1>2. FullHsi \in Nat
  BY <1>1, SettingTypes
<1>3. NoPll \in Plls /\ <<NoPll, NoPll>> \in [{1, 2} -> Plls] /\ <<NoPll, NoPll>>[1] = NoPll
  <2>1. NoPll \in Plls
    BY DEF NoPll, Plls, Divider
  <2>2. 1..2 = {1, 2}
    OBVIOUS
  <2>3. <<NoPll, NoPll>> = [i \in 1..2 |-> NoPll]
    OBVIOUS
  <2> QED BY <2>1, <2>2, <2>3
<1>4. NoPrescaler \in [Buses -> Divider]
  BY DEF NoPrescaler, Divider
<1>5. rcc \in RccType
  BY <1>1, <1>2, <1>3, <1>4
     DEF RccType, ResetRcc, Sources, Oscillators, SpiGroups, SpiSources
<1>6. Fresh /\ PllOff /\ rcc.hsi = FullHsi /\ rcc.hsiPll = FullHsi /\ rcc.spi = H7Default.spi
  BY <1>1, <1>3 DEF ResetRcc, Fresh, PllOff, NoPll, H7Default
<1>7. step \in {"power", "osc"}
  BY <1>1
<1> QED BY <1>1, <1>5, <1>6, <1>7 DEF ClocksInv, PhaseInv, SelectInv, Steps

LEMMA H7Steps ==
  ASSUME ClocksInv, UNCHANGED <<chip, cs>>, chip = "h7", H7Clocks
  PROVE  ClocksInv'
<1>1. cs \in H7Settings /\ cs.pll1 \in Plls /\ cs.pll2 \in Plls /\ rcc \in RccType
  BY SettingsAssumption DEF ClocksInv, Compiled
<1>2. CASE H7Power
  <2>1. rcc' = rcc /\ step = "power" /\ step' = "osc"
    BY <1>2 DEF H7Power
  <2>2. Fresh' /\ PllOff'
    BY <2>1 DEF ClocksInv, PhaseInv, Fresh, PllOff
  <2> QED BY <2>1, <2>2, SettingsStay DEF ClocksInv, PhaseInv, SelectInv, Steps
<1>3. CASE H7OscConfig
  <2> DEFINE range == H7VciRange(H7PllInput(H7PllSource, cs.pll1))
             pll == IF cs.pll1.enable THEN cs.pll1 ELSE NoPll
  <2>1. step = "osc" /\ HalOscConfig(H7Hsi, H7Hsi, cs.pllSource, pll, range, "pll2")
    BY <1>3 DEF H7OscConfig
  <2>2. range \in 0..3 /\ pll \in Plls /\ IF cs.pll1.enable THEN pll = SystemPll ELSE ~pll.enable
    BY <1>1 DEF H7VciRange, NoPll, Plls, Divider, SystemPll
  <2>3. StartedHsi = H7Hsi /\ FullHsi = H7Hsi
    BY DEF StartedHsi, FullHsi
  <2> HIDE DEF range, pll
  <2> QED BY <2>1, <2>2, <2>3, OscStep
<1>4. CASE H7Pll2
  <2>1. step = "pll2" /\ step' = "clk"
        /\ rcc' = IF cs.pll2.enable THEN [rcc EXCEPT !.pll[2] = cs.pll2] ELSE rcc
    BY <1>4 DEF H7Pll2
  <2>2. /\ rcc' \in RccType /\ rcc'.pll[1] = rcc.pll[1]
        /\ cs.pll2.enable => rcc'.pll[2] = cs.pll2
        /\ rcc'.hsi = rcc.hsi /\ rcc'.hsiPll = rcc.hsiPll /\ rcc'.pllSource = rcc.pllSource
        /\ rcc'.sysclk = rcc.sysclk /\ rcc'.pre = rcc.pre /\ rcc'.ws = rcc.ws
        /\ rcc'.spi = rcc.spi
    <3> DEFINE plls == [rcc.pll EXCEPT ![2] = cs.pll2]
    <3>1. plls \in [{1, 2} -> Plls] /\ plls[1] = rcc.pll[1] /\ plls[2] = cs.pll2
      BY <1>1 DEF RccType
    <3>2. rcc' = IF cs.pll2.enable THEN [rcc EXCEPT !.pll = plls] ELSE rcc
      BY <1>1, <2>1 DEF RccType
    <3> HIDE DEF plls
    <3> QED BY <1>1, <3>1, <3>2 DEF RccType
  <2>3. Fresh' /\ Started'
    BY <2>1, <2>2, SettingsStay DEF ClocksInv, PhaseInv, Fresh, Started
  <2> QED BY <2>1, <2>2, <2>3, SettingsStay DEF ClocksInv, PhaseInv, SelectInv, Steps
<1>5. CASE H7ClockConfig
  <2>1. step = "clk" /\ HalClockConfig(Asked, Prescalers, WaitStates, "spi")
    BY <1>5 DEF H7ClockConfig, Asked, Prescalers, WaitStates
  <2> QED BY <2>1, SwitchStep
<1>6. CASE H7SpiClocks
  <2> DEFINE spi == [g \in SpiGroups |-> IF cs.spi[g] # H7Default.spi[g] THEN cs.spi[g] ELSE rcc.spi[g]]
  <2>1. step = "spi" /\ step' = "done" /\ rcc' = [rcc EXCEPT !.spi = spi]
    BY <1>6 DEF H7SpiClocks
  <2>2. rcc.spi = H7Default.spi
    BY <2>1 DEF ClocksInv, SelectInv
  <2>3. /\ spi \in [SpiGroups -> SpiSources]
        /\ \A g \in SpiGroups : spi[g] = cs.spi[g]
    BY <1>1, <2>2, SettingsAssumption DEF RccType
  <2> HIDE DEF spi
  <2>4. /\ rcc' \in RccType /\ rcc'.spi = spi /\ rcc'.pll = rcc.pll
        /\ rcc'.hsi = rcc.hsi /\ rcc'.hsiPll = rcc.hsiPll /\ rcc'.pllSource = rcc.pllSource
        /\ rcc'.sysclk = rcc.sysclk /\ rcc'.pre = rcc.pre /\ rcc'.ws = rcc.ws
    BY <1>1, <2>1, <2>3 DEF RccType
  <2>5. Switched'
    BY <2>1, <2>4, SettingsStay DEF ClocksInv, PhaseInv, Switched, Started
  <2> QED BY <2>1, <2>3, <2>4, <2>5, SettingsStay DEF ClocksInv, PhaseInv, SelectInv, Steps
<1> QED BY <1>2, <1>3, <1>4, <1>5, <1>6 DEF H7Clocks

LEMMA H5Steps ==
  ASSUME ClocksInv, UNCHANGED <<chip, cs>>, chip = "h5", H5Clocks
  PROVE  ClocksInv'
<1>1. cs.pll1 \in Plls
  BY SettingTypes DEF ClocksInv
<1>2. CASE H5OscConfig
  <2> DEFINE range == H5VciRange(H5PllInput(H5PllSource, cs.pll1))
             pll == IF cs.pll1.enable THEN cs.pll1 ELSE NoPll
  <2>1. /\ step = "osc"
        /\ HalOscConfig(H5Hsi \div 2, H5Hsi \div 2, cs.pllSource, pll, range, "clk")
    BY <1>2 DEF H5OscConfig
  <2>2. range \in 0..3 /\ pll \in Plls /\ IF cs.pll1.enable THEN pll = SystemPll ELSE ~pll.enable
    BY <1>1 DEF H5VciRange, NoPll, Plls, Divider, SystemPll
  <2>3. StartedHsi = H5Hsi \div 2 /\ FullHsi = H5Hsi \div 2
    BY DEF StartedHsi, FullHsi
  <2> HIDE DEF range, pll
  <2> QED BY <2>1, <2>2, <2>3, OscStep
<1>3. CASE H5ClockConfig
  <2>1. step = "clk" /\ HalClockConfig(Asked, Prescalers, WaitStates, "done")
    BY <1>3 DEF H5ClockConfig, Asked, Prescalers, WaitStates
  <2> QED BY <2>1, SwitchStep
<1> QED BY <1>2, <1>3 DEF H5Clocks

LEMMA G0Steps ==
  ASSUME ClocksInv, UNCHANGED <<chip, cs>>, chip = "g0", G0Clocks
  PROVE  ClocksInv'
<1>1. SystemPll \in Plls /\ SystemPll = G0Pll
  BY SettingTypes DEF ClocksInv, SystemPll
<1>2. CASE G0OscConfig
  <2> DEFINE pll == IF cs.pll1.enable THEN G0Pll ELSE NoPll
  <2>1. step = "osc" /\ HalOscConfig(G0Hsi \div cs.hsiPre, G0Hsi, cs.pllSource, pll, 0, "clk")
    BY <1>2 DEF G0OscConfig
  <2>2. pll \in Plls /\ IF cs.pll1.enable THEN pll = SystemPll ELSE ~pll.enable
    BY <1>1 DEF NoPll, Plls, Divider
  <2>3. StartedHsi = G0Hsi \div cs.hsiPre /\ FullHsi = G0Hsi
    BY DEF StartedHsi, FullHsi, G0ScaledHsi
  <2> HIDE DEF pll
  <2> QED BY <2>1, <2>2, <2>3, OscStep
<1>3. CASE G0ClockConfig
  <2>1. step = "clk" /\ HalClockConfig(Asked, Prescalers, WaitStates, "done")
    BY <1>3 DEF G0ClockConfig, Asked, Prescalers, WaitStates
  <2> QED BY <2>1, SwitchStep
<1> QED BY <1>2, <1>3 DEF G0Clocks

LEMMA G4Steps ==
  ASSUME ClocksInv, UNCHANGED <<chip, cs>>, chip = "g4", G4Clocks
  PROVE  ClocksInv'
<1>1. cs.pll1 \in Plls /\ rcc \in RccType /\ cs.i2c \in {"pclk1", "sysclk", "hsi"}
  BY SettingTypes, SettingsAssumption DEF ClocksInv, Compiled
<1>2. CASE G4OscConfig
  <2> DEFINE pll == IF cs.pll1.enable THEN cs.pll1 ELSE rcc.pll[1]
  <2>1. step = "osc" /\ HalOscConfig(G4Hsi, G4Hsi, cs.pllSource, pll, 0, "clk")
    BY <1>2 DEF G4OscConfig
  <2>2. pll \in Plls /\ IF cs.pll1.enable THEN pll = SystemPll ELSE ~pll.enable
    BY <1>1, <2>1 DEF RccType, SystemPll, ClocksInv, PhaseInv, PllOff
  <2>3. StartedHsi = G4Hsi /\ FullHsi = G4Hsi
    BY DEF StartedHsi, FullHsi
  <2> HIDE DEF pll
  <2> QED BY <2>1, <2>2, <2>3, OscStep
<1>3. CASE G4ClockConfig
  <2>1. step = "clk" /\ HalClockConfig(Asked, Prescalers, WaitStates, "i2c")
    BY <1>3 DEF G4ClockConfig, Asked, Prescalers, WaitStates
  <2> QED BY <2>1, SwitchStep
<1>4. CASE G4PeriphClocks
  <2>1. /\ step = "i2c"
        /\ \/ rcc' = [rcc EXCEPT !.i2c = cs.i2c] /\ step' = "done"
           \/ rcc' = rcc /\ step' = "failed"
    BY <1>4 DEF G4PeriphClocks, G4I2cSelect
  <2>2. /\ rcc' \in RccType /\ (step' = "done" => rcc'.i2c = cs.i2c) /\ rcc'.pll = rcc.pll
        /\ rcc'.hsi = rcc.hsi /\ rcc'.hsiPll = rcc.hsiPll /\ rcc'.pllSource = rcc.pllSource
        /\ rcc'.sysclk = rcc.sysclk /\ rcc'.pre = rcc.pre /\ rcc'.ws = rcc.ws
    BY <1>1, <2>1 DEF RccType
  <2>3. Switched'
    BY <2>1, <2>2, SettingsStay DEF ClocksInv, PhaseInv, Switched, Started
  <2> QED BY <2>1, <2>2, <2>3, SettingsStay DEF ClocksInv, PhaseInv, SelectInv, Steps
<1> QED BY <1>2, <1>3, <1>4 DEF G4Clocks

(* In every reachable state the controller is fresh from reset, or does    *)
(* what the settings ask; nothing in between.                              *)
THEOREM ClocksInvariant == ClocksSpec => []ClocksInv
<1>1. ClocksInit => ClocksInv
  BY ClocksStart
<1>2. ClocksInv /\ [ClocksNext]_clockVars => ClocksInv'
  <2> SUFFICES ASSUME ClocksInv, [ClocksNext]_clockVars
               PROVE  ClocksInv'
    OBVIOUS
  <2>1. CASE ClocksNext
    BY <2>1, H7Steps, H5Steps, G0Steps, G4Steps DEF ClocksNext
  <2>2. CASE UNCHANGED clockVars
    <3>1. UNCHANGED <<chip, cs>> /\ rcc' = rcc /\ step' = step
      BY <2>2 DEF clockVars
    <3>2. PhaseInv' /\ SelectInv'
      BY <3>1, SettingsStay
         DEF ClocksInv, PhaseInv, SelectInv, Fresh, PllOff, Started, Switched
    <3> QED BY <3>1, <3>2, SettingsStay DEF ClocksInv
  <2> QED BY <2>1, <2>2
<1> QED BY <1>1, <1>2, PTL DEF ClocksSpec

-----------------------------------------------------------------------------
(* Of finitely many dividers one comes nearest, and of several that do,    *)
(* there is a smallest.                                                    *)
SpiDividers == {2, 4, 8, 16, 32, 64, 128, 256}
Below(k) == {q \in SpiDividers : q < k}
First(err, k) ==
    \E p \in Below(k) : \A q \in Below(k) : err[p] < err[q] \/ (err[p] = err[q] /\ p <= q)

LEMMA FirstOfMore ==
  ASSUME NEW err \in [SpiDividers -> Nat], NEW k \in SpiDividers, First(err, k)
  PROVE  First(err, 2 * k)
<1>1. PICK p \in Below(k) : \A q \in Below(k) : err[p] < err[q] \/ (err[p] = err[q] /\ p <= q)
  BY DEF First
<1>2. Below(2 * k) = Below(k) \union {k}
  BY DEF Below, SpiDividers
<1>3. p \in Nat /\ k \in Nat /\ p < k /\ p \in SpiDividers /\ \A q \in Below(k) : q \in Nat /\ q < k
  BY <1>1 DEF Below, SpiDividers
<1>4. err[p] \in Nat /\ err[k] \in Nat /\ \A q \in Below(k) : err[q] \in Nat
  BY <1>3 DEF Below
<1>5. CASE err[p] <= err[k]
  <2>1. \A q \in Below(2 * k) : err[p] < err[q] \/ (err[p] = err[q] /\ p <= q)
    BY <1>1, <1>2, <1>3, <1>4, <1>5
  <2> QED BY <1>1, <1>2, <2>1 DEF First
<1>6. CASE err[k] < err[p]
  <2>1. \A q \in Below(2 * k) : err[k] < err[q] \/ (err[k] = err[q] /\ k <= q)
    BY <1>1, <1>2, <1>3, <1>4, <1>6
  <2> QED BY <1>2, <2>1 DEF First
<1> QED BY <1>4, <1>5, <1>6

LEMMA FirstExists ==
  ASSUME NEW err \in [SpiDividers -> Nat]
  PROVE  First(err, 512)
<1>1. First(err, 4)
  <2>1. Below(4) = {2}
    BY DEF Below, SpiDividers
  <2> QED BY <2>1 DEF First
<1>2. \A k \in SpiDividers : First(err, k) => First(err, 2 * k)
  BY FirstOfMore
<1>3. First(err, 8) BY <1>1, <1>2, 2 * 4 = 8 DEF SpiDividers
<1>4. First(err, 16) BY <1>3, <1>2, 2 * 8 = 16 DEF SpiDividers
<1>5. First(err, 32) BY <1>4, <1>2, 2 * 16 = 32 DEF SpiDividers
<1>6. First(err, 64) BY <1>5, <1>2, 2 * 32 = 64 DEF SpiDividers
<1>7. First(err, 128) BY <1>6, <1>2, 2 * 64 = 128 DEF SpiDividers
<1>8. First(err, 256) BY <1>7, <1>2, 2 * 128 = 256 DEF SpiDividers
<1> QED BY <1>8, <1>2, 2 * 256 = 512 DEF SpiDividers

(* So FindPrescalerValue finds it. *)
LEMMA FoundIsNearest ==
  ASSUME NEW clk \in Nat, NEW baud \in Nat, NEW divider,
         divider = CHOOSE p \in SpiDividers :
                     \A q \in SpiDividers :
                       \/ Distance(clk \div p, baud) < Distance(clk \div q, baud)
                       \/ Distance(clk \div p, baud) = Distance(clk \div q, baud) /\ p <= q
  PROVE  Nearest(clk, baud, divider)
<1> DEFINE err == [p \in SpiDividers |-> Distance(clk \div p, baud)]
<1>1. SpiDividers \subseteq Divider
  BY DEF SpiDividers, Divider
<1>2. \A p \in SpiDividers : Distance(clk \div p, baud) \in Nat
  BY <1>1, Quotient DEF Distance
<1>3. err \in [SpiDividers -> Nat] /\ \A p \in SpiDividers : err[p] = Distance(clk \div p, baud)
  BY <1>2
<1> HIDE DEF err
<1>4. First(err, 512) /\ Below(512) = SpiDividers
  BY <1>3, FirstExists DEF Below, SpiDividers
<1>5. \E p \in SpiDividers :
        \A q \in SpiDividers :
          \/ Distance(clk \div p, baud) < Distance(clk \div q, baud)
          \/ Distance(clk \div p, baud) = Distance(clk \div q, baud) /\ p <= q
  BY <1>3, <1>4 DEF First
<1>6. \A q \in SpiDividers :
          \/ Distance(clk \div divider, baud) < Distance(clk \div q, baud)
          \/ Distance(clk \div divider, baud) = Distance(clk \div q, baud) /\ divider <= q
  BY <1>5
<1>7. divider \in SpiDividers
  BY <1>5
<1> HIDE DEF Distance
<1>8. \A q \in SpiDividers : Distance(clk \div divider, baud) <= Distance(clk \div q, baud)
  BY <1>2, <1>6, <1>7
<1> QED BY <1>8 DEF Nearest, SpiDividers

-----------------------------------------------------------------------------
(* How fast the hardware runs, fed by the HSI: before the switch ... *)
LEMMA FreshFrequencies ==
  ASSUME rcc \in RccType, Fresh, NEW b \in Buses
  PROVE  Real(b) = rcc.hsi
<1>1. rcc.hsi \in Nat /\ rcc.on = {"hsi"}
  BY DEF RccType
<1>2. OscFrequency("hsi") = rcc.hsi
  BY <1>1 DEF OscFrequency
<1>3. rcc.hsi \div 1 = rcc.hsi
  BY <1>1, ByOne
<1>4. \A x \in Buses : NoPrescaler[x] = 1
  BY DEF NoPrescaler
<1> QED BY <1>2, <1>3, <1>4 DEF Fresh, Real, BusFrequency, Buses, ApbBuses

(* ... a PLL ... *)
LEMMA PllRuns ==
  ASSUME ClocksInv, rcc.pllSource = "hsi", NEW i \in {1, 2}, rcc.pll[i].enable, NEW div \in Divider
  PROVE  /\ PllFrequency(i, div) = (FullHsi * rcc.pll[i].n) \div (rcc.pll[i].m * div)
         /\ PllFrequency(i, div) = ((FullHsi * rcc.pll[i].n) \div rcc.pll[i].m) \div div
         /\ FullHsi * rcc.pll[i].n \in Nat
<1>1. rcc.pll[i].n \in Nat /\ rcc.pll[i].m \in Divider /\ FullHsi \in Nat
  BY SettingTypes DEF ClocksInv, RccType, Plls
<1>2. PllFrequency(i, div) = (FullHsi * rcc.pll[i].n) \div (rcc.pll[i].m * div)
  BY DEF PllFrequency, ClocksInv
<1>3. FullHsi * rcc.pll[i].n \in Nat
  BY <1>1
<1> QED BY <1>1, <1>2, <1>3, DivideTwice

(* ... and after the switch. *)
RealSystem ==
    IF Asked = "pll" THEN PllFrequency(1, SystemPll[PllOut]) ELSE StartedHsi

LEMMA SwitchedFrequencies ==
  ASSUME ClocksInv, Switched
  PROVE  /\ RealSystem \in Nat
         /\ Real("core") = RealSystem \div Prescalers["core"]
         /\ Real("ahb") = (RealSystem \div Prescalers["core"]) \div Prescalers["ahb"]
         /\ \A b \in ApbBuses :
              Real(b) = ((RealSystem \div Prescalers["core"]) \div Prescalers["ahb"])
                           \div Prescalers[b]
         /\ \A b \in Buses : rcc.pre[b] = Prescalers[b] /\ Prescalers[b] \in Divider
<1>1. SystemPll \in Plls /\ StartedHsi \in Nat /\ Prescalers \in [Buses -> Divider]
  BY SettingTypes DEF ClocksInv
<1>2. SystemPll[PllOut] \in Divider
  BY <1>1 DEF PllOut, Plls
<1>3. Asked = "pll" => rcc.pll[1] = SystemPll /\ rcc.pll[1].enable
  <2>1. Asked = "pll" => cs.pll1.enable /\ rcc.pll[1] = SystemPll
    BY DEF Switched, Started
  <2>2. SystemPll.enable = cs.pll1.enable
    BY SettingTypes DEF SystemPll, G0Pll, Plls, ClocksInv
  <2> QED BY <2>1, <2>2
<1>4. RealSystem = IF rcc.sysclk = "pll" THEN PllFrequency(1, rcc.pll[1][PllOut])
                   ELSE OscFrequency(rcc.sysclk)
  BY <1>3 DEF RealSystem, Switched, Started, OscFrequency, ClocksInv, RccType
<1>5. RealSystem \in Nat
  <2>1. CASE Asked = "pll"
    <3>1. rcc.pll[1].m \in Divider
      BY <1>1, <1>3, <2>1 DEF Plls
    <3>2. /\ rcc.pllSource = "hsi"
          /\ rcc.pll[1].enable
      BY <1>3, <2>1 DEF Switched, Started
    <3>3. /\ RealSystem = ((FullHsi * rcc.pll[1].n) \div rcc.pll[1].m) \div SystemPll[PllOut]
          /\ FullHsi * rcc.pll[1].n \in Nat
      BY <1>2, <2>1, <3>2, PllRuns DEF RealSystem
    <3> QED BY <1>2, <3>1, <3>3, Quotient
  <2>2. CASE Asked # "pll"
    BY <1>1, <2>2 DEF RealSystem
  <2> QED BY <2>1, <2>2
<1>6. rcc.pre = Prescalers
  BY DEF Switched
<1> QED BY <1>1, <1>4, <1>5, <1>6 DEF Real, BusFrequency, ApbBuses, Buses

-----------------------------------------------------------------------------
(* STM32H7: multiplies first, as the hardware in effect does, so that both *)
(* agree to the last unit unless the product wraps.                        *)
LEMMA H7Outputs ==
  ASSUME cs.pllSource = "hsi", NEW pll \in Plls, NEW div \in Divider, ~Wraps(pll)
  PROVE  H7Output(H7PllSource, pll, div) = ((H7Hsi * pll.n) \div pll.m) \div div
<1>1. H7PllSource = H7Hsi
  BY DEF H7PllSource, H7Oscillator
<1>2. H7Hsi * pll.n \in Nat /\ H7Hsi * pll.n < Wrap
  BY <1>1 DEF Wraps, H7Hsi, MHz, Plls, Wrap
<1>3. (H7Hsi * pll.n) % Wrap = H7Hsi * pll.n
  BY <1>2, SmallModulus
<1> QED BY <1>1, <1>3 DEF H7Output, H7PllOutput

LEMMA H7Frequencies ==
  ASSUME ClocksInv, Switched, chip = "h7", cs.sysclk # "pll" \/ ~Wraps(cs.pll1)
  PROVE  \A b \in Buses : Real(b) = H7Bus(b)
<1>1. cs.pll1 \in Plls /\ cs.pll1.p \in Divider
  BY SettingTypes DEF ClocksInv, Plls
<1>2. RealSystem = H7SysClk
  <2>1. CASE cs.sysclk = "pll"
    <3>1. /\ rcc.pllSource = "hsi" /\ cs.pllSource = "hsi" /\ rcc.pll[1] = cs.pll1
          /\ cs.pll1.enable
      BY <2>1 DEF Switched, Started, Asked, SystemPll
    <3>2. /\ RealSystem = PllFrequency(1, cs.pll1.p) /\ FullHsi = H7Hsi
      BY <2>1 DEF RealSystem, Asked, SystemPll, PllOut, FullHsi
    <3>3. PllFrequency(1, cs.pll1.p) = ((H7Hsi * cs.pll1.n) \div cs.pll1.m) \div cs.pll1.p
      BY <1>1, <3>1, <3>2, PllRuns
    <3> QED BY <1>1, <2>1, <3>1, <3>2, <3>3, H7Outputs DEF H7SysClk
  <2>2. CASE cs.sysclk # "pll"
    <3>1. cs.sysclk = "hsi"
      BY <2>2 DEF Switched, Asked
    <3> QED BY <3>1 DEF RealSystem, Asked, StartedHsi, FullHsi, H7SysClk, H7Oscillator
  <2> QED BY <2>1, <2>2
<1>3. \A b \in Buses : Prescalers[b] = cs.pre[b]
  BY DEF Prescalers, H7Prescalers
<1> QED BY <1>2, <1>3, SwitchedFrequencies DEF H7Bus, Buses, ApbBuses

(* STM32H5: runs at half, up to rounding. *)
LEMMA H5Frequencies ==
  ASSUME ClocksInv, Switched, chip = "h5", cs.sysclk = "pll" => Exact(H5PllSource, cs.pll1)
  PROVE  /\ H5SysClk \in Nat /\ RealSystem = H5SysClk \div 2
         /\ \A b \in H5Buses : H5Bus(b) \in Nat /\ Real(b) = H5Bus(b) \div 2
<1>1. /\ cs.pll1 \in Plls /\ cs.pll1.p \in Divider /\ cs.pll1.m \in Divider /\ cs.pll1.n \in Nat
      /\ cs \in H5Settings /\ H5Validate
  BY SettingTypes DEF ClocksInv, Plls, Compiled
<1>2. H5SysClk \in Nat /\ \A b \in H5Buses : H5Bus(b) \in Nat
  BY <1>1, H5BusTypes
<1>3. RealSystem = H5SysClk \div 2
  <2>1. CASE cs.sysclk = "pll"
    <3> DEFINE k == H5Hsi \div cs.pll1.m
               a == (H5Hsi \div 2) * cs.pll1.n
    <3>1. /\ rcc.pllSource = "hsi" /\ cs.pllSource = "hsi" /\ rcc.pll[1] = cs.pll1
          /\ cs.pll1.enable
      BY <2>1 DEF Switched, Started, Asked, SystemPll
    <3>2. RealSystem = PllFrequency(1, cs.pll1.p) /\ FullHsi = H5Hsi \div 2
      BY <2>1 DEF RealSystem, Asked, SystemPll, PllOut, FullHsi
    <3>3. /\ a \in Nat
          /\ RealSystem = a \div (cs.pll1.m * cs.pll1.p)
      BY <1>1, <3>1, <3>2, PllRuns
    <3>4. /\ H5PllSource = H5Hsi /\ H5Hsi \in Nat /\ H5Hsi = 2 * (H5Hsi \div 2)
          /\ H5Hsi \div 2 \in Nat
      BY <3>1 DEF H5PllSource, H5Oscillator, H5Hsi, MHz
    <3>5. k \in Nat /\ cs.pll1.m * k = H5Hsi /\ k * cs.pll1.n < Wrap
      BY <1>1, <2>1, <3>4, NoRemainder, Quotient DEF Exact, Fits
    <3>6. k * cs.pll1.n \in Nat
      BY <1>1, <3>5
    <3>7. H5SysClk = (k * cs.pll1.n) \div cs.pll1.p
      BY <2>1, <3>4, <3>5, <3>6, SmallModulus DEF H5SysClk, H5Output, H5PllOutput, H5PllInput
    <3>8. 2 * a = cs.pll1.m * (k * cs.pll1.n)
      <4>1. 2 * a = (2 * (H5Hsi \div 2)) * cs.pll1.n
        BY <1>1, <3>4
      <4>2. (cs.pll1.m * k) * cs.pll1.n = cs.pll1.m * (k * cs.pll1.n)
        BY <1>1, <3>5 DEF Divider
      <4> QED BY <3>4, <3>5, <4>1, <4>2
    <3> HIDE DEF k, a
    <3>9. H5SysClk \div 2 = (k * cs.pll1.n) \div (cs.pll1.p * 2)
      BY <1>1, <3>6, <3>7, DivideTwice DEF Divider
    <3>10. cs.pll1.p * 2 \in Divider /\ cs.pll1.m * cs.pll1.p \in Divider /\ 2 \in Divider
      BY <1>1, ProductDivides DEF Divider
    <3>11. (cs.pll1.m * (k * cs.pll1.n)) \div (cs.pll1.m * (cs.pll1.p * 2)) = H5SysClk \div 2
      BY <1>1, <3>6, <3>9, <3>10, CancelFactor
    <3>12. (2 * a) \div (2 * (cs.pll1.m * cs.pll1.p)) = RealSystem
      BY <3>3, <3>10, CancelFactor
    <3>13. cs.pll1.m * (cs.pll1.p * 2) = 2 * (cs.pll1.m * cs.pll1.p)
      BY <1>1 DEF Divider
    <3> QED BY <3>8, <3>11, <3>12, <3>13
  <2>2. CASE cs.sysclk # "pll"
    <3>1. cs.sysclk = "hsi"
      BY <2>2 DEF Switched, Asked
    <3> QED BY <3>1 DEF RealSystem, Asked, StartedHsi, FullHsi, H5SysClk, H5Oscillator
  <2> QED BY <2>1, <2>2
<1>4. /\ Prescalers["core"] = 1
      /\ \A b \in H5Buses : Prescalers[b] = cs.pre[b] /\ cs.pre[b] \in Divider
  <2>1. H5Buses \subseteq Buses /\ "core" \in Buses \ H5Buses
    BY DEF H5Buses, Buses
  <2> QED BY <2>1, SwitchedFrequencies DEF Prescalers, H5Prescalers
<1>5. 2 \in Divider /\ RealSystem \in Nat /\ RealSystem \div 1 = RealSystem
  BY SwitchedFrequencies, ByOne DEF Divider
<1>6. \A b \in H5Buses : Real(b) = H5Bus(b) \div 2
  <2> DEFINE ahb == H5SysClk \div cs.pre["ahb"]
  <2>1. "ahb" \in H5Buses /\ cs.pre["ahb"] \in Divider
    BY <1>4 DEF H5Buses
  <2>2. ahb \in Nat
    BY <1>2, <2>1, Quotient
  <2>3. Real("ahb") = ahb \div 2
    BY <1>2, <1>3, <1>4, <1>5, <2>1, SwitchedFrequencies, DivisionsCommute
  <2>4. H5Bus("ahb") = ahb
    BY <2>2, ByOne DEF H5Bus
  <2>5. ASSUME NEW b \in H5Buses \ {"ahb"} PROVE Real(b) = H5Bus(b) \div 2
    <3>1. b \in ApbBuses /\ cs.pre[b] \in Divider /\ Prescalers[b] = cs.pre[b]
      BY <1>4, <2>5 DEF H5Buses, ApbBuses
    <3>2. Real(b) = (ahb \div 2) \div cs.pre[b]
      BY <1>4, <1>5, <2>1, <2>3, <3>1, SwitchedFrequencies
    <3>3. H5Bus(b) = ahb \div cs.pre[b]
      BY <2>5 DEF H5Bus
    <3> QED BY <1>5, <2>2, <3>1, <3>2, <3>3, DivisionsCommute
  <2> QED BY <2>3, <2>4, <2>5
<1> QED BY <1>2, <1>3, <1>6

(* And never above what was claimed, though the input of the PLL that the  *)
(* settings count with may have been cut to a whole number.                *)
LEMMA H5Bounds ==
  ASSUME ClocksInv, Switched, chip = "h5", cs.sysclk = "pll" => Fits(H5PllSource, cs.pll1)
  PROVE  \A b \in H5Buses : Real(b) \in Nat /\ H5Bus(b) \in Nat /\ Real(b) <= H5Bus(b)
<1>1. /\ cs.pll1 \in Plls /\ cs.pll1.p \in Divider /\ cs.pll1.m \in Divider /\ cs.pll1.n \in Nat
      /\ cs \in H5Settings /\ H5Validate
  BY SettingTypes DEF ClocksInv, Plls, Compiled
<1>2. H5SysClk \in Nat /\ RealSystem \in Nat
  BY <1>1, H5BusTypes, SwitchedFrequencies
<1>3. RealSystem <= H5SysClk
  <2>1. CASE cs.sysclk = "pll"
    <3> DEFINE half == H5Hsi \div 2
               k == H5Hsi \div cs.pll1.m
    <3>1. /\ rcc.pllSource = "hsi" /\ cs.pllSource = "hsi" /\ rcc.pll[1] = cs.pll1
          /\ cs.pll1.enable
      BY <2>1 DEF Switched, Started, Asked, SystemPll
    <3>2. RealSystem = PllFrequency(1, cs.pll1.p) /\ FullHsi = half
      BY <2>1 DEF RealSystem, Asked, SystemPll, PllOut, FullHsi
    <3>3. half * cs.pll1.n \in Nat /\ RealSystem = (half * cs.pll1.n) \div (cs.pll1.m * cs.pll1.p)
      BY <1>1, <3>1, <3>2, PllRuns
    <3>4. H5PllSource = H5Hsi /\ H5Hsi \in Nat /\ H5Hsi = 2 * half /\ half \in Nat
      BY <3>1 DEF H5PllSource, H5Oscillator, H5Hsi, MHz
    <3>5. k \in Nat /\ H5Hsi < cs.pll1.m * k + cs.pll1.m /\ k * cs.pll1.n < Wrap
      BY <1>1, <2>1, <3>4, Quotient DEF Fits
    <3>6. k * cs.pll1.n \in Nat
      BY <1>1, <3>5
    <3>7. H5PllOutput(H5PllSource, cs.pll1) = k * cs.pll1.n
      BY <3>4, <3>5, <3>6, SmallModulus DEF H5PllOutput, H5PllInput
    <3>8. H5SysClk = (k * cs.pll1.n) \div cs.pll1.p
      BY <2>1, <3>7 DEF H5SysClk, H5Output
    <3>9. k >= 1
      <4>1. k * cs.pll1.n >= 150 * MHz
        BY <1>1, <3>1, <3>7 DEF H5Validate, H5VcoExists
      <4>2. k # 0
        BY <1>1, <4>1 DEF MHz
      <4> QED BY <3>5, <4>2
    <3> HIDE DEF k, half
    <3>10. half <= cs.pll1.m * k
      <4>1. cs.pll1.m <= cs.pll1.m * k /\ cs.pll1.m * k \in Nat /\ cs.pll1.m \in Nat
        BY <1>1, <3>5, <3>9 DEF Divider
      <4> QED BY <3>4, <3>5, <4>1
    <3>11. half * cs.pll1.n <= cs.pll1.m * (k * cs.pll1.n)
      <4>1. half * cs.pll1.n <= (cs.pll1.m * k) * cs.pll1.n
        BY <1>1, <3>4, <3>5, <3>10 DEF Divider
      <4>2. (cs.pll1.m * k) * cs.pll1.n = cs.pll1.m * (k * cs.pll1.n)
        BY <1>1, <3>5 DEF Divider
      <4> QED BY <4>1, <4>2
    <3>12. cs.pll1.m * cs.pll1.p \in Divider /\ cs.pll1.m * (k * cs.pll1.n) \in Nat
      BY <1>1, <3>6, ProductDivides DEF Divider
    <3>13. RealSystem <= (cs.pll1.m * (k * cs.pll1.n)) \div (cs.pll1.m * cs.pll1.p)
      BY <3>3, <3>11, <3>12, QuotientMonotonic
    <3>14. (cs.pll1.m * (k * cs.pll1.n)) \div (cs.pll1.m * cs.pll1.p) = H5SysClk
      BY <1>1, <3>6, <3>8, CancelFactor
    <3> QED BY <3>13, <3>14
  <2>2. CASE cs.sysclk # "pll"
    <3>1. cs.sysclk = "hsi"
      BY <2>2 DEF Switched, Asked
    <3>2. H5SysClk = H5Hsi /\ RealSystem = H5Hsi \div 2
      BY <3>1 DEF RealSystem, Asked, StartedHsi, FullHsi, H5SysClk, H5Oscillator
    <3> QED BY <3>2 DEF H5Hsi, MHz
  <2> QED BY <2>1, <2>2
<1>4. /\ Prescalers["core"] = 1
      /\ \A b \in H5Buses : Prescalers[b] = cs.pre[b] /\ cs.pre[b] \in Divider
  <2>1. H5Buses \subseteq Buses /\ "core" \in Buses \ H5Buses
    BY DEF H5Buses, Buses
  <2> QED BY <2>1, SwitchedFrequencies DEF Prescalers, H5Prescalers
<1> DEFINE real == RealSystem \div cs.pre["ahb"]
           told == H5SysClk \div cs.pre["ahb"]
<1>5. real \in Nat /\ told \in Nat /\ real <= told
  <2>1. cs.pre["ahb"] \in Divider
    BY <1>4 DEF H5Buses
  <2> QED BY <1>2, <1>3, <2>1, Quotient, QuotientMonotonic
<1>6. Real("ahb") = real /\ H5Bus("ahb") = told
  <2>1. RealSystem \div 1 = RealSystem /\ told \div 1 = told /\ "ahb" \in H5Buses
    BY <1>2, <1>5, ByOne DEF H5Buses
  <2> QED BY <1>4, <2>1, SwitchedFrequencies DEF H5Bus
<1>7. ASSUME NEW b \in H5Buses \ {"ahb"}
      PROVE  Real(b) = real \div cs.pre[b] /\ H5Bus(b) = told \div cs.pre[b] /\ cs.pre[b] \in Divider
  <2>1. RealSystem \div 1 = RealSystem /\ b \in ApbBuses /\ "ahb" \in H5Buses
    BY <1>2, <1>7, ByOne DEF H5Buses, ApbBuses
  <2> QED BY <1>4, <2>1, SwitchedFrequencies DEF H5Bus
<1> HIDE DEF real, told
<1>8. \A b \in H5Buses \ {"ahb"} : Real(b) \in Nat /\ H5Bus(b) \in Nat /\ Real(b) <= H5Bus(b)
  BY <1>5, <1>7, Quotient, QuotientMonotonic
<1> QED BY <1>5, <1>6, <1>8

(* STM32G0: divides first, which is exact if the input of the PLL is whole. *)
LEMMA G0Frequencies ==
  ASSUME ClocksInv, Switched, chip = "g0", cs.sysclk = "pll" => G0PllFits
  PROVE  /\ \A b \in {"ahb", "apb1"} : Real(b) = G0Bus(b) /\ Real(b) \in Nat
         /\ Prescalers["apb1"] = cs.pre["apb1"]
<1>1. /\ cs.pll1 \in Plls /\ cs.pll1.r \in Divider /\ cs.pll1.m \in Divider /\ cs.pll1.n \in Nat
      /\ cs \in G0Settings
  BY SettingTypes DEF ClocksInv, Plls, Compiled
<1>2. RealSystem = G0SysClk
  <2>1. CASE cs.sysclk = "pll"
    <3> DEFINE k == G0Hsi \div cs.pll1.m
    <3>1. /\ rcc.pllSource = "hsi" /\ cs.pllSource = "hsi" /\ rcc.pll[1] = G0Pll /\ G0Pll.enable
      <4>1. SystemPll = G0Pll /\ G0Pll.enable = cs.pll1.enable
        BY <1>1 DEF SystemPll, G0Pll, Plls
      <4> QED BY <2>1, <4>1 DEF Switched, Started, Asked
    <3>2. G0Pll.m = cs.pll1.m /\ G0Pll.r = cs.pll1.r /\ G0Pll.n = cs.pll1.n
      <4>1. ASSUME NEW x \in Divider, x <= 8 PROVE G0Field3(x) + 1 = x
        <5>1. x - 1 \in Nat /\ x - 1 < 8
          BY <4>1 DEF Divider
        <5>2. (x - 1) % 8 = x - 1
          BY <5>1
        <5> QED BY <5>1, <5>2 DEF G0Field3, Divider
      <4>2. G0Field3(cs.pll1.m) + 1 = cs.pll1.m /\ G0Field3(cs.pll1.r) + 1 = cs.pll1.r
        BY <1>1, <2>1, <4>1 DEF G0PllFits
      <4> QED BY <1>1, <4>2 DEF G0Pll, Plls
    <3>3. RealSystem = PllFrequency(1, G0Pll.r) /\ FullHsi = G0Hsi
      BY <2>1 DEF RealSystem, Asked, SystemPll, PllOut, FullHsi
    <3>4. RealSystem = ((G0Hsi * cs.pll1.n) \div cs.pll1.m) \div cs.pll1.r
      BY <1>1, <3>1, <3>2, <3>3, PllRuns
    <3>5. G0PllSource = G0Hsi /\ G0Hsi \in Nat
      BY <3>1 DEF G0PllSource, G0Hsi, MHz
    <3>6. k \in Nat /\ cs.pll1.m * k = G0Hsi /\ k * cs.pll1.n < Wrap
      BY <1>1, <2>1, <3>5, NoRemainder, Quotient DEF G0PllFits, Exact, Fits
    <3>7. k * cs.pll1.n \in Nat
      BY <1>1, <3>6
    <3>8. G0SysClk = (k * cs.pll1.n) \div cs.pll1.r
      BY <2>1, <3>5, <3>6, <3>7, SmallModulus DEF G0SysClk, G0Output
    <3> HIDE DEF k
    <3>9. G0Hsi * cs.pll1.n = cs.pll1.m * (k * cs.pll1.n)
      <4>1. (cs.pll1.m * k) * cs.pll1.n = cs.pll1.m * (k * cs.pll1.n)
        BY <1>1, <3>6 DEF Divider
      <4> QED BY <3>6, <4>1
    <3>10. (cs.pll1.m * (k * cs.pll1.n)) \div cs.pll1.m = k * cs.pll1.n
      <4>1. (cs.pll1.m * (k * cs.pll1.n)) \div (cs.pll1.m * 1) = (k * cs.pll1.n) \div 1
        BY <1>1, <3>7, CancelFactor DEF Divider
      <4>2. cs.pll1.m * 1 = cs.pll1.m /\ (k * cs.pll1.n) \div 1 = k * cs.pll1.n
        BY <1>1, <3>7, ByOne DEF Divider
      <4> QED BY <4>1, <4>2
    <3> QED BY <3>4, <3>8, <3>9, <3>10
  <2>2. CASE cs.sysclk # "pll"
    <3>1. cs.sysclk = "hsi"
      BY <2>2 DEF Switched, Asked
    <3> QED BY <3>1 DEF RealSystem, Asked, StartedHsi, G0SysClk
  <2> QED BY <2>1, <2>2
<1>3. Prescalers["core"] = 1 /\ Prescalers["ahb"] = cs.pre["ahb"] /\ Prescalers["apb1"] = cs.pre["apb1"]
  BY DEF Prescalers, G0Prescalers, Buses
<1> DEFINE ahb == RealSystem \div cs.pre["ahb"]
<1>4. cs.pre["ahb"] \in Divider /\ cs.pre["apb1"] \in Divider /\ RealSystem \in Nat
  BY <1>3, SwitchedFrequencies DEF Buses
<1>5. RealSystem \div 1 = RealSystem /\ ahb \in Nat /\ ahb \div 1 = ahb
  BY <1>4, ByOne, Quotient
<1>6. Real("ahb") = ahb /\ Real("apb1") = ahb \div cs.pre["apb1"]
  BY <1>3, <1>5, SwitchedFrequencies DEF ApbBuses
<1>7. G0Bus("ahb") = ahb /\ G0Bus("apb1") = ahb \div cs.pre["apb1"]
  BY <1>2, <1>5 DEF G0Bus
<1>8. ahb \div cs.pre["apb1"] \in Nat
  BY <1>4, <1>5, Quotient
<1> QED BY <1>3, <1>5, <1>6, <1>7, <1>8

(* STM32G4: only the PLL, and a product that fits for all settings that    *)
(* the constructor accepts.                                                *)
LEMMA G4Frequencies ==
  ASSUME ClocksInv, Switched, chip = "g4"
  PROVE  /\ Real("core") = G4SysClk /\ G4SysClk = G4PllClk /\ G4PllClk \in Nat
         /\ \A b \in {"ahb", "apb1", "apb2"} : Real(b) = G4PllClk /\ G4Bus(b) = G4PllClk
         /\ G4PllClk < 171 * MHz /\ G4PllClk <= (170 + G4Cut) * MHz
<1>1. /\ cs.pll1 \in Plls /\ cs.pll1.r \in Divider /\ cs.pll1.m \in Divider /\ cs.pll1.n \in Nat
      /\ cs.system = G4SystemDefault /\ G4Validate
  BY SettingTypes, SettingsAssumption DEF ClocksInv, Plls, Compiled
<1>2. Asked = "pll"
  BY <1>1 DEF Asked, G4SystemDefault
<1>3. rcc.pllSource = "hsi" /\ cs.pllSource = "hsi" /\ rcc.pll[1] = cs.pll1 /\ cs.pll1.enable
  BY <1>2 DEF Switched, Started, SystemPll
<1>4. RealSystem = PllFrequency(1, cs.pll1.r) /\ FullHsi = G4Hsi
  BY <1>2 DEF RealSystem, SystemPll, PllOut, FullHsi
<1>5. RealSystem = ((G4Hsi * cs.pll1.n) \div cs.pll1.m) \div cs.pll1.r
  BY <1>1, <1>3, <1>4, PllRuns
<1>6. G4Hsi * cs.pll1.n \in Nat /\ G4Hsi * cs.pll1.n < Wrap
  BY <1>1, <1>3 DEF G4Validate, G4Hsi, MHz, Wrap
<1>7. G4PllClk = RealSystem /\ G4PllClk \in Nat
  <2>1. G4PllClk = ((G4Hsi * cs.pll1.n) \div cs.pll1.m) \div cs.pll1.r
    BY <1>3, <1>6, SmallModulus DEF G4PllClk
  <2> QED BY <1>5, <2>1, SwitchedFrequencies
<1>8. G4SysClk = G4PllClk
  BY <1>1 DEF G4SysClk, G4SystemDefault
<1>9. \A b \in Buses : cs.system.pre[b] = 1 /\ Prescalers[b] = 1
  BY <1>1 DEF G4SystemDefault, NoPrescaler, Prescalers, G4Prescalers
<1>10. G4PllClk \div 1 = G4PllClk
  BY <1>7, ByOne
<1>11. Real("core") = G4PllClk /\ Real("ahb") = G4PllClk /\ \A b \in ApbBuses : Real(b) = G4PllClk
  BY <1>7, <1>9, <1>10, SwitchedFrequencies DEF Buses, ApbBuses
<1>12. \A b \in {"ahb", "apb1", "apb2"} : G4Bus(b) = G4PllClk
  BY <1>8, <1>9, <1>10 DEF G4Bus, Buses, ApbBuses
<1>13. G4PllClk < 171 * MHz
  <2>1. G4PllClk \div MHz <= 170 /\ MHz \in Divider
    BY <1>1, <1>3 DEF G4Validate, MHz, Divider
  <2>2. G4PllClk \div MHz \in Nat /\ G4PllClk < MHz * (G4PllClk \div MHz) + MHz
    BY <1>7, <2>1, Quotient
  <2>3. MHz * (G4PllClk \div MHz) <= MHz * 170
    BY <2>1, <2>2 DEF MHz
  <2> QED BY <1>7, <2>2, <2>3 DEF MHz
<1>14. G4PllClk <= (170 + G4Cut) * MHz
  <2>1. G4PllClk \div MHz <= 170 /\ MHz \in Divider
    BY <1>1, <1>3 DEF G4Validate, MHz, Divider
  <2>2. CASE G4PllClk % MHz = 0
    <3>1. G4PllClk = MHz * (G4PllClk \div MHz) /\ G4PllClk \div MHz \in Nat
      BY <1>7, <2>1, <2>2, NoRemainder, Quotient
    <3> QED BY <2>1, <2>2, <3>1 DEF G4Cut, MHz
  <2>3. CASE G4PllClk % MHz # 0
    BY <1>7, <1>13, <2>3 DEF G4Cut, MHz
  <2> QED BY <2>2, <2>3
<1> QED BY <1>7, <1>8, <1>11, <1>12, <1>13, <1>14 DEF ApbBuses

-----------------------------------------------------------------------------
(* When everything is configured. *)
LEMMA H7Claims ==
  ASSUME ClocksInv, step = "done", chip = "h7"
  PROVE  H7AsClaimed
<1>1. Switched /\ \A g \in SpiGroups : rcc.spi[g] = cs.spi[g]
  BY DEF ClocksInv, PhaseInv, SelectInv
<1>2. /\ cs.pll1 \in Plls /\ cs.pll2 \in Plls /\ rcc \in RccType
      /\ cs.spi \in [SpiGroups -> SpiSources]
  BY SettingTypes, SettingsAssumption DEF ClocksInv, Compiled
<1>3. ASSUME cs.sysclk # "pll" \/ ~Wraps(cs.pll1)
      PROVE  /\ \A b \in Buses : Real(b) = H7Bus(b)
             /\ \A b \in ApbBuses : TimerFrequency("p", b) = H7Timer(b)
  <2>1. \A b \in Buses : Real(b) = H7Bus(b) /\ rcc.pre[b] = cs.pre[b]
    BY <1>1, <1>3, H7Frequencies, SwitchedFrequencies DEF Prescalers, H7Prescalers
  <2>2. \A b \in ApbBuses : Real(b) = BusFrequency("p", b) /\ b \in Buses
    BY DEF Real, PllOut, ApbBuses, Buses
  <2> QED BY <2>1, <2>2 DEF TimerFrequency, H7Timer
<1>4. cs.sysclk = "pll" => cs.pll1.enable
  BY <1>1 DEF Switched, Asked
<1>5. rcc.pllSource = "hsi" /\ FullHsi = H7Hsi /\ rcc.hsi = H7Hsi /\ H7Hsi \in Nat
  BY <1>1 DEF Switched, Started, StartedHsi, FullHsi, H7Hsi, MHz
<1>6. ASSUME NEW g \in SpiGroups, Fed(g)
      PROVE  RealSpi(g) = H7SpiClk(g) /\ RealSpi(g) \in Nat
  <2>1. CASE cs.spi[g] = "pll1q"
    <3>1. cs.pll1.enable /\ ~Wraps(cs.pll1)
      BY <1>6, <2>1 DEF Fed
    <3>2. rcc.pll[1] = cs.pll1 /\ cs.pllSource = "hsi" /\ cs.pll1.q \in Divider
      BY <1>1, <1>2, <3>1 DEF Switched, Started, SystemPll, Plls
    <3>3. PllFrequency(1, cs.pll1.q) = H7Output(H7PllSource, cs.pll1, cs.pll1.q)
      BY <1>2, <1>5, <3>1, <3>2, PllRuns, H7Outputs
    <3>4. PllFrequency(1, cs.pll1.q) \in Nat
      <4>1. (H7Hsi * cs.pll1.n) \div cs.pll1.m \in Nat
        BY <1>2, <1>5, Quotient DEF Plls
      <4> QED BY <1>5, <3>1, <3>2, <4>1, PllRuns, Quotient
    <3> QED BY <1>1, <2>1, <3>2, <3>3, <3>4 DEF RealSpi, H7SpiClk
  <2>2. CASE cs.spi[g] \in {"pll2p", "pll2q"}
    <3>1. cs.pll2.enable /\ ~Wraps(cs.pll2) /\ (cs.pll1.enable \/ cs.pllSource = "hsi")
      BY <1>6, <2>2 DEF Fed, H7SpiValid
    <3>2. rcc.pll[2] = cs.pll2 /\ cs.pllSource = "hsi" /\ cs.pll2.p \in Divider /\ cs.pll2.q \in Divider
      BY <1>1, <1>2, <3>1 DEF Switched, Started, Plls, ClocksInv, SelectInv
    <3>3. ASSUME NEW div \in Divider
          PROVE  /\ PllFrequency(2, div) = H7Output(H7PllSource, cs.pll2, div)
                 /\ PllFrequency(2, div) \in Nat
      <4>1. PllFrequency(2, div) = ((H7Hsi * cs.pll2.n) \div cs.pll2.m) \div div
        BY <1>5, <3>1, <3>2, PllRuns
      <4>2. (H7Hsi * cs.pll2.n) \div cs.pll2.m \in Nat
        BY <1>2, <1>5, Quotient DEF Plls
      <4> QED BY <1>2, <3>1, <3>2, <4>1, <4>2, H7Outputs, Quotient
    <3> QED BY <1>1, <2>2, <3>2, <3>3 DEF RealSpi, H7SpiClk
  <2>3. CASE cs.spi[g] = "perck"
    <3>1. cs.per = "hsi"
      BY <1>6, <2>3 DEF Fed
    <3> QED BY <1>1, <1>5, <2>3, <3>1 DEF RealSpi, H7SpiClk, H7PerClk, H7Oscillator
  <2>4. CASE cs.spi[g] \in {"pclk2", "pclk4"}
    <3>1. cs.sysclk # "pll" \/ ~Wraps(cs.pll1)
      BY <1>6, <2>4 DEF Fed
    <3>2. \A b \in {"apb2", "apb4"} : Real(b) = H7Bus(b) /\ Real(b) \in Nat
      <4>1. /\ RealSystem \in Nat /\ \A b \in Buses : Prescalers[b] \in Divider
            /\ \A b \in ApbBuses :
                 Real(b) = ((RealSystem \div Prescalers["core"]) \div Prescalers["ahb"])
                              \div Prescalers[b]
        BY <1>1, SwitchedFrequencies
      <4>2. RealSystem \div Prescalers["core"] \in Nat
        BY <4>1, Quotient DEF Buses
      <4>3. (RealSystem \div Prescalers["core"]) \div Prescalers["ahb"] \in Nat
        BY <4>1, <4>2, Quotient DEF Buses
      <4>4. \A b \in ApbBuses : Real(b) \in Nat
        BY <4>1, <4>3, Quotient DEF Buses, ApbBuses
      <4> QED BY <1>3, <3>1, <4>4 DEF Buses, ApbBuses
    <3> QED BY <1>1, <2>4, <3>2 DEF RealSpi, H7SpiClk
  <2>5. CASE cs.spi[g] \in SpiSources \ {"pll1q", "pll2p", "pll2q", "perck", "pclk2", "pclk4"}
    <3>1. cs.spi[g] = "hsi"
      BY <1>6, <2>5 DEF Fed
    <3>2. OscFrequency("hsi") = rcc.hsi
      BY <1>2 DEF OscFrequency, RccType
    <3> QED BY <1>1, <1>5, <3>1, <3>2 DEF RealSpi, H7SpiClk, H7Oscillator
  <2>6. cs.spi[g] \in SpiSources
    BY <1>2
  <2> QED BY <2>1, <2>2, <2>3, <2>4, <2>5, <2>6 DEF SpiSources
<1>7. ASSUME NEW g \in SpiGroups, Fed(g), NEW baud \in SpiRates
      PROVE  Nearest(RealSpi(g), baud, H7FindPrescalerValue(g, baud))
  <2>1. RealSpi(g) \in Nat /\ baud \in Nat /\ RealSpi(g) = H7SpiClk(g)
    BY <1>6, <1>7, SettingsAssumption
  <2>2. H7SpiPrescalers = SpiDividers
    BY DEF H7SpiPrescalers, SpiDividers
  <2>3. H7FindPrescalerValue(g, baud) =
          CHOOSE p \in SpiDividers :
            \A q \in SpiDividers :
              \/ Distance(RealSpi(g) \div p, baud) < Distance(RealSpi(g) \div q, baud)
              \/ Distance(RealSpi(g) \div p, baud) = Distance(RealSpi(g) \div q, baud) /\ p <= q
    BY <2>1, <2>2 DEF H7FindPrescalerValue
  <2> QED BY <2>1, <2>3, FoundIsNearest
<1> QED BY <1>3, <1>4, <1>6, <1>7 DEF H7AsClaimed

LEMMA H5Claims ==
  ASSUME ClocksInv, step = "done", chip = "h5"
  PROVE  H5AsClaimed
<1> SUFFICES ASSUME cs.sysclk = "pll" => Exact(H5PllSource, cs.pll1)
             PROVE  /\ \A b \in H5Buses : Real(b) = H5Bus(b) \div 2
                    /\ \A b \in H5Buses \cap ApbBuses :
                         TimerFrequency("p", b) \div 2 = H5Timer(b) \div 4
  BY DEF H5AsClaimed
<1>1. Switched
  BY DEF ClocksInv, PhaseInv
<1>2. \A b \in H5Buses : H5Bus(b) \in Nat /\ Real(b) = H5Bus(b) \div 2
  BY <1>1, H5Frequencies
<1>3. ASSUME NEW b \in H5Buses \cap ApbBuses
      PROVE  TimerFrequency("p", b) \div 2 = H5Timer(b) \div 4
  <2>1. rcc.pre[b] = cs.pre[b]
    BY <1>1, SwitchedFrequencies DEF Prescalers, H5Prescalers, Buses, ApbBuses
  <2>2. BusFrequency("p", b) = H5Bus(b) \div 2 /\ H5Bus(b) \in Nat
    BY <1>2 DEF Real, PllOut
  <2>3. \A x \in Nat : /\ ((x \div 2) * 1) \div 2 = (x * 1) \div 4
                       /\ ((x \div 2) * 2) \div 2 = (x * 2) \div 4
    OBVIOUS
  <2>4. CASE cs.pre[b] = 1
    <3>1. TimerFrequency("p", b) = (H5Bus(b) \div 2) * 1 /\ H5Timer(b) = H5Bus(b) * 1
      BY <2>1, <2>2, <2>4 DEF TimerFrequency, H5Timer
    <3> QED BY <2>2, <2>3, <3>1
  <2>5. CASE cs.pre[b] # 1
    <3>1. TimerFrequency("p", b) = (H5Bus(b) \div 2) * 2 /\ H5Timer(b) = H5Bus(b) * 2
      BY <2>1, <2>2, <2>5 DEF TimerFrequency, H5Timer
    <3> QED BY <2>2, <2>3, <3>1
  <2> QED BY <2>4, <2>5
<1> QED BY <1>2, <1>3

LEMMA G0Claims ==
  ASSUME ClocksInv, step = "done", chip = "g0"
  PROVE  G0AsClaimed
<1> SUFFICES ASSUME cs.sysclk = "pll" => G0PllFits
             PROVE  /\ \A b \in {"ahb", "apb1"} : Real(b) = G0Bus(b)
                    /\ TimerFrequency("r", "apb1") = G0Timer
                    /\ \A baud \in SpiRates :
                         Nearest(Real("apb1"), baud, G0FindPrescalerValue(baud))
  BY DEF G0AsClaimed
<1>1. Switched
  BY DEF ClocksInv, PhaseInv
<1>2. /\ \A b \in {"ahb", "apb1"} : Real(b) = G0Bus(b) /\ Real(b) \in Nat
      /\ Prescalers["apb1"] = cs.pre["apb1"]
  BY <1>1, G0Frequencies
<1>3. TimerFrequency("r", "apb1") = G0Timer
  <2>1. rcc.pre["apb1"] = cs.pre["apb1"]
    BY <1>1, <1>2 DEF Switched
  <2>2. BusFrequency("r", "apb1") = G0Bus("apb1")
    BY <1>2 DEF Real, PllOut
  <2> QED BY <2>1, <2>2 DEF TimerFrequency, G0Timer
<1>4. ASSUME NEW baud \in SpiRates
      PROVE  Nearest(Real("apb1"), baud, G0FindPrescalerValue(baud))
  <2>1. Real("apb1") \in Nat /\ baud \in Nat /\ Real("apb1") = G0Bus("apb1")
    BY <1>2, SettingsAssumption
  <2>2. G0SpiPrescalers = SpiDividers
    BY DEF G0SpiPrescalers, SpiDividers
  <2>3. G0FindPrescalerValue(baud) =
          CHOOSE p \in SpiDividers :
            \A q \in SpiDividers :
              \/ Distance(Real("apb1") \div p, baud) < Distance(Real("apb1") \div q, baud)
              \/ Distance(Real("apb1") \div p, baud) = Distance(Real("apb1") \div q, baud) /\ p <= q
    BY <2>1, <2>2 DEF G0FindPrescalerValue
  <2> QED BY <2>1, <2>3, FoundIsNearest
<1> QED BY <1>2, <1>3, <1>4

LEMMA G4Claims ==
  ASSUME ClocksInv, step = "done", chip = "g4"
  PROVE  G4AsClaimed
<1>1. Switched /\ rcc.i2c = cs.i2c
  BY DEF ClocksInv, PhaseInv, SelectInv
<1>2. /\ Real("core") = G4SysClk /\ G4SysClk = G4PllClk
      /\ \A b \in {"ahb", "apb1", "apb2"} : Real(b) = G4PllClk /\ G4Bus(b) = G4PllClk
  BY <1>1, G4Frequencies
<1>3. cs.i2c \in {"pclk1", "sysclk", "hsi"}
  BY SettingsAssumption DEF ClocksInv, Compiled
<1>4. rcc.hsi = G4Hsi
  BY <1>1 DEF Switched, Started, StartedHsi, FullHsi
<1>5. RealI2c = G4I2cClk
  BY <1>1, <1>2, <1>3, <1>4 DEF RealI2c, G4I2cClk
<1> QED BY <1>2, <1>5 DEF G4AsClaimed, G4SpiClk

(* Whatever the settings, once the configuring function has returned true  *)
(* the program's clocks are what the compiler computed baud rates, timer   *)
(* periods and dividers from, with the exceptions that ClocksAsClaimed     *)
(* names.                                                                  *)
THEOREM ClocksAreAsClaimed == ClocksSpec => []ClocksAsClaimed
<1>1. ClocksInv => ClocksAsClaimed
  BY H7Claims, H5Claims, G0Claims, G4Claims, SettingTypes DEF ClocksAsClaimed, ClocksInv, Chips
<1> QED BY <1>1, ClocksInvariant, PTL

-----------------------------------------------------------------------------
(* At any time.  Before the switch everything runs on the HSI and the      *)
(* flash without wait states; after it, also when a later step has failed, *)
(* at what the settings were validated for.                                *)
LEMMA FreshOrSwitched ==
  ASSUME ClocksInv
  PROVE  Fresh \/ Switched
BY DEF ClocksInv, PhaseInv, Steps

LEMMA FreshIsSlow ==
  ASSUME ClocksInv, Fresh
  PROVE  /\ \A b \in Buses : Real(b) = rcc.hsi
         /\ rcc.hsi \in Nat
         /\ chip = "h7" => rcc.hsi <= 64 * MHz
         /\ chip = "h5" => rcc.hsi <= 32 * MHz
         /\ chip \in {"g0", "g4"} => rcc.hsi <= 16 * MHz
<1>1. rcc \in RccType /\ rcc.hsi \in {FullHsi, StartedHsi} /\ FullHsi \in Nat
  BY SettingTypes DEF ClocksInv
<1>2. \A b \in Buses : Real(b) = rcc.hsi
  BY <1>1, FreshFrequencies
<1>3. rcc.hsi \in Nat
  BY <1>1 DEF RccType
<1>4. chip = "g0" => G0ScaledHsi <= G0Hsi
  <2>1. chip = "g0" => cs.hsiPre \in Divider
    BY DEF ClocksInv, Compiled, G0Validate, Divider
  <2>2. G0Hsi \in Nat
    BY DEF G0Hsi, MHz
  <2> QED BY <2>1, <2>2, QuotientSmaller DEF G0ScaledHsi
<1>5. /\ chip = "h7" => FullHsi = 64 * MHz
      /\ chip = "h5" => FullHsi = 32 * MHz
      /\ chip \in {"g0", "g4"} => FullHsi = 16 * MHz
  BY DEF FullHsi, H7Hsi, H5Hsi, G0Hsi, G4Hsi, MHz
<1>6. /\ chip # "g0" => StartedHsi = FullHsi
      /\ chip = "g0" => StartedHsi <= FullHsi
  BY <1>4 DEF StartedHsi, FullHsi
<1> QED BY <1>1, <1>2, <1>3, <1>5, <1>6 DEF MHz

LEMMA H7Within ==
  ASSUME ClocksInv, chip = "h7", cs.sysclk # "pll" \/ ~Wraps(cs.pll1)
  PROVE  /\ Real("core") <= (IF H7Overrated THEN H7CoreLimit ELSE H7Rated) * MHz
         /\ Real("ahb") <= 240 * MHz
         /\ \A b \in ApbBuses : Real(b) <= 120 * MHz
         /\ rcc.sysclk = "pll" => Real("ahb") <= 48 * (rcc.ws + 1) * MHz
<1>1. ApbBuses \subseteq Buses /\ "core" \in Buses /\ "ahb" \in Buses
  BY DEF ApbBuses, Buses
<1>2. /\ H7CoreLimit \in {480, 400, 300} /\ H7Rated \in {480, 400, 300, 200}
      /\ cs.scale # 3 => H7Rated = H7CoreLimit
  <2>1. cs.scale \in 0..3
    BY SettingsAssumption DEF ClocksInv, Compiled
  <2> QED BY <2>1 DEF H7CoreLimit, H7Rated
<1>3. CASE Fresh
  <2>1. rcc.sysclk # "pll"
    BY <1>3 DEF Fresh
  <2>2. \A b \in Buses : Real(b) = rcc.hsi /\ rcc.hsi \in Nat /\ rcc.hsi <= 64 * MHz
    BY <1>3, FreshIsSlow
  <2> QED BY <1>1, <1>2, <2>1, <2>2 DEF MHz
<1>4. CASE Switched
  <2>1. H7SystemValid /\ H7PowerValid
    BY DEF ClocksInv, Compiled, H7Validate
  <2>2. \A b \in Buses : Real(b) = H7Bus(b)
    BY <1>4, H7Frequencies
  <2>3. /\ H7Bus("core") <= H7CoreLimit * MHz
        /\ Real("ahb") <= 240 * MHz
        /\ \A b \in ApbBuses : Real(b) <= 120 * MHz
    BY <1>1, <2>1, <2>2 DEF H7SystemValid, H7PowerValid
  <2>4. 48 * (rcc.ws + 1) * MHz = 240 * MHz
    BY <1>4 DEF Switched, WaitStates
  <2>5. Real("core") = H7Bus("core") /\ Real("core") \in Nat
    <3>1. RealSystem \in Nat /\ Prescalers["core"] \in Divider
      BY <1>1, <1>4, SwitchedFrequencies
    <3>2. RealSystem \div Prescalers["core"] \in Nat
      BY <3>1, Quotient
    <3> QED BY <1>1, <1>4, <2>2, <3>2, SwitchedFrequencies
  <2>6. H7Overrated \/ Real("core") <= H7Rated * MHz
    BY <1>2, <2>3, <2>5 DEF H7Overrated, MHz
  <2> QED BY <2>3, <2>4, <2>5, <2>6
<1> QED BY <1>3, <1>4, FreshOrSwitched

LEMMA H5Within ==
  ASSUME ClocksInv, chip = "h5", cs.sysclk = "pll" => Fits(H5PllSource, cs.pll1)
  PROVE  /\ \A b \in H5Buses : Real(b) <= 250 * MHz
         /\ Real("ahb") <= 42 * (rcc.ws + 1) * MHz
<1>1. H5Buses \subseteq Buses /\ "ahb" \in H5Buses
  BY DEF H5Buses, Buses
<1>2. CASE Fresh
  <2>1. \A b \in Buses : Real(b) = rcc.hsi /\ rcc.hsi \in Nat /\ rcc.hsi <= 32 * MHz
    BY <1>2, FreshIsSlow
  <2>2. rcc.ws = 0
    BY <1>2 DEF Fresh
  <2> QED BY <1>1, <2>1, <2>2 DEF MHz
<1>3. CASE Switched
  <2>1. \A b \in H5Buses : Real(b) \in Nat /\ H5Bus(b) \in Nat /\ Real(b) <= H5Bus(b)
    BY <1>3, H5Bounds
  <2>2. \A b \in H5Buses : H5Bus(b) <= 250 * MHz
    BY DEF ClocksInv, Compiled, H5Validate, H5SystemValid
  <2>3. rcc.ws = H5FlashLatency(H5Bus("ahb"))
    BY <1>3 DEF Switched, WaitStates
  <2>4. rcc.ws \in 0..5 /\ H5Bus("ahb") <= 42 * (rcc.ws + 1) * MHz
    BY <1>1, <2>1, <2>2, <2>3, H5LatencyIs
  <2>5. \A b \in H5Buses : Real(b) <= 250 * MHz
    BY <2>1, <2>2 DEF MHz
  <2>6. Real("ahb") <= 42 * (rcc.ws + 1) * MHz
    BY <1>1, <2>1, <2>4 DEF MHz
  <2> QED BY <2>5, <2>6
<1> QED BY <1>2, <1>3, FreshOrSwitched

LEMMA G0Within ==
  ASSUME ClocksInv, chip = "g0", cs.sysclk = "pll" => G0PllFits
  PROVE  /\ \A b \in {"ahb", "apb1"} : Real(b) <= 64 * MHz
         /\ Real("ahb") <= 24 * (rcc.ws + 1) * MHz
<1>1. CASE Fresh
  <2>1. \A b \in Buses : Real(b) = rcc.hsi /\ rcc.hsi \in Nat /\ rcc.hsi <= 16 * MHz
    BY <1>1, FreshIsSlow
  <2>2. rcc.ws = 0
    BY <1>1 DEF Fresh
  <2> QED BY <2>1, <2>2 DEF MHz, Buses
<1>2. CASE Switched
  <2>1. \A b \in {"ahb", "apb1"} : Real(b) = G0Bus(b) /\ Real(b) \in Nat
    BY <1>2, G0Frequencies
  <2>2. \A b \in {"ahb", "apb1"} : G0Bus(b) <= 64 * MHz
    BY DEF ClocksInv, Compiled, G0Validate, G0SystemValid
  <2>3. rcc.ws = G0FlashLatency(Real("ahb"))
    BY <1>2, <2>1 DEF Switched, WaitStates
  <2>4. Real("ahb") <= 64 * MHz /\ Real("ahb") \in Nat
    BY <2>1, <2>2
  <2>5. Real("ahb") <= 24 * (rcc.ws + 1) * MHz
    BY <2>3, <2>4 DEF G0FlashLatency, MHz
  <2> QED BY <2>1, <2>2, <2>5
<1> QED BY <1>1, <1>2, FreshOrSwitched

LEMMA G4Within ==
  ASSUME ClocksInv, chip = "g4"
  PROVE  /\ Real("core") <= (170 + G4Cut) * MHz
         /\ Real("ahb") <= (34 * (rcc.ws + 1) + G4Cut) * MHz
<1>0. G4Cut \in {0, 1}
  BY DEF G4Cut
<1>1. CASE Fresh
  <2>1. \A b \in Buses : Real(b) = rcc.hsi /\ rcc.hsi \in Nat /\ rcc.hsi <= 16 * MHz
    BY <1>1, FreshIsSlow
  <2>2. rcc.ws = 0
    BY <1>1 DEF Fresh
  <2> QED BY <1>0, <2>1, <2>2 DEF MHz, Buses
<1>2. CASE Switched
  <2>1. Real("core") = G4PllClk /\ Real("ahb") = G4PllClk /\ G4PllClk <= (170 + G4Cut) * MHz
    BY <1>2, G4Frequencies
  <2>2. rcc.ws = 4
    BY <1>2 DEF Switched, WaitStates
  <2> QED BY <1>0, <2>1, <2>2 DEF MHz
<1> QED BY <1>1, <1>2, FreshOrSwitched

(* Whatever the settings and whichever call fails, no core and no bus runs *)
(* faster than the assertions' texts allow, and the flash has the wait     *)
(* states that the AHB needs: the latency is computed from the settings'   *)
(* claim, the AHB runs at what the hardware makes of them.  WithinLimits   *)
(* names the settings that are excepted.                                   *)
THEOREM ClocksWithinLimits == ClocksSpec => []WithinLimits
<1>1. ClocksInv => WithinLimits
  <2> SUFFICES ASSUME ClocksInv PROVE WithinLimits
    OBVIOUS
  <2>1. chip \in Chips
    BY SettingTypes DEF ClocksInv
  <2>2. CASE chip = "h7"
    <3> SUFFICES ASSUME cs.sysclk # "pll" \/ ~Wraps(cs.pll1)
                 PROVE  /\ Real("core") <= (IF H7Overrated THEN H7CoreLimit ELSE H7Rated) * MHz
                        /\ Real("ahb") <= 240 * MHz
                        /\ \A b \in ApbBuses : Real(b) <= 120 * MHz
                        /\ rcc.sysclk = "pll" => Real("ahb") <= 48 * (rcc.ws + 1) * MHz
      BY <2>2 DEF WithinLimits
    <3> QED BY <2>2, H7Within
  <2>3. CASE chip = "h5"
    <3> SUFFICES ASSUME cs.sysclk = "pll" => Fits(H5PllSource, cs.pll1)
                 PROVE  /\ \A b \in H5Buses : Real(b) <= 250 * MHz
                        /\ Real("ahb") <= 42 * (rcc.ws + 1) * MHz
      BY <2>3 DEF WithinLimits
    <3> QED BY <2>3, H5Within
  <2>4. CASE chip = "g0"
    <3> SUFFICES ASSUME cs.sysclk = "pll" => G0PllFits
                 PROVE  /\ \A b \in {"ahb", "apb1"} : Real(b) <= 64 * MHz
                        /\ Real("ahb") <= 24 * (rcc.ws + 1) * MHz
      BY <2>4 DEF WithinLimits
    <3> QED BY <2>4, G0Within
  <2>5. CASE chip = "g4"
    <3>1. /\ Real("core") <= (170 + G4Cut) * MHz
          /\ Real("ahb") <= (34 * (rcc.ws + 1) + G4Cut) * MHz
      BY <2>5, G4Within
    <3> QED BY <2>5, <3>1 DEF WithinLimits
  <2> QED BY <2>1, <2>2, <2>3, <2>4, <2>5 DEF Chips
<1> QED BY <1>1, ClocksInvariant, PTL

-----------------------------------------------------------------------------
(* How far the configuring function is from its end at most, and where it  *)
(* has a next call to make.                                                *)
CallsLeft(place) ==
    CASE place = "power" -> 5 [] place = "osc" -> 4 [] place = "pll2" -> 3
      [] place = "clk" -> 2 [] place \in {"spi", "i2c"} -> 1 [] OTHER -> 0
CallsOf ==
    [h7 |-> {"power", "osc", "pll2", "clk", "spi"}, h5 |-> {"osc", "clk"},
     g0 |-> {"osc", "clk"}, g4 |-> {"osc", "clk", "i2c"}]
Ended == step \in {"done", "failed"}

(* The function has returned, or its next call is one of its chip's; and   *)
(* the STM32H7, which polls PLL2 without a limit, does so only with a      *)
(* source that runs: whatever the settings name as the source of the PLLs. *)
NoEndlessWait ==
    /\ Ended \/ step \in CallsOf[chip]
    /\ step = "pll2" /\ cs.pll2.enable => rcc.pllSource \in rcc.on

(* Every call brings the function closer to its end, also one that fails,  *)
(* and it makes none after its end.                                        *)
ConfigurationAdvances ==
    [][~Ended /\ CallsLeft(step') < CallsLeft(step)]_clockVars

LEMMA CallsMake ==
  ASSUME ClocksInv, NoEndlessWait, ClocksNext
  PROVE  /\ ~Ended /\ CallsLeft(step') < CallsLeft(step)
         /\ Ended' \/ step' \in CallsOf[chip]
<1>1. /\ CallsLeft("power") = 5 /\ CallsLeft("osc") = 4 /\ CallsLeft("pll2") = 3
      /\ CallsLeft("clk") = 2 /\ CallsLeft("spi") = 1 /\ CallsLeft("i2c") = 1
      /\ CallsLeft("done") = 0 /\ CallsLeft("failed") = 0
  BY DEF CallsLeft
<1>2. ASSUME NEW hsi, NEW hsiPll, NEW source, NEW pll, NEW range, NEW next,
             HalOscConfig(hsi, hsiPll, source, pll, range, next)
      PROVE  step' \in {next, "failed"}
  BY <1>2 DEF HalOscConfig
<1>3. ASSUME NEW source, NEW pre, NEW ws, NEW next, HalClockConfig(source, pre, ws, next)
      PROVE  step' \in {next, "failed"}
  BY <1>3 DEF HalClockConfig
<1>4. CASE chip = "h7" /\ H7Clocks
  <2>1. \/ step = "power" /\ step' = "osc"
        \/ step = "osc" /\ step' \in {"pll2", "failed"}
        \/ step = "pll2" /\ step' = "clk"
        \/ step = "clk" /\ step' \in {"spi", "failed"}
        \/ step = "spi" /\ step' = "done"
    <3>1. H7OscConfig => step = "osc" /\ step' \in {"pll2", "failed"}
      BY <1>2, Zenon DEF H7OscConfig
    <3>2. H7ClockConfig => step = "clk" /\ step' \in {"spi", "failed"}
      BY <1>3, Zenon DEF H7ClockConfig
    <3> QED BY <1>4, <3>1, <3>2 DEF H7Clocks, H7Power, H7Pll2, H7SpiClocks
  <2> QED BY <1>1, <1>4, <2>1 DEF Ended, CallsOf
<1>5. CASE \/ chip = "h5" /\ H5Clocks
           \/ chip = "g0" /\ G0Clocks
  <2>1. \/ step = "osc" /\ step' \in {"clk", "failed"}
        \/ step = "clk" /\ step' \in {"done", "failed"}
    <3>1. H5OscConfig \/ G0OscConfig => step = "osc" /\ step' \in {"clk", "failed"}
      BY <1>2, Zenon DEF H5OscConfig, G0OscConfig
    <3>2. H5ClockConfig \/ G0ClockConfig => step = "clk" /\ step' \in {"done", "failed"}
      BY <1>3, Zenon DEF H5ClockConfig, G0ClockConfig
    <3> QED BY <1>5, <3>1, <3>2 DEF H5Clocks, G0Clocks
  <2> QED BY <1>1, <1>5, <2>1 DEF Ended, CallsOf
<1>6. CASE chip = "g4" /\ G4Clocks
  <2>1. \/ step = "osc" /\ step' \in {"clk", "failed"}
        \/ step = "clk" /\ step' \in {"i2c", "failed"}
        \/ step = "i2c" /\ step' \in {"done", "failed"}
    <3>1. G4OscConfig => step = "osc" /\ step' \in {"clk", "failed"}
      BY <1>2, Zenon DEF G4OscConfig
    <3>2. G4ClockConfig => step = "clk" /\ step' \in {"i2c", "failed"}
      BY <1>3, Zenon DEF G4ClockConfig
    <3> QED BY <1>6, <3>1, <3>2 DEF G4Clocks, G4PeriphClocks
  <2> QED BY <1>1, <1>6, <2>1 DEF Ended, CallsOf
<1> QED BY <1>4, <1>5, <1>6 DEF ClocksNext

(* Only the settings' choice of a source that is not started could leave   *)
(* PLL2 without one; but then PLL1 does not lock and the function fails, or *)
(* PLL1 is off and the source was never selected.                          *)
LEMMA Pll2HasSource ==
  ASSUME ClocksInv
  PROVE  step = "pll2" => rcc.pllSource \in rcc.on
BY DEF ClocksInv, PhaseInv, Started, RccType

(* Configuring the clocks never waits for ever. *)
THEOREM ConfigurationNeverHangs == ClocksSpec => []NoEndlessWait
<1>1. ClocksInit => NoEndlessWait
  BY DEF ClocksInit, NoEndlessWait, Ended, CallsOf
<1>2. ClocksInv /\ ClocksInv' /\ NoEndlessWait /\ [ClocksNext]_clockVars => NoEndlessWait'
  <2> SUFFICES ASSUME ClocksInv, ClocksInv', NoEndlessWait, [ClocksNext]_clockVars
               PROVE  NoEndlessWait'
    OBVIOUS
  <2>1. (step = "pll2" => rcc.pllSource \in rcc.on)'
    BY Pll2HasSource, PTL
  <2>2. CASE ClocksNext
    <3>1. chip' = chip /\ (Ended' \/ step' \in CallsOf[chip])
      BY <2>2, CallsMake DEF ClocksNext
    <3> QED BY <2>1, <3>1 DEF NoEndlessWait
  <2>3. CASE UNCHANGED clockVars
    BY <2>3 DEF clockVars, NoEndlessWait, Ended
  <2> QED BY <2>2, <2>3
<1> QED BY <1>1, <1>2, ClocksInvariant, PTL DEF ClocksSpec

(* With NoEndlessWait, the function running on is all that                 *)
(* ConfigurationEnds needs.                                                *)
THEOREM ConfigurationMakesProgress == ClocksSpec => ConfigurationAdvances
<1>1. ClocksInv /\ NoEndlessWait /\ [ClocksNext]_clockVars
        => [~Ended /\ CallsLeft(step') < CallsLeft(step)]_clockVars
  BY CallsMake
<1> QED BY <1>1, ClocksInvariant, ConfigurationNeverHangs, PTL DEF ClocksSpec, ConfigurationAdvances

-----------------------------------------------------------------------------
(* The timing of the I2C.  Periods of the clock are whole nanoseconds, from *)
(* 6 (171 MHz) to 1000 (1 MHz, the slowest the constructor lets pass).     *)
TickPeriods == 6..1000
Std == I2cCharacteristics.standard

(* The row of the table that every search for the halves of SCL is given.  *)
LEMMA StandardRow ==
  /\ PeriodOf(Std.freq) = 10000 /\ PeriodOf(Std.freq_max) = 8333
  /\ PeriodOf(Std.freq_min) = 12500
  /\ Std.lscl_min = 4700 /\ Std.hscl_min = 4000
<1>1. /\ Std.freq = 100 /\ Std.freq_min = 80 /\ Std.freq_max = 120
      /\ Std.lscl_min = 4700 /\ Std.hscl_min = 4000
  BY DEF Std, I2cCharacteristics
<1> QED BY <1>1 DEF PeriodOf

(* The smallest of some numbers, and of two or three the largest. *)
LEMMA SmallestOf ==
  ASSUME NEW S \in SUBSET Nat, S # {}
  PROVE  \E x \in S : \A y \in S : x <= y
<1> DEFINE R == OpToRel(<, Nat)
<1>1. \A x, y \in Nat : <<y, x>> \in R <=> y < x
  BY DEF OpToRel
<1>2. IsWellFoundedOn(R, Nat)
  BY NatLessThanWellFounded
<1> HIDE DEF R
<1>3. \E x \in S : \A y \in S : <<y, x>> \notin R
  BY <1>2, WFMin
<1>4. PICK x \in S : \A y \in S : ~(y < x)
  BY <1>1, <1>3, Zenon
<1> QED BY <1>4

LEMMA MinIsSmallest ==
  ASSUME NEW S \in SUBSET Nat, S # {}
  PROVE  Min(S) \in S /\ \A y \in S : Min(S) <= y
BY SmallestOf DEF Min

LEMMA MinOfTwo ==
  ASSUME NEW a \in Int, NEW b \in Int
  PROVE  Min({a, b}) = IF a <= b THEN a ELSE b
<1>1. \E x \in {a, b} : \A y \in {a, b} : x <= y
  OBVIOUS
<1> QED BY <1>1 DEF Min

LEMMA MaxOfTwo ==
  ASSUME NEW a \in Int, NEW b \in Int
  PROVE  /\ Max({a, b}) \in {a, b}
         /\ \A x \in Int : Max({a, b}) <= x <=> (a <= x /\ b <= x)
<1>1. \E x \in {a, b} : \A y \in {a, b} : x >= y
  OBVIOUS
<1>2. Max({a, b}) \in {a, b} /\ \A y \in {a, b} : Max({a, b}) >= y
  BY <1>1 DEF Max
<1> QED BY <1>2

LEMMA MaxOfThree ==
  ASSUME NEW a \in Int, NEW b \in Int, NEW c \in Int
  PROVE  /\ Max({a, b, c}) \in {a, b, c}
         /\ \A x \in Int : Max({a, b, c}) <= x <=> (a <= x /\ b <= x /\ c <= x)
<1>1. \E x \in {a, b, c} : \A y \in {a, b, c} : x >= y
  OBVIOUS
<1>2. Max({a, b, c}) \in {a, b, c} /\ \A y \in {a, b, c} : Max({a, b, c}) >= y
  BY <1>1 DEF Max
<1> QED BY <1>2

(* What a bound on a number of ticks says of the time that they take. *)
TicksTake(tick) ==
  \A a \in Int :
    /\ Ticks(a, tick) \in Nat /\ TicksLessOne(a, tick) \in Nat
    /\ \A n \in 0..255 :
         /\ n >= Ticks(a, tick) <=> (a >= 0 /\ (n + 1) * tick > a)
         /\ n >= TicksLessOne(a, tick) <=> (a >= tick /\ (n + 2) * tick > a)
         /\ a >= tick => (n < TicksLessOne(a, tick) <=> (n + 2) * tick <= a)

LEMMA TicksBound ==
  ASSUME NEW tick \in Nat, tick >= 6, tick <= 16000
  PROVE  TicksTake(tick)
<1> SUFFICES ASSUME NEW a \in Int
             PROVE  /\ Ticks(a, tick) \in Nat /\ TicksLessOne(a, tick) \in Nat
                    /\ \A n \in 0..255 :
                         /\ n >= Ticks(a, tick) <=> (a >= 0 /\ (n + 1) * tick > a)
                         /\ n >= TicksLessOne(a, tick) <=> (a >= tick /\ (n + 2) * tick > a)
                         /\ a >= tick => (n < TicksLessOne(a, tick) <=> (n + 2) * tick <= a)
  BY DEF TicksTake
<1> DEFINE q == Ticks(a, tick)
<1>1. tick \in Divider /\ Huge = 536870912 /\ Unsigned(a) \in Nat
  BY DEF Divider, Huge, Unsigned
<1>2. q \in Nat /\ tick * q <= Unsigned(a) /\ Unsigned(a) < tick * q + tick
  <2>1. \A u \in Nat : /\ u \div tick \in Nat
                      /\ tick * (u \div tick) <= u
                      /\ u < tick * (u \div tick) + tick
    BY <1>1, Quotient
  <2> QED BY <1>1, <2>1 DEF Ticks
<1>3. TicksLessOne(a, tick) = IF q = 0 THEN Huge ELSE q - 1
  BY <1>2 DEF TicksLessOne, Unsigned
<1> HIDE DEF q
<1>4. CASE a < 0
  <2>1. tick * q + tick > 536870912
    BY <1>1, <1>2, <1>4 DEF Unsigned
  <2>2. q > 300
    BY <1>2, <2>1
  <2> QED BY <1>1, <1>2, <1>3, <1>4, <2>2 DEF q
<1>5. CASE a >= 0
  <2>1. Unsigned(a) = a
    BY <1>5 DEF Unsigned
  <2>2. \A k \in Nat : k >= q <=> (k + 1) * tick > a
    <3> TAKE k \in Nat
    <3>1. CASE k >= q
      <4>1. tick * q <= tick * k
        BY <1>2, <3>1
      <4> QED BY <1>2, <2>1, <3>1, <4>1
    <3>2. CASE k < q
      <4>1. tick * (k + 1) <= tick * q
        BY <1>2, <3>2
      <4> QED BY <1>2, <2>1, <3>2, <4>1
    <3> QED BY <1>2, <3>1, <3>2
  <2>3. q >= 1 <=> a >= tick
    BY <2>2, <1>2, 0 \in Nat
  <2>4. q \in Nat /\ TicksLessOne(a, tick) \in Nat
    BY <1>1, <1>2, <1>3
  <2>5. ASSUME NEW n \in 0..255
        PROVE  /\ n >= q <=> (n + 1) * tick > a
               /\ n >= TicksLessOne(a, tick) <=> (a >= tick /\ (n + 2) * tick > a)
               /\ a >= tick => (n < TicksLessOne(a, tick) <=> (n + 2) * tick <= a)
    <3>1. n >= q <=> (n + 1) * tick > a
      BY <2>2
    <3>2. n + 1 >= q <=> (n + 2) * tick > a
      BY <2>2, n + 1 \in Nat
    <3>3. (n + 2) * tick \in Nat
      OBVIOUS
    <3> QED BY <1>1, <1>2, <1>3, <2>3, <3>1, <3>2, <3>3
  <2> QED BY <1>5, <2>4, <2>5 DEF q
<1> QED BY <1>4, <1>5

(* The tries of the search, as inequalities: SCL is low for l + 1 and high *)
(* for h + 1 ticks, beside the filter and two clocks in each half.         *)
Possible(ti, p, l, h) ==
  LET tick == (p + 1) * ti
  IN /\ l >= 1 /\ l >= 2 \div (p + 1)
     /\ 4650 - 2 * ti >= 0 /\ (l + 1) * tick > 4650 - 2 * ti
     /\ 8233 - 4 * ti - (l + 2) * tick >= tick
     /\ (h + 2) * tick > 8233 - 4 * ti - (l + 2) * tick
     /\ 3950 - 2 * ti >= tick /\ (h + 2) * tick > 3950 - 2 * ti
     /\ (h + 2) * tick <= 12400 - 4 * ti - (l + 2) * tick

LEMMA TriesArePossible ==
  ASSUME NEW ti \in TickPeriods, NEW p \in 0..15, NEW l \in 0..255, NEW h \in Int
  PROVE  /\ ScllFrom(Std, ti, p) \in Nat
         /\ (/\ l \in ScllFrom(Std, ti, p)..255
             /\ h \in SclhFrom(Std, ti, p, l)..(SclhUntil(Std, ti, p, l) - 1))
            <=> (h \in 0..255 /\ Possible(ti, p, l, h))
<1> DEFINE tick == (p + 1) * ti
           lowFrom  == 4650 - 2 * ti
           highFrom == 3950 - 2 * ti
           atLeast  == 8233 - 4 * ti - (l + 2) * tick
           atMost   == 12400 - 4 * ti - (l + 2) * tick
           spare    == 2 \div (p + 1)
<1>1. /\ ti \in Nat /\ ti >= 6 /\ ti <= 1000
      /\ tick \in Nat /\ tick >= 6 /\ tick <= 16000
      /\ spare \in Int /\ lowFrom \in Int /\ highFrom \in Int
      /\ atLeast \in Int /\ atMost \in Int /\ atMost = atLeast + 4167
  <2>1. ti \in Nat /\ ti >= 6 /\ ti <= 1000 /\ p \in Nat /\ p <= 15
    BY DEF TickPeriods
  <2>2. tick = p * ti + ti /\ p * ti \in Nat /\ p * ti <= 15 * ti
    BY <2>1
  <2> QED BY <2>1, <2>2
<1>2. /\ 4700 - 50 - 2 * ti = lowFrom /\ 4000 - 50 - 2 * ti = highFrom
      /\ 8333 - 2 * 50 - 4 * ti - (l + 2) * tick = atLeast
      /\ 12500 - 2 * 50 - 4 * ti - (l + 2) * tick = atMost
  BY <1>1
<1>3. Max({4000, ti}) = 4000
  <2>1. /\ Max({4000, ti}) \in {4000, ti}
        /\ \A x \in Int : Max({4000, ti}) <= x <=> (4000 <= x /\ ti <= x)
    BY <1>1, MaxOfTwo, 4000 \in Int, ti \in Int
  <2> QED BY <1>1, <2>1
<1> HIDE DEF tick
<1>4. ScllFrom(Std, ti, p) = Max({Ticks(lowFrom, tick), spare, 1})
  <2>1. Std.lscl_min - I2cAnalogFilterDelayMin - 2 * ti = lowFrom
    BY <1>2, StandardRow DEF I2cAnalogFilterDelayMin
  <2>2. ScllFrom(Std, ti, p) = Max({Ticks(Std.lscl_min - I2cAnalogFilterDelayMin - 2 * ti, tick),
                                    spare, 1})
    BY DEF ScllFrom, tick
  <2> HIDE DEF lowFrom, spare
  <2> QED BY <2>1, <2>2
<1>5. /\ Remaining(8333, ti, p, l) = TicksLessOne(atLeast, tick)
      /\ Remaining(12500, ti, p, l) = TicksLessOne(atMost, tick)
  <2>1. \A m \in {8333, 12500} :
           Remaining(m, ti, p, l)
             = TicksLessOne(m - 2 * I2cAnalogFilterDelayMin - 4 * ti - (l + 2) * tick, tick)
    BY DEF Remaining, tick
  <2>2. /\ 8333 - 2 * I2cAnalogFilterDelayMin - 4 * ti - (l + 2) * tick = atLeast
        /\ 12500 - 2 * I2cAnalogFilterDelayMin - 4 * ti - (l + 2) * tick = atMost
    BY <1>2 DEF I2cAnalogFilterDelayMin
  <2> HIDE DEF atLeast, atMost
  <2> QED BY <2>1, <2>2
<1>6. SclhFrom(Std, ti, p, l) = Max({TicksLessOne(atLeast, tick), TicksLessOne(highFrom, tick)})
  <2> DEFINE x == Remaining(PeriodOf(Std.freq_max), ti, p, l)
             y == TicksLessOne(Max({Std.hscl_min, ti}) - I2cAnalogFilterDelayMin - 2 * ti, tick)
  <2>1. SclhFrom(Std, ti, p, l) = Max({x, y})
    BY DEF SclhFrom, tick
  <2>2. x = TicksLessOne(atLeast, tick)
    BY <1>5, StandardRow
  <2>3. Max({Std.hscl_min, ti}) - I2cAnalogFilterDelayMin - 2 * ti = highFrom
    BY <1>2, <1>3, StandardRow DEF I2cAnalogFilterDelayMin
  <2>4. y = TicksLessOne(highFrom, tick)
    BY <2>3
  <2> HIDE DEF x, y, highFrom, atLeast
  <2> QED BY <2>1, <2>2, <2>4
<1>7. SclhUntil(Std, ti, p, l) = Min({256, TicksLessOne(atMost, tick)})
  <2>1. SclhUntil(Std, ti, p, l) = Min({256, Remaining(PeriodOf(Std.freq_min), ti, p, l)})
    BY DEF SclhUntil
  <2> HIDE DEF atMost
  <2> QED BY <1>5, <2>1, StandardRow
<1>8. Possible(ti, p, l, h)
       <=> /\ l >= 1 /\ l >= spare
           /\ lowFrom >= 0 /\ (l + 1) * tick > lowFrom
           /\ atLeast >= tick /\ (h + 2) * tick > atLeast
           /\ highFrom >= tick /\ (h + 2) * tick > highFrom
           /\ (h + 2) * tick <= atMost
  BY DEF Possible, tick
<1> DEFINE a == Ticks(lowFrom, tick)
           b == TicksLessOne(atLeast, tick)
           c == TicksLessOne(highFrom, tick)
           d == TicksLessOne(atMost, tick)
<1> HIDE DEF lowFrom, highFrom, atLeast, atMost, spare
<1>9. /\ a \in Nat /\ b \in Nat /\ c \in Nat /\ d \in Nat
      /\ l >= a <=> (lowFrom >= 0 /\ (l + 1) * tick > lowFrom)
      /\ h \in 0..255 =>
           /\ h >= b <=> (atLeast >= tick /\ (h + 2) * tick > atLeast)
           /\ h >= c <=> (highFrom >= tick /\ (h + 2) * tick > highFrom)
           /\ atMost >= tick => (h < d <=> (h + 2) * tick <= atMost)
  <2>1. TicksTake(tick)
    BY <1>1, TicksBound
  <2>9. l \in 0..255 /\ lowFrom \in Int /\ highFrom \in Int /\ atLeast \in Int /\ atMost \in Int
    BY <1>1
  <2>2. a \in Nat /\ (l >= a <=> (lowFrom >= 0 /\ (l + 1) * tick > lowFrom))
    BY <2>1, <2>9, Zenon DEF TicksTake
  <2>3. b \in Nat /\ (h \in 0..255 =>
                        (h >= b <=> (atLeast >= tick /\ (h + 2) * tick > atLeast)))
    BY <2>1, <2>9, Zenon DEF TicksTake
  <2>4. c \in Nat /\ (h \in 0..255 =>
                        (h >= c <=> (highFrom >= tick /\ (h + 2) * tick > highFrom)))
    BY <2>1, <2>9, Zenon DEF TicksTake
  <2>5. d \in Nat /\ (h \in 0..255 =>
                        (atMost >= tick => (h < d <=> (h + 2) * tick <= atMost)))
    BY <2>1, <2>9, Zenon DEF TicksTake
  <2> HIDE DEF a, b, c, d
  <2> QED BY <2>2, <2>3, <2>4, <2>5, Zenon
<1> HIDE DEF a, b, c, d
<1>10. /\ Max({a, spare, 1}) \in {a, spare, 1}
       /\ \A x \in Int : Max({a, spare, 1}) <= x <=> (a <= x /\ spare <= x /\ 1 <= x)
  BY <1>1, <1>9, MaxOfThree, a \in Int, 1 \in Int
<1>11. /\ Max({b, c}) \in {b, c}
       /\ \A x \in Int : Max({b, c}) <= x <=> (b <= x /\ c <= x)
  BY <1>9, MaxOfTwo, b \in Int, c \in Int
<1>12. Min({256, d}) = IF 256 <= d THEN 256 ELSE d
  BY <1>9, MinOfTwo, d \in Int, 256 \in Int
<1>13. ScllFrom(Std, ti, p) \in Nat
  BY <1>1, <1>4, <1>9, <1>10 DEF a
<1>14. l \in ScllFrom(Std, ti, p)..255 <=> (l >= a /\ l >= spare /\ l >= 1)
  BY <1>1, <1>4, <1>9, <1>10 DEF a
<1>15. h \in SclhFrom(Std, ti, p, l)..(SclhUntil(Std, ti, p, l) - 1)
       <=> h \in 0..255 /\ h >= b /\ h >= c /\ h < d
  BY <1>6, <1>7, <1>9, <1>11, <1>12 DEF b, c, d
<1> QED
  <2>1. CASE h \in 0..255
    <3>1. atLeast >= tick => atMost >= tick
      BY <1>1
    <3> QED BY <1>8, <1>9, <1>14, <1>15, <1>13, <2>1, <3>1, Zenon
  <2>2. CASE h \notin 0..255
    BY <1>15, <1>13, <2>2
  <2> QED BY <2>1, <2>2

(* Of some tries one comes before all others. *)
Try == Nat \X Nat \X Nat \X Nat

LEMMA BeforeIs ==
  ASSUME NEW x \in Try, NEW y \in Try
  PROVE  /\ x = <<x[1], x[2], x[3], x[4]>>
         /\ x[1] \in Nat /\ x[2] \in Nat /\ x[3] \in Nat /\ x[4] \in Nat
         /\ Before(x, y) <=>
              \/ x[1] < y[1]
              \/ x[1] = y[1] /\ x[2] < y[2]
              \/ x[1] = y[1] /\ x[2] = y[2] /\ x[3] < y[3]
              \/ x[1] = y[1] /\ x[2] = y[2] /\ x[3] = y[3] /\ x[4] < y[4]
<1>1. /\ x = <<x[1], x[2], x[3], x[4]>>
      /\ x[1] \in Nat /\ x[2] \in Nat /\ x[3] \in Nat /\ x[4] \in Nat
  BY DEF Try
<1>2. /\ 1..4 = {1, 2, 3, 4} /\ 1..(1 - 1) = {} /\ 1..(2 - 1) = {1}
      /\ 1..(3 - 1) = {1, 2} /\ 1..(4 - 1) = {1, 2, 3}
  OBVIOUS
<1>3. Before(x, y) <=> \/ x[1] < y[1] /\ \A j \in 1..(1 - 1) : x[j] = y[j]
                       \/ x[2] < y[2] /\ \A j \in 1..(2 - 1) : x[j] = y[j]
                       \/ x[3] < y[3] /\ \A j \in 1..(3 - 1) : x[j] = y[j]
                       \/ x[4] < y[4] /\ \A j \in 1..(4 - 1) : x[j] = y[j]
  BY <1>2, Zenon DEF Before
<1>4. /\ \A j \in 1..(1 - 1) : x[j] = y[j]
      /\ (\A j \in 1..(2 - 1) : x[j] = y[j]) <=> x[1] = y[1]
      /\ (\A j \in 1..(3 - 1) : x[j] = y[j]) <=> (x[1] = y[1] /\ x[2] = y[2])
      /\ (\A j \in 1..(4 - 1) : x[j] = y[j]) <=> (x[1] = y[1] /\ x[2] = y[2] /\ x[3] = y[3])
  BY <1>2, Zenon
<1> QED BY <1>1, <1>3, <1>4

LEMMA LowestFound ==
  ASSUME NEW tries \in SUBSET Try, tries # {}
  PROVE  \E x \in tries : Lowest(tries) = {x} /\ \A y \in tries : x = y \/ Before(x, y)
<1>1. \A z \in tries : /\ z = <<z[1], z[2], z[3], z[4]>>
                       /\ z[1] \in Nat /\ z[2] \in Nat /\ z[3] \in Nat /\ z[4] \in Nat
  BY BeforeIs
<1>2. PICK a \in tries : \A y \in tries : a[1] <= y[1]
  <2>1. {z[1] : z \in tries} \in SUBSET Nat /\ {z[1] : z \in tries} # {}
    BY <1>1
  <2>2. PICK m \in {z[1] : z \in tries} : \A k \in {z[1] : z \in tries} : m <= k
    BY <2>1, SmallestOf
  <2> QED BY <2>2
<1> DEFINE second == {z \in tries : z[1] = a[1]}
<1>3. PICK b \in second : \A y \in second : b[2] <= y[2]
  <2>1. {z[2] : z \in second} \in SUBSET Nat /\ {z[2] : z \in second} # {}
    BY <1>1
  <2>2. PICK m \in {z[2] : z \in second} : \A k \in {z[2] : z \in second} : m <= k
    BY <2>1, SmallestOf
  <2> QED BY <2>2
<1> DEFINE third == {z \in second : z[2] = b[2]}
<1>4. PICK c \in third : \A y \in third : c[3] <= y[3]
  <2>1. {z[3] : z \in third} \in SUBSET Nat /\ {z[3] : z \in third} # {}
    BY <1>1, <1>3
  <2>2. PICK m \in {z[3] : z \in third} : \A k \in {z[3] : z \in third} : m <= k
    BY <2>1, SmallestOf
  <2> QED BY <2>2
<1> DEFINE fourth == {z \in third : z[3] = c[3]}
<1>5. PICK d \in fourth : \A y \in fourth : d[4] <= y[4]
  <2>1. {z[4] : z \in fourth} \in SUBSET Nat /\ {z[4] : z \in fourth} # {}
    BY <1>1, <1>4
  <2>2. PICK m \in {z[4] : z \in fourth} : \A k \in {z[4] : z \in fourth} : m <= k
    BY <2>1, SmallestOf
  <2> QED BY <2>2
<1>6. d \in tries /\ d[1] = a[1] /\ d[2] = b[2] /\ d[3] = c[3]
  BY <1>5
<1>7. ASSUME NEW y \in tries
      PROVE  d = y \/ Before(d, y)
  <2>1. /\ a[1] <= y[1]
        /\ y[1] = d[1] => b[2] <= y[2]
        /\ y[1] = d[1] /\ y[2] = d[2] => c[3] <= y[3]
        /\ y[1] = d[1] /\ y[2] = d[2] /\ y[3] = d[3] => d[4] <= y[4]
    BY <1>2, <1>3, <1>4, <1>5, <1>6
  <2>2. d = y \/ d[1] # y[1] \/ d[2] # y[2] \/ d[3] # y[3] \/ d[4] # y[4]
    BY <1>1, <1>6
  <2>3. d \in Try /\ y \in Try
    BY <1>6
  <2>4. /\ d[1] \in Nat /\ d[2] \in Nat /\ d[3] \in Nat /\ d[4] \in Nat
        /\ y[1] \in Nat /\ y[2] \in Nat /\ y[3] \in Nat /\ y[4] \in Nat
    BY <1>1, <1>6
  <2> QED BY <1>6, <2>1, <2>2, <2>3, <2>4, BeforeIs
<1> DEFINE First4(x) == x \in tries /\ \A y \in tries : x = y \/ Before(x, y)
<1>8. First4(d)
  BY <1>6, <1>7
<1> DEFINE e == CHOOSE x \in tries : \A y \in tries : x = y \/ Before(x, y)
<1>9. First4(e) /\ Lowest(tries) = {e}
  BY <1>8, Zenon DEF Lowest
<1> HIDE DEF e
<1> QED BY <1>9

LEMMA BeforeTransitive ==
  ASSUME NEW x \in Try, NEW y \in Try, NEW z \in Try,
         x = y \/ Before(x, y), y = z \/ Before(y, z)
  PROVE  x = z \/ Before(x, z)
<1>1. CASE x = y \/ y = z
  BY <1>1
<1>2. CASE Before(x, y) /\ Before(y, z)
  <2>1. /\ x[1] \in Nat /\ x[2] \in Nat /\ x[3] \in Nat /\ x[4] \in Nat
        /\ y[1] \in Nat /\ y[2] \in Nat /\ y[3] \in Nat /\ y[4] \in Nat
        /\ z[1] \in Nat /\ z[2] \in Nat /\ z[3] \in Nat /\ z[4] \in Nat
    BY BeforeIs
  <2> QED BY <1>2, <2>1, BeforeIs
<1> QED BY <1>1, <1>2

(* The search returns a try that comes before all others: it is possible,  *)
(* and no possible one is nearer to 10000 ns, or as near in an earlier     *)
(* iteration of the loops.                                                 *)
Scl(ti, p, l, h) == 100 + 4 * ti + (l + h + 2) * ((p + 1) * ti)
TryAt(ti, p, l, h) == <<ClockError(Std, ti, p, l, h), p, l, h>>
Best(ti, timings) ==
  Lowest(UNION {UNION {Lowest(Tries(Std, ti, t.presc, l)) :
                         l \in ScllFrom(Std, ti, t.presc)..255} : t \in timings})

ErrorIn(ti, p, l, h) ==
  /\ Scl(ti, p, l, h) \in Nat
  /\ ClockError(Std, ti, p, l, h) = Distance(10000, Scl(ti, p, l, h))
  /\ ClockError(Std, ti, p, l, h) \in Nat
  /\ TryAt(ti, p, l, h) \in Try

LEMMA ErrorIs ==
  ASSUME NEW ti \in TickPeriods, NEW p \in 0..15, NEW l \in 0..255, NEW h \in 0..255
  PROVE  ErrorIn(ti, p, l, h)
<1> DEFINE tick == (p + 1) * ti
<1>1. ti \in Nat /\ tick \in Nat
  BY DEF TickPeriods
<1>2. /\ HalfPeriod(ti, p, l) = 50 + 2 * ti + (l + 1) * tick
      /\ HalfPeriod(ti, p, h) = 50 + 2 * ti + (h + 1) * tick
  <2>1. \A n \in 0..255 : HalfPeriod(ti, p, n) = 50 + 2 * ti + (n + 1) * (p + 1) * ti
    BY DEF HalfPeriod, I2cAnalogFilterDelayMin
  <2>2. \A n \in 0..255 : (n + 1) * (p + 1) * ti = (n + 1) * tick
    BY <1>1
  <2> QED BY <2>1, <2>2
<1>3. Scl(ti, p, l, h) = 100 + 4 * ti + (l + h + 2) * tick
  BY DEF Scl
<1> HIDE DEF tick
<1>4. /\ Scl(ti, p, l, h) \in Nat
      /\ HalfPeriod(ti, p, l) + HalfPeriod(ti, p, h) = Scl(ti, p, l, h)
  BY <1>1, <1>2, <1>3
<1>5. ClockError(Std, ti, p, l, h) = Distance(10000, Scl(ti, p, l, h))
  BY <1>4, StandardRow DEF ClockError, Distance
<1>6. ClockError(Std, ti, p, l, h) \in Nat
  BY <1>4, <1>5 DEF Distance
<1> QED BY <1>4, <1>5, <1>6 DEF ErrorIn, TryAt, Try

LEMMA BestIs ==
  ASSUME NEW ti \in TickPeriods, NEW timings, \A t \in timings : t.presc \in 0..15
  PROVE  /\ \A x \in Best(ti, timings) :
              /\ \E t \in timings, l, h \in 0..255 :
                    x = TryAt(ti, t.presc, l, h) /\ Possible(ti, t.presc, l, h)
              /\ \A t \in timings, l, h \in 0..255 :
                    Possible(ti, t.presc, l, h) =>
                      x = TryAt(ti, t.presc, l, h) \/ Before(x, TryAt(ti, t.presc, l, h))
         /\ (\E t \in timings, l, h \in 0..255 : Possible(ti, t.presc, l, h))
               => Best(ti, timings) # {}
<1> DEFINE Row(t, l) == Tries(Std, ti, t.presc, l)
           From(t)   == ScllFrom(Std, ti, t.presc)
           All       == UNION {UNION {Lowest(Row(t, l)) : l \in From(t)..255} : t \in timings}
<1>0. 0 \in 0..255
  OBVIOUS
<1>1. Best(ti, timings) = Lowest(All)
  BY Zenon DEF Best
<1>2. \A x : x \in All <=> \E t \in timings : \E l \in From(t)..255 : x \in Lowest(Row(t, l))
  OBVIOUS
<1>3. ASSUME NEW t \in timings, NEW l \in 0..255, l \in From(t)..255
      PROVE  /\ \A x \in Row(t, l) : \E h \in 0..255 :
                  x = TryAt(ti, t.presc, l, h) /\ Possible(ti, t.presc, l, h)
             /\ \A h \in 0..255 : Possible(ti, t.presc, l, h) =>
                  TryAt(ti, t.presc, l, h) \in Row(t, l)
             /\ Row(t, l) \in SUBSET Try
  <2>1. Row(t, l)
          = {TryAt(ti, t.presc, l, h) :
               h \in SclhFrom(Std, ti, t.presc, l)..(SclhUntil(Std, ti, t.presc, l) - 1)}
    BY DEF Tries, TryAt
  <2>2. \A h \in Int :
           h \in SclhFrom(Std, ti, t.presc, l)..(SclhUntil(Std, ti, t.presc, l) - 1)
             <=> h \in 0..255 /\ Possible(ti, t.presc, l, h)
    BY <1>3, TriesArePossible, ZenonT(30)
  <2>3. SclhFrom(Std, ti, t.presc, l)..(SclhUntil(Std, ti, t.presc, l) - 1) \subseteq Int
    OBVIOUS
  <2>4. \A h \in 0..255 : ErrorIn(ti, t.presc, l, h)
    BY ErrorIs, Zenon
  <2> HIDE DEF Row
  <2>5. \A x \in Row(t, l) : \E h \in 0..255 :
           x = TryAt(ti, t.presc, l, h) /\ Possible(ti, t.presc, l, h)
    BY <2>1, <2>2, <2>3, Zenon
  <2>6. \A h \in 0..255 : Possible(ti, t.presc, l, h) =>
           TryAt(ti, t.presc, l, h) \in Row(t, l)
    BY <2>1, <2>2, <2>3, 0..255 \subseteq Int, Zenon
  <2>7. \A x \in Row(t, l) : x \in Try
    <3>1. \A h \in 0..255 : TryAt(ti, t.presc, l, h) \in Try
      BY <2>4 DEF ErrorIn
    <3> QED BY <2>5, <3>1, Zenon
  <2> QED BY <2>5, <2>6, <2>7
<1>4. ASSUME NEW t \in timings, NEW l \in 0..255, NEW h \in 0..255
      PROVE  /\ From(t) \in Nat
             /\ Possible(ti, t.presc, l, h) => l \in From(t)..255
             /\ TryAt(ti, t.presc, l, h) \in Try
  <2>1. t.presc \in 0..15 /\ h \in Int
    OBVIOUS
  <2> HIDE DEF From
  <2>2. /\ From(t) \in Nat
        /\ (/\ l \in From(t)..255
            /\ h \in SclhFrom(Std, ti, t.presc, l)..(SclhUntil(Std, ti, t.presc, l) - 1))
           <=> (h \in 0..255 /\ Possible(ti, t.presc, l, h))
    BY <2>1, TriesArePossible DEF From
  <2>3. ErrorIn(ti, t.presc, l, h)
    BY <2>1, ErrorIs, Zenon
  <2>4. TryAt(ti, t.presc, l, h) \in Try
    BY <2>3 DEF ErrorIn
  <2> QED BY <2>2, <2>4, Zenon
<1> HIDE DEF From, Row
<1>5. ASSUME NEW t \in timings, NEW l \in From(t)..255
      PROVE  l \in 0..255
  <2>1. From(t) \in Nat
    BY <1>0, <1>4, ZenonT(30)
  <2> QED BY <2>1
<1>6. ASSUME NEW t \in timings, NEW l \in 0..255, NEW h \in 0..255
      PROVE  TryAt(ti, t.presc, l, h) \in Try
  BY <1>4
<1>7. ASSUME NEW t \in timings, NEW l \in From(t)..255
      PROVE  Row(t, l) \in SUBSET Try
  BY <1>3, <1>5
<1>8. ASSUME NEW t \in timings, NEW l \in From(t)..255
      PROVE  /\ \A x \in Lowest(Row(t, l)) : x \in Row(t, l)
                                          /\ \A y \in Row(t, l) : x = y \/ Before(x, y)
             /\ Row(t, l) # {} => Lowest(Row(t, l)) # {}
  <2>1. CASE Row(t, l) = {}
    BY <2>1 DEF Lowest
  <2>2. CASE Row(t, l) # {}
    <3>1. PICK x \in Row(t, l) : /\ Lowest(Row(t, l)) = {x}
                                 /\ \A y \in Row(t, l) : x = y \/ Before(x, y)
      BY <1>7, <2>2, LowestFound
    <3> QED BY <3>1
  <2> QED BY <2>1, <2>2
<1> HIDE DEF All
<1>9. All \in SUBSET Try
  BY <1>2, <1>7, <1>8
<1>10. ASSUME NEW x \in Lowest(All)
       PROVE  x \in All /\ \A y \in All : x = y \/ Before(x, y)
  <2>1. All # {}
    BY <1>10 DEF Lowest
  <2>2. PICK z \in All : /\ Lowest(All) = {z}
                         /\ \A y \in All : z = y \/ Before(z, y)
    BY <1>9, <2>1, LowestFound
  <2> QED BY <1>10, <2>2
<1>11. ASSUME NEW x \in Lowest(All)
       PROVE  \E t \in timings, l, h \in 0..255 :
                 x = TryAt(ti, t.presc, l, h) /\ Possible(ti, t.presc, l, h)
  <2>1. PICK t \in timings : \E l \in From(t)..255 : x \in Lowest(Row(t, l))
    BY <1>2, <1>10
  <2>2. PICK l \in From(t)..255 : x \in Lowest(Row(t, l))
    BY <2>1
  <2>3. l \in 0..255 /\ x \in Row(t, l)
    BY <1>5, <1>8, <2>2
  <2>4. PICK h \in 0..255 : x = TryAt(ti, t.presc, l, h) /\ Possible(ti, t.presc, l, h)
    BY <1>3, <2>3
  <2> QED BY <2>3, <2>4
<1>12. ASSUME NEW t \in timings, NEW l \in 0..255, NEW h \in 0..255,
              Possible(ti, t.presc, l, h)
       PROVE  /\ Lowest(Row(t, l)) # {}
              /\ \A x \in Lowest(Row(t, l)) :
                    /\ x \in All
                    /\ x = TryAt(ti, t.presc, l, h) \/ Before(x, TryAt(ti, t.presc, l, h))
  <2>1. l \in From(t)..255
    BY <1>4, <1>12
  <2>2. TryAt(ti, t.presc, l, h) \in Row(t, l)
    BY <1>3, <1>12, <2>1
  <2> QED BY <1>2, <1>8, <2>1, <2>2
<1>13. ASSUME NEW x \in Lowest(All), NEW t \in timings, NEW l \in 0..255, NEW h \in 0..255,
              Possible(ti, t.presc, l, h)
       PROVE  x = TryAt(ti, t.presc, l, h) \/ Before(x, TryAt(ti, t.presc, l, h))
  <2>1. PICK y \in Lowest(Row(t, l)) :
           y \in All /\ (y = TryAt(ti, t.presc, l, h) \/ Before(y, TryAt(ti, t.presc, l, h)))
    BY <1>12, <1>13
  <2>2. x \in All /\ (x = y \/ Before(x, y))
    BY <1>10, <2>1
  <2>3. x \in Try /\ y \in Try /\ TryAt(ti, t.presc, l, h) \in Try
    BY <1>6, <1>9, <2>1, <2>2
  <2> QED BY <2>1, <2>2, <2>3, BeforeTransitive
<1>14. ASSUME NEW t \in timings, NEW l \in 0..255, NEW h \in 0..255,
              Possible(ti, t.presc, l, h)
       PROVE  Lowest(All) # {}
  BY <1>12, <1>14 DEF Lowest
<1>15. ASSUME NEW x \in Lowest(All)
       PROVE  \A t \in timings, l, h \in 0..255 :
                 Possible(ti, t.presc, l, h) =>
                   x = TryAt(ti, t.presc, l, h) \/ Before(x, TryAt(ti, t.presc, l, h))
  BY <1>13
<1>16. (\E t \in timings, l, h \in 0..255 : Possible(ti, t.presc, l, h)) => Lowest(All) # {}
  BY <1>14
<1> DEFINE best == Best(ti, timings)
<1> HIDE DEF best
<1>17. best = Lowest(All)
  BY <1>1 DEF best
<1>18. \A x \in best : \E t \in timings, l, h \in 0..255 :
          x = TryAt(ti, t.presc, l, h) /\ Possible(ti, t.presc, l, h)
  BY <1>11, <1>17, Zenon
<1>19. \A x \in best : \A t \in timings, l, h \in 0..255 :
          Possible(ti, t.presc, l, h) =>
            x = TryAt(ti, t.presc, l, h) \/ Before(x, TryAt(ti, t.presc, l, h))
  BY <1>15, <1>17, Zenon
<1>20. (\E t \in timings, l, h \in 0..255 : Possible(ti, t.presc, l, h)) => best # {}
  BY <1>16, <1>17, Zenon
<1> QED BY <1>18, <1>19, <1>20, Zenon DEF best

(* From 2 MHz on there is a try less than a tick short of 10000 ns, for a  *)
(* prescaler that leaves time to set up data in every mode: as low for as  *)
(* few ticks as may be, and high for what remains.                         *)
NearTry(ti, p, l, h) ==
  /\ (p + 1) * ti >= 21
  /\ Possible(ti, p, l, h)
  /\ Scl(ti, p, l, h) <= 10000
  /\ 10000 - Scl(ti, p, l, h) <= 40 \/ 10000 - Scl(ti, p, l, h) < ti

LEMMA TryExists ==
  ASSUME NEW ti \in TickPeriods, ti <= 500
  PROVE  \E p \in 0..15, l, h \in 0..255 : NearTry(ti, p, l, h)
<1>1. ti \in Nat /\ ti >= 6
  BY DEF TickPeriods
<1>2. PICK p \in {0, 1, 3} : /\ (p + 1) * ti >= 21 /\ (p + 1) * ti <= 500
                             /\ (p + 1) * ti <= 40 \/ (p + 1) * ti = ti
  <2>1. CASE ti <= 10
    BY <1>1, <2>1, 3 + 1 = 4
  <2>2. CASE ti > 10 /\ ti <= 20
    BY <1>1, <2>2, 1 + 1 = 2
  <2>3. CASE ti > 20
    <3>1. (0 + 1) * ti = ti
      BY <1>1
    <3> QED BY <1>1, <2>3, <3>1
  <2> QED BY <1>1, <2>1, <2>2, <2>3
<1> DEFINE tick == (p + 1) * ti
           a == 4650 - 2 * ti
           l == a \div tick
           b == 9900 - 4 * ti - (l + 1) * tick
           q == b \div tick
<1>3. /\ p \in 0..15 /\ 2 \div (p + 1) <= 2 /\ 2 \div (p + 1) \in Nat
      /\ tick \in Nat /\ tick \in Divider /\ tick >= 21 /\ tick <= 500
      /\ tick <= 40 \/ tick = ti
      /\ a \in Nat /\ a >= 3650 /\ a <= 4638
  <2>1. tick \in Nat
    BY <1>1
  <2>2. 2 \div (p + 1) <= 2 /\ 2 \div (p + 1) \in Nat
    BY 2 \div 1 = 2, 2 \div 2 = 1, 2 \div 4 = 0
  <2> QED BY <1>1, <1>2, <2>1, <2>2 DEF Divider
<1> HIDE DEF tick
<1>4. l \in Nat /\ l * tick <= a /\ a < l * tick + tick
  <2>1. l \in Nat /\ tick * l <= a /\ a < tick * l + tick
    BY <1>3, Quotient, SMTT(20)
  <2> HIDE DEF l
  <2> QED BY <1>3, <2>1
<1> HIDE DEF l
<1>5. l <= 255 /\ l >= 2
  <2>1. ASSUME l > 255
        PROVE  FALSE
    <3>1. l * tick >= 256 * tick
      BY <1>3, <1>4, <2>1
    <3> QED BY <1>3, <1>4, <3>1
  <2>2. ASSUME l < 2
        PROVE  FALSE
    <3>1. l * tick <= tick
      BY <1>3, <1>4, <2>2
    <3> QED BY <1>3, <1>4, <3>1
  <2> QED BY <1>4, <2>1, <2>2
<1> DEFINE lows == l * tick
<1>6. lows \in Nat /\ \A n \in {1, 2, 3} : (l + n) * tick = lows + n * tick
  BY <1>3, <1>4
<1> HIDE DEF lows
<1>7. b = 9900 - 4 * ti - lows - tick /\ b \in Nat /\ b >= 5250 - 2 * ti - tick /\ b < 5250 - 2 * ti
  <2>1. b = 9900 - 4 * ti - lows - tick
    BY <1>1, <1>3, <1>6
  <2>2. lows <= a /\ a < lows + tick
    BY <1>4 DEF lows
  <2> HIDE DEF b
  <2> QED BY <1>1, <1>3, <1>6, <2>1, <2>2
<1> HIDE DEF b
<1>8. q \in Nat /\ q * tick <= b /\ b < q * tick + tick
  <2>1. \A u \in Nat : /\ u \div tick \in Nat
                      /\ tick * (u \div tick) <= u
                      /\ u < tick * (u \div tick) + tick
    BY <1>3, Quotient
  <2>2. b \in Nat
    BY <1>7
  <2>3. q \in Nat /\ tick * q <= b /\ b < tick * q + tick
    BY <2>1, <2>2, Zenon
  <2> HIDE DEF q
  <2> QED BY <1>3, <2>3
<1> HIDE DEF q
<1>9. q >= 1 /\ q <= 256
  <2>1. ASSUME q > 256
        PROVE  FALSE
    <3>1. q * tick >= 257 * tick
      BY <1>3, <1>8, <2>1
    <3> QED BY <1>1, <1>3, <1>7, <1>8, <3>1
  <2>2. ASSUME q = 0
        PROVE  FALSE
    BY <1>1, <1>3, <1>7, <1>8, <2>2
  <2> QED BY <1>8, <2>1, <2>2
<1> DEFINE h == q - 1
           highs == q * tick
<1>10. /\ h \in 0..255 /\ l \in 0..255 /\ highs \in Nat
       /\ (h + 2) * tick = highs + tick /\ (l + h + 2) * tick = lows + highs + tick
       /\ highs <= b /\ b < highs + tick
  <2>1. (h + 2) * tick = highs + tick /\ highs \in Nat
    BY <1>3, <1>8
  <2>2. (l + h + 2) * tick = lows + highs + tick
    BY <1>3, <1>4, <1>8 DEF lows
  <2> QED BY <1>4, <1>5, <1>8, <1>9, <2>1, <2>2
<1>11. Scl(ti, p, l, h) = 100 + 4 * ti + lows + highs + tick
  <2>1. Scl(ti, p, l, h) = 100 + 4 * ti + (l + h + 2) * tick
    BY DEF Scl, tick
  <2> HIDE DEF h, highs
  <2> QED BY <1>1, <1>3, <1>6, <1>10, <2>1
<1>12. lows <= a /\ a < lows + tick
  BY <1>4 DEF lows
<1> HIDE DEF h, highs
<1>13. Scl(ti, p, l, h) <= 10000 /\ 10000 - Scl(ti, p, l, h) < tick
  BY <1>1, <1>3, <1>6, <1>7, <1>10, <1>11
<1>14. Possible(ti, p, l, h)
  <2>1. l >= 1 /\ l >= 2 \div (p + 1)
    BY <1>3, <1>4, <1>5
  <2>2. /\ a >= 0 /\ (l + 1) * tick > a
        /\ 8233 - 4 * ti - (l + 2) * tick >= tick
        /\ (h + 2) * tick > 8233 - 4 * ti - (l + 2) * tick
        /\ 3950 - 2 * ti >= tick /\ (h + 2) * tick > 3950 - 2 * ti
        /\ (h + 2) * tick <= 12400 - 4 * ti - (l + 2) * tick
    <3>1. (l + 1) * tick = lows + tick /\ (l + 2) * tick = lows + 2 * tick
      <4>1. 1 * tick = tick
        BY <1>3
      <4> QED BY <1>6, <4>1
    <3>2. (h + 2) * tick = highs + tick
      BY <1>10
    <3> QED BY <1>1, <1>3, <1>6, <1>7, <1>10, <1>12, <3>1, <3>2
  <2> QED BY <2>1, <2>2 DEF Possible, tick
<1>15. NearTry(ti, p, l, h)
  <2>1. (p + 1) * ti >= 21
    BY <1>3 DEF tick
  <2>2. 10000 - Scl(ti, p, l, h) <= 40 \/ 10000 - Scl(ti, p, l, h) < ti
    <3> DEFINE s == Scl(ti, p, l, h)
    <3>1. s \in Int
      BY <1>1, <1>3, <1>6, <1>10, <1>11
    <3> HIDE DEF s
    <3> QED BY <1>1, <1>3, <1>13, <3>1 DEF s
  <2> QED BY <1>13, <1>14, <2>1, <2>2 DEF NearTry
<1> HIDE DEF l
<1> QED
  <2>1. p \in 0..15 /\ l \in 0..255 /\ h \in 0..255
    BY <1>3, <1>10
  <2> QED BY <1>15, <2>1, Zenon

(* What the halves of SCL come to: each is as long as it must be, and      *)
(* both together are close enough to 10000 ns for every period that a      *)
(* clock rounded to this one may have.                                     *)
Suits(ti, p, l, h) ==
  LET tick == (p + 1) * ti
  IN /\ (l + 1) * tick >= 4650 - 2 * ti
     /\ (h + 1) * tick >= 3950 - 2 * ti
     /\ Scl(ti, p, l, h) >= 8700 /\ Scl(ti, p, l, h) <= 11500
     /\ ti <= 40 => Scl(ti, p, l, h) >= 9960 /\ Scl(ti, p, l, h) <= 10040

(* No try is found before this one, among those with the same prescaler    *)
(* that are high for a tick more, instead of low or as well; and with a    *)
(* clock of 2 MHz or more, none is nearer to 10000 ns than that above.     *)
Foremost(ti, p, l, h) ==
  LET d == Distance(10000, Scl(ti, p, l, h))
  IN /\ Possible(ti, p, l, h)
     /\ l >= 1 /\ h <= 254 => ~Possible(ti, p, l - 1, h + 1)
     /\ h <= 254 /\ Possible(ti, p, l, h + 1) => d <= Distance(10000, Scl(ti, p, l, h + 1))
     /\ ti <= 500 => d <= 40 \/ d < ti

(* The times of a try, as sums of those of l and of h ticks. *)
SumsOf(ti, p, l, h, tick, lows, highs) ==
  /\ Possible(ti, p, l, h)
       <=> /\ l >= 1 /\ l >= 2 \div (p + 1)
           /\ 4650 - 2 * ti >= 0 /\ lows + tick > 4650 - 2 * ti
           /\ lows + 3 * tick <= 8233 - 4 * ti
           /\ lows + highs + 4 * tick > 8233 - 4 * ti
           /\ tick <= 3950 - 2 * ti /\ highs + 2 * tick > 3950 - 2 * ti
           /\ lows + highs + 4 * tick <= 12400 - 4 * ti
  /\ Scl(ti, p, l, h) = 100 + 4 * ti + lows + highs + 2 * tick

LEMMA SumsHold ==
  ASSUME NEW ti \in TickPeriods, NEW p \in 0..15, NEW l \in Int, NEW h \in Int,
         NEW tick, tick = (p + 1) * ti, NEW lows, lows = l * tick,
         NEW highs, highs = h * tick
  PROVE  SumsOf(ti, p, l, h, tick, lows, highs)
<1>1. ti \in Nat /\ tick \in Nat /\ lows \in Int /\ highs \in Int
  BY DEF TickPeriods
<1>2. /\ (l + 1) * tick = lows + tick /\ (l + 2) * tick = lows + 2 * tick
      /\ (h + 2) * tick = highs + 2 * tick
      /\ (l + h + 2) * tick = lows + highs + 2 * tick
  BY <1>1
<1>3. /\ Possible(ti, p, l, h)
           <=> /\ l >= 1 /\ l >= 2 \div (p + 1)
               /\ 4650 - 2 * ti >= 0 /\ (l + 1) * tick > 4650 - 2 * ti
               /\ 8233 - 4 * ti - (l + 2) * tick >= tick
               /\ (h + 2) * tick > 8233 - 4 * ti - (l + 2) * tick
               /\ 3950 - 2 * ti >= tick /\ (h + 2) * tick > 3950 - 2 * ti
               /\ (h + 2) * tick <= 12400 - 4 * ti - (l + 2) * tick
      /\ Scl(ti, p, l, h) = 100 + 4 * ti + (l + h + 2) * tick
  BY DEF Possible, Scl
<1> DEFINE spare == 2 \div (p + 1)
<1> HIDE DEF spare
<1> QED BY <1>1, <1>2, <1>3 DEF SumsOf, spare

(* A try that is not high for as long as it must be is not foremost. *)
LEMMA ForemostSuits ==
  ASSUME NEW ti \in TickPeriods, NEW p \in 0..15, NEW l \in 0..255, NEW h \in 0..255,
         Foremost(ti, p, l, h)
  PROVE  Suits(ti, p, l, h)
<1> DEFINE tick  == (p + 1) * ti
           lows  == l * tick
           highs == h * tick
           spare == 2 \div (p + 1)
           scl   == Scl(ti, p, l, h)
           d     == Distance(10000, scl)
<1>1. /\ ti \in Nat /\ ti >= 6 /\ ti <= 1000 /\ tick \in Nat /\ tick >= ti
      /\ lows \in Nat /\ highs \in Nat
      /\ p = 0 => tick = ti
      /\ p = 1 => tick = 2 * ti
      /\ p = 2 => tick = 3 * ti
      /\ p >= 3 => tick >= 4 * ti
  <2>1. ti \in Nat /\ ti >= 6 /\ ti <= 1000
    BY DEF TickPeriods
  <2>2. tick = p * ti + ti /\ p * ti \in Nat /\ (p >= 3 => p * ti >= 3 * ti)
    BY <2>1
  <2>3. tick \in Nat
    BY <2>1, <2>2
  <2>4. lows \in Nat /\ highs \in Nat
    BY <2>3
  <2> HIDE DEF lows, highs
  <2> QED BY <2>1, <2>2, <2>4
<1>2. spare \in Nat /\ spare <= 2 /\ (p >= 1 => spare <= 1)
  <2>1. p + 1 \in Divider
    BY DEF Divider
  <2>2. spare \in Nat /\ (p + 1) * spare <= 2
    BY <2>1, Quotient, 2 \in Nat
  <2> HIDE DEF spare
  <2>3. (p + 1) * spare = p * spare + spare /\ p * spare \in Nat /\ (p >= 1 => p * spare >= spare)
    BY <2>2
  <2> QED BY <2>2, <2>3
<1> HIDE DEF tick
<1>3. /\ (l - 1) * tick = lows - tick /\ (h + 1) * tick = highs + tick
      /\ (l + 1) * tick = lows + tick
      /\ \A n \in 0..9 : (l >= n => lows >= n * tick) /\ (l <= n => lows <= n * tick)
      /\ h = 255 => highs = 255 * tick
      /\ lows <= 255 * tick
  <2>1. \A n \in 0..255 : (l >= n => lows >= n * tick) /\ (l <= n => lows <= n * tick)
    BY <1>1
  <2>2. /\ (l - 1) * tick = lows - tick /\ (h + 1) * tick = highs + tick
        /\ (l + 1) * tick = lows + tick
    BY <1>1
  <2>3. h = 255 => highs = 255 * tick
    OBVIOUS
  <2>4. lows <= 255 * tick
    BY <2>1
  <2> HIDE DEF lows, highs
  <2> QED BY <2>1, <2>2, <2>3, <2>4
<1>4. /\ SumsOf(ti, p, l, h, tick, lows, highs)
      /\ SumsOf(ti, p, l - 1, h + 1, tick, lows - tick, highs + tick)
      /\ SumsOf(ti, p, l, h + 1, tick, lows, highs + tick)
  <2>1. l - 1 \in Int /\ h + 1 \in Int /\ l \in Int /\ h \in Int
    OBVIOUS
  <2>2. tick = (p + 1) * ti
    BY DEF tick
  <2>3. /\ lows = l * tick /\ highs = h * tick
        /\ lows - tick = (l - 1) * tick /\ highs + tick = (h + 1) * tick
    BY <1>3
  <2> HIDE DEF lows, highs
  <2>4. SumsOf(ti, p, l, h, tick, lows, highs)
    BY <2>1, <2>2, <2>3, SumsHold
  <2>5. SumsOf(ti, p, l - 1, h + 1, tick, lows - tick, highs + tick)
    BY <2>1, <2>2, <2>3, SumsHold
  <2>6. SumsOf(ti, p, l, h + 1, tick, lows, highs + tick)
    BY <2>1, <2>2, <2>3, SumsHold
  <2> QED BY <2>4, <2>5, <2>6
<1> HIDE DEF lows, highs, spare, scl
<1>5. /\ l >= 1 /\ l >= spare
      /\ 4650 - 2 * ti >= 0 /\ lows + tick > 4650 - 2 * ti
      /\ lows + 3 * tick <= 8233 - 4 * ti
      /\ lows + highs + 4 * tick > 8233 - 4 * ti
      /\ tick <= 3950 - 2 * ti /\ highs + 2 * tick > 3950 - 2 * ti
      /\ lows + highs + 4 * tick <= 12400 - 4 * ti
      /\ scl = 100 + 4 * ti + lows + highs + 2 * tick
      /\ Scl(ti, p, l, h + 1) = scl + tick
  BY <1>1, <1>4 DEF Foremost, SumsOf, spare, scl
(* The tick that could be moved from low to high. *)
<1>6. \/ l = 1 \/ l - 1 < spare \/ lows <= 4650 - 2 * ti \/ h = 255
  <2> SUFFICES ASSUME l >= 2, l - 1 >= spare, lows > 4650 - 2 * ti, h <= 254
               PROVE  FALSE
    BY <1>1, <1>2, <1>5
  <2>1. ~Possible(ti, p, l - 1, h + 1)
    BY DEF Foremost
  <2>2. Possible(ti, p, l - 1, h + 1)
    BY <1>1, <1>2, <1>4, <1>5 DEF SumsOf, spare
  <2> QED BY <2>1, <2>2
<1>7. CASE ti <= 500
  <2>1. /\ d \in Nat /\ (d <= 40 \/ d < ti) /\ scl >= 10000 - d /\ scl <= 10000 + d
    <3>1. scl \in Int /\ (d <= 40 \/ d < ti)
      BY <1>1, <1>5, <1>7 DEF Foremost, scl
    <3> QED BY <3>1 DEF Distance
  <2> HIDE DEF d
  <2>2. ASSUME highs + tick < 3950 - 2 * ti
        PROVE  FALSE
    <3>1. lows + tick > 5950 - 2 * ti - d
      BY <1>1, <1>5, <2>1, <2>2
    <3>2. CASE h = 255
      BY <1>1, <1>3, <1>7, <2>1, <2>2, <3>1, <3>2
    <3>3. CASE l = 1
      BY <1>1, <1>3, <1>5, <1>7, <2>1, <3>1, <3>3, 1 \in 0..9
    <3>4. CASE l - 1 < spare
      <4>1. l <= 2 /\ (p >= 1 => l <= 1)
        BY <1>2, <3>4
      <4>2. lows <= 2 * tick /\ (p >= 1 => lows <= tick)
        BY <1>1, <1>3, <4>1, 1 \in 0..9, 2 \in 0..9
      <4> QED BY <1>1, <1>5, <1>7, <2>1, <3>1, <4>2
    <3>5. CASE lows <= 4650 - 2 * ti
      <4>1. tick > 1300 - d /\ 2 * tick < 2283 - 2 * ti + d
        BY <1>1, <1>5, <2>1, <3>1, <3>5
      <4>2. d < ti /\ ti > 317
        BY <1>1, <2>1, <4>1
      <4>3. CASE p = 1
        <5>1. tick = 2 * ti /\ ti >= 434 /\ ti <= 456
          BY <1>1, <2>1, <4>1, <4>2, <4>3
        <5>2. CASE l <= 4
          BY <1>1, <1>3, <2>1, <3>1, <4>2, <5>1, <5>2, 4 \in 0..9
        <5>3. CASE l >= 5
          BY <1>1, <1>3, <3>5, <5>1, <5>3, 5 \in 0..9
        <5> QED BY <5>2, <5>3
      <4>4. CASE p # 1
        BY <1>1, <1>7, <2>1, <4>1, <4>2, <4>4
      <4> QED BY <4>3, <4>4
    <3> QED BY <1>6, <3>2, <3>3, <3>4, <3>5
  <2>3. highs + tick >= 3950 - 2 * ti
    BY <1>1, <2>2
  <2>4. scl >= 8700 /\ scl <= 11500 /\ (ti <= 40 => scl >= 9960 /\ scl <= 10040)
    BY <1>1, <1>5, <1>7, <2>1
  <2>5. (h + 1) * tick >= 3950 - 2 * ti /\ (l + 1) * tick >= 4650 - 2 * ti
    BY <1>1, <1>3, <1>5, <2>3
  <2> QED BY <2>4, <2>5 DEF Suits, tick, scl
<1>8. CASE ti > 500
  <2>1. p = 0 \/ (p = 1 /\ l \in {2, 3})
    <3>1. CASE p >= 3
      BY <1>1, <1>3, <1>5, <1>8, <3>1, 1 \in 0..9
    <3>2. CASE p = 2
      BY <1>1, <1>3, <1>5, <1>8, <3>2, 1 \in 0..9, 2 \in 0..9
    <3>3. CASE p = 1
      BY <1>1, <1>3, <1>5, <1>8, <3>3, 1 \in 0..9, 4 \in 0..9
    <3> QED BY <3>1, <3>2, <3>3
  <2>2. ASSUME highs + tick < 3950 - 2 * ti
        PROVE  FALSE
    <3>1. h <= 254
      BY <1>1, <1>3, <1>8, <2>2
    <3>2. Possible(ti, p, l, h + 1)
      <4>1. tick <= 2 * ti
        BY <1>1, <2>1
      <4> QED BY <1>1, <1>2, <1>4, <1>5, <1>8, <2>2, <4>1 DEF SumsOf, spare
    <3>3. Distance(10000, scl) <= Distance(10000, scl + tick)
      BY <1>5, <3>1, <3>2 DEF Foremost, scl
    <3>4. 2 * scl + tick >= 20000
      <4>1. scl \in Int
        BY <1>1, <1>5
      <4> QED BY <1>1, <3>3, <4>1 DEF Distance
    <3>5. 2 * lows + 3 * tick > 11900 - 4 * ti
      BY <1>1, <1>5, <2>2, <3>4
    <3>6. CASE p = 0
      <4>1. tick = ti /\ ti <= 652
        BY <1>1, <1>5, <3>5, <3>6
      <4>2. lows > 2 * ti
        BY <1>1, <3>5, <4>1
      <4>3. l > 2
        <5>1. l <= 2 => lows <= 2 * tick
          BY <1>3, 2 \in 0..9, Zenon
        <5> QED BY <1>1, <4>1, <4>2, <5>1
      <4>4. lows <= 4650 - 2 * ti
        BY <1>2, <1>6, <3>1, <4>3
      <4> QED BY <1>1, <3>5, <4>1, <4>4
    <3>7. CASE p = 1 /\ l = 2
      BY <1>1, <1>3, <1>5, <3>5, <3>7, 2 \in 0..9
    <3>8. CASE p = 1 /\ l = 3
      BY <1>1, <1>3, <1>5, <3>5, <3>8, 3 \in 0..9
    <3> QED BY <2>1, <3>6, <3>7, <3>8
  <2>3. highs + tick >= 3950 - 2 * ti
    BY <1>1, <2>2
  <2>4. scl >= 8700 /\ scl <= 11500
    BY <1>1, <1>5, <1>8, <2>3
  <2>5. (h + 1) * tick >= 3950 - 2 * ti /\ (l + 1) * tick >= 4650 - 2 * ti
    BY <1>1, <1>3, <1>5, <2>3
  <2> QED BY <1>1, <1>8, <2>4, <2>5 DEF Suits, tick, scl
<1> QED BY <1>1, <1>7, <1>8

(* A try is as near to 10000 ns as another, and when both are as near with *)
(* the same prescaler, low for as few ticks.                               *)
NoWorse(ti, p, l, h, q, l2, h2) ==
  LET d == Distance(10000, Scl(ti, p, l, h))
      e == Distance(10000, Scl(ti, q, l2, h2))
  IN d <= e /\ (d = e /\ p = q => l <= l2)

LEMMA FirstNoWorse ==
  ASSUME NEW ti \in TickPeriods, NEW p \in 0..15, NEW l \in 0..255, NEW h \in 0..255,
         NEW q \in 0..15, NEW l2 \in 0..255, NEW h2 \in 0..255,
         \/ TryAt(ti, p, l, h) = TryAt(ti, q, l2, h2)
         \/ Before(TryAt(ti, p, l, h), TryAt(ti, q, l2, h2))
  PROVE  NoWorse(ti, p, l, h, q, l2, h2)
<1> DEFINE x == TryAt(ti, p, l, h)
           y == TryAt(ti, q, l2, h2)
           d == Distance(10000, Scl(ti, p, l, h))
           e == Distance(10000, Scl(ti, q, l2, h2))
<1>1. ErrorIn(ti, p, l, h)
  BY ErrorIs, Zenon
<1>2. ErrorIn(ti, q, l2, h2)
  BY ErrorIs, Zenon
<1>3. x[1] = d /\ x[2] = p /\ x[3] = l /\ x \in Try /\ d \in Nat
  BY <1>1 DEF ErrorIn, TryAt
<1>4. y[1] = e /\ y[2] = q /\ y[3] = l2 /\ y \in Try /\ e \in Nat
  BY <1>2 DEF ErrorIn, TryAt
<1>5. x = y \/ Before(x, y)
  OBVIOUS
<1> HIDE DEF x, y, d, e
<1>6. Before(x, y) => \/ x[1] < y[1]
                      \/ x[1] = y[1] /\ x[2] < y[2]
                      \/ x[1] = y[1] /\ x[2] = y[2] /\ x[3] <= y[3]
  <2>1. Before(x, y) <=>
              \/ x[1] < y[1]
              \/ x[1] = y[1] /\ x[2] < y[2]
              \/ x[1] = y[1] /\ x[2] = y[2] /\ x[3] < y[3]
              \/ x[1] = y[1] /\ x[2] = y[2] /\ x[3] = y[3] /\ x[4] < y[4]
    BY <1>3, <1>4, BeforeIs
  <2> QED BY <1>3, <1>4, <2>1
<1>7. d <= e /\ (d = e /\ p = q => l <= l2)
  BY <1>3, <1>4, <1>5, <1>6
<1> QED BY <1>7 DEF NoWorse, d, e

(* The search for the halves of SCL: what it finds suits, and from 2 MHz   *)
(* on it finds one, if every prescaler that may be needed is given.        *)
GoodTry(ti, x, p, l, h) ==
  /\ x = TryAt(ti, p, l, h)
  /\ Suits(ti, p, l, h)
  /\ ti <= 500 => x[1] < 10000

LEMMA BestSuits ==
  ASSUME NEW ti \in TickPeriods, NEW timings, \A t \in timings : t.presc \in 0..15,
         \A p \in 0..15 : (p + 1) * ti >= 21 => \E t \in timings : t.presc = p
  PROVE  /\ \A x \in Best(ti, timings) :
              \E t \in timings, l, h \in 0..255 : GoodTry(ti, x, t.presc, l, h)
         /\ ti <= 500 => Best(ti, timings) # {}
<1>1. /\ \A x \in Best(ti, timings) :
           /\ \E t \in timings, l, h \in 0..255 :
                 x = TryAt(ti, t.presc, l, h) /\ Possible(ti, t.presc, l, h)
           /\ \A t \in timings, l, h \in 0..255 :
                 Possible(ti, t.presc, l, h) =>
                   x = TryAt(ti, t.presc, l, h) \/ Before(x, TryAt(ti, t.presc, l, h))
      /\ (\E t \in timings, l, h \in 0..255 : Possible(ti, t.presc, l, h))
            => Best(ti, timings) # {}
  BY BestIs
<1>2. ti \in Nat /\ ti >= 6
  BY DEF TickPeriods
<1>3. ASSUME ti <= 500
      PROVE  \E u \in timings, l2, h2 \in 0..255 : NearTry(ti, u.presc, l2, h2)
  <2>1. PICK p \in 0..15, l2, h2 \in 0..255 : NearTry(ti, p, l2, h2)
    BY <1>3, TryExists, Zenon
  <2>2. PICK u \in timings : u.presc = p
    BY <2>1 DEF NearTry
  <2> QED BY <2>1, <2>2, Zenon
<1>4. ASSUME NEW x \in Best(ti, timings)
      PROVE  \E t \in timings, l, h \in 0..255 :
              GoodTry(ti, x, t.presc, l, h)
  <2>1. PICK t \in timings, l \in 0..255, h \in 0..255 :
           x = TryAt(ti, t.presc, l, h) /\ Possible(ti, t.presc, l, h)
    BY <1>1, Zenon
  <2>2. t.presc \in 0..15
    OBVIOUS
  <2> DEFINE p == t.presc
             s == Scl(ti, p, l, h)
             d == Distance(10000, s)
  <2>3. \A u \in timings, l2, h2 \in 0..255 :
           Possible(ti, u.presc, l2, h2) => NoWorse(ti, p, l, h, u.presc, l2, h2)
    <3> TAKE u \in timings, l2 \in 0..255, h2 \in 0..255
    <3> HAVE Possible(ti, u.presc, l2, h2)
    <3>1. x = TryAt(ti, u.presc, l2, h2) \/ Before(x, TryAt(ti, u.presc, l2, h2))
      BY <1>1, Zenon
    <3>2. u.presc \in 0..15
      OBVIOUS
    <3>3. \/ TryAt(ti, p, l, h) = TryAt(ti, u.presc, l2, h2)
          \/ Before(TryAt(ti, p, l, h), TryAt(ti, u.presc, l2, h2))
      BY <2>1, <3>1, Zenon
    <3> QED BY <2>2, <3>2, <3>3, FirstNoWorse, Zenon
  <2>4. l >= 1 /\ h <= 254 => ~Possible(ti, p, l - 1, h + 1)
    <3> SUFFICES ASSUME l >= 1, h <= 254, Possible(ti, p, l - 1, h + 1)
                 PROVE  FALSE
      OBVIOUS
    <3>1. l - 1 \in 0..255 /\ h + 1 \in 0..255
      OBVIOUS
    <3>2. Scl(ti, p, l - 1, h + 1) = s
      <4>1. (l - 1) + (h + 1) + 2 = l + h + 2
        OBVIOUS
      <4> QED BY <4>1 DEF Scl
    <3>3. NoWorse(ti, p, l, h, p, l - 1, h + 1)
      BY <2>3, <3>1, Zenon
    <3>4. l <= l - 1
      BY <3>2, <3>3 DEF NoWorse
    <3> QED BY <3>4
  <2>5. h <= 254 /\ Possible(ti, p, l, h + 1) => d <= Distance(10000, Scl(ti, p, l, h + 1))
    <3> SUFFICES ASSUME h <= 254, Possible(ti, p, l, h + 1)
                 PROVE  d <= Distance(10000, Scl(ti, p, l, h + 1))
      OBVIOUS
    <3>1. h + 1 \in 0..255
      OBVIOUS
    <3>2. NoWorse(ti, p, l, h, p, l, h + 1)
      BY <2>3, <3>1, Zenon
    <3> QED BY <3>2 DEF NoWorse
  <2>6. ErrorIn(ti, p, l, h)
    BY <2>2, ErrorIs, Zenon
  <2>7. d \in Nat /\ x[1] = d
    BY <2>1, <2>6 DEF ErrorIn, TryAt
  <2>8. ti <= 500 => d < 10000 /\ (d <= 40 \/ d < ti)
    <3> SUFFICES ASSUME ti <= 500 PROVE d < 10000 /\ (d <= 40 \/ d < ti)
      OBVIOUS
    <3>1. PICK u \in timings, l2 \in 0..255, h2 \in 0..255 : NearTry(ti, u.presc, l2, h2)
      BY <1>3, Zenon
    <3> DEFINE z == Scl(ti, u.presc, l2, h2)
    <3>2. z <= 10000 /\ (10000 - z <= 40 \/ 10000 - z < ti)
      BY <3>1 DEF NearTry
    <3>3. d <= Distance(10000, z)
      <4>1. Possible(ti, u.presc, l2, h2)
        BY <3>1 DEF NearTry
      <4>2. NoWorse(ti, p, l, h, u.presc, l2, h2)
        BY <2>3, <4>1, Zenon
      <4> QED BY <4>2 DEF NoWorse
    <3>4. z \in Nat
      <4>1. u.presc \in 0..15
        OBVIOUS
      <4>2. ErrorIn(ti, u.presc, l2, h2)
        BY <4>1, ErrorIs, Zenon
      <4> QED BY <4>2 DEF ErrorIn
    <3> HIDE DEF z, d
    <3>5. Distance(10000, z) = 10000 - z
      BY <3>2, <3>4 DEF Distance
    <3> QED BY <1>2, <2>7, <3>2, <3>3, <3>4, <3>5
  <2>9. Foremost(ti, p, l, h)
    <3>1. ti <= 500 => d <= 40 \/ d < ti
      BY <2>8
    <3> QED BY <2>1, <2>4, <2>5, <3>1 DEF Foremost
  <2>10. Suits(ti, p, l, h)
    BY <2>2, <2>9, ForemostSuits, Zenon
  <2>11. ti <= 500 => x[1] < 10000
    BY <2>7, <2>8
  <2>12. GoodTry(ti, x, t.presc, l, h)
    BY <2>1, <2>10, <2>11 DEF GoodTry
  <2> QED BY <2>12, Zenon
<1>5. ASSUME ti <= 500
      PROVE  Best(ti, timings) # {}
  <2>1. PICK u \in timings, l2 \in 0..255, h2 \in 0..255 : NearTry(ti, u.presc, l2, h2)
    BY <1>3, <1>5, Zenon
  <2>2. Possible(ti, u.presc, l2, h2)
    BY <2>1 DEF NearTry
  <2> QED BY <1>1, <2>2, Zenon
<1> QED BY <1>4, <1>5

(* The first search: each prescaler that it keeps leaves time to set up    *)
(* data, no delay holds it, and every prescaler of 21 ns or more is kept.  *)
LEMMA TimingsAre ==
  ASSUME NEW clk, Ti2cclk(clk) \in TickPeriods, NEW mode \in I2cSpeedModes
  PROVE  LET ti      == Ti2cclk(clk)
             timings == ComputePrescScldelSdadel(clk, mode)
         IN /\ \A t \in timings :
                 /\ t.presc \in 0..15 /\ t.sdadel = 0
                 /\ (t.scldel + 1) * (t.presc + 1) * ti >= I2cCharacteristics[mode].sudat_min
            /\ \A p \in 0..15 : (p + 1) * ti >= 21 => \E t \in timings : t.presc = p
<1> DEFINE c  == I2cCharacteristics[mode]
           ti == Ti2cclk(clk)
           longest == Max({0, c.vddat_max - I2cAnalogFilterDelayMax - 4 * ti})
           setup(presc) == {d \in 0..15 : (d + 1) * (presc + 1) * ti >= c.sudat_min}
           hold(presc)  == {d \in 0..15 : d * (presc + 1) * ti <= longest}
           kept == {q \in 0..15 : setup(q) # {} /\ hold(q) # {}}
           timings == {[presc |-> p, scldel |-> Min(setup(p)), sdadel |-> Min(hold(p))] : p \in kept}
<1>1. ti \in Nat /\ ti >= 6
  BY DEF TickPeriods
<1>2. c.sudat_min \in {250, 100, 50} /\ c.vddat_max \in Nat
  BY DEF I2cCharacteristics, I2cSpeedModes
<1>3. ComputePrescScldelSdadel(clk, mode) = timings
  BY Zenon DEF ComputePrescScldelSdadel
<1> HIDE DEF c, ti
<1>4. longest \in Nat
  <2> DEFINE n == c.vddat_max - I2cAnalogFilterDelayMax - 4 * ti
  <2>1. n \in Int
    BY <1>1, <1>2 DEF I2cAnalogFilterDelayMax
  <2> HIDE DEF n
  <2>2. Max({0, n}) \in {0, n} /\ (Max({0, n}) <= Max({0, n}) <=> (0 <= Max({0, n}) /\ n <= Max({0, n})))
    <3>1. Max({0, n}) \in {0, n} /\ \A x \in Int : Max({0, n}) <= x <=> (0 <= x /\ n <= x)
      BY <2>1, MaxOfTwo, 0 \in Int
    <3> QED BY <2>1, <3>1
  <2>3. Max({0, n}) \in Nat
    BY <2>1, <2>2
  <2> QED BY <2>3 DEF n
<1> HIDE DEF longest
<1>5. ASSUME NEW p \in 0..15
      PROVE  hold(p) # {} /\ Min(hold(p)) = 0
  <2>1. 0 * (p + 1) * ti = 0
    BY <1>1
  <2>2. 0 \in hold(p)
    BY <1>4, <2>1
  <2>3. hold(p) \in SUBSET Nat
    OBVIOUS
  <2> HIDE DEF hold
  <2>4. Min(hold(p)) \in hold(p) /\ \A y \in hold(p) : Min(hold(p)) <= y
    BY <2>2, <2>3, MinIsSmallest
  <2>5. Min(hold(p)) \in Nat /\ Min(hold(p)) <= 0
    BY <2>2, <2>3, <2>4
  <2> QED BY <2>2, <2>5
<1>6. ASSUME NEW p \in kept
      PROVE  p \in 0..15 /\ (Min(setup(p)) + 1) * (p + 1) * ti >= c.sudat_min
  <2>1. p \in 0..15 /\ setup(p) # {} /\ setup(p) \in SUBSET Nat
    OBVIOUS
  <2>2. Min(setup(p)) \in setup(p)
    <3> HIDE DEF setup
    <3> QED BY <2>1, MinIsSmallest
  <2> QED BY <2>1, <2>2
<1>7. ASSUME NEW p \in 0..15, (p + 1) * ti >= 21
      PROVE  p \in kept
  <2>1. (15 + 1) * (p + 1) * ti = 16 * ((p + 1) * ti)
    BY <1>1
  <2>2. (15 + 1) * (p + 1) * ti >= c.sudat_min
    BY <1>1, <1>2, <1>7, <2>1
  <2>3. 15 \in setup(p)
    BY <2>2
  <2> QED BY <1>5, <2>3
<1> HIDE DEF setup, hold, kept
<1>8. ASSUME NEW t \in timings
      PROVE  /\ t.presc \in 0..15 /\ t.sdadel = 0
             /\ (t.scldel + 1) * (t.presc + 1) * ti >= c.sudat_min
  <2>1. PICK p \in kept : t = [presc |-> p, scldel |-> Min(setup(p)), sdadel |-> Min(hold(p))]
    OBVIOUS
  <2>2. t.presc = p /\ t.scldel = Min(setup(p)) /\ t.sdadel = Min(hold(p))
    BY <2>1
  <2> QED BY <1>5, <1>6, <2>2
<1>9. ASSUME NEW p \in 0..15, (p + 1) * ti >= 21
      PROVE  \E t \in timings : t.presc = p
  <2> DEFINE t == [presc |-> p, scldel |-> Min(setup(p)), sdadel |-> Min(hold(p))]
  <2>1. t \in timings /\ t.presc = p
    BY <1>7, <1>9
  <2> HIDE DEF t
  <2> QED BY <2>1
<1> HIDE DEF timings
<1> QED BY <1>3, <1>8, <1>9 DEF ti, c

(* The whole search, for any clock whose period is in the range. *)
LEMMA CalculatedSuits ==
  ASSUME NEW clk, Ti2cclk(clk) \in TickPeriods, NEW mode \in I2cSpeedModes
  PROVE  LET ti == Ti2cclk(clk)
         IN /\ \A t \in CalculateI2cTiming(clk, mode) :
                 /\ t.presc \in 0..15 /\ t.scll \in 0..255 /\ t.sclh \in 0..255 /\ t.sdadel = 0
                 /\ (t.scldel + 1) * (t.presc + 1) * ti >= I2cCharacteristics[mode].sudat_min
                 /\ Suits(ti, t.presc, t.scll, t.sclh)
            /\ ti <= 500 => CalculateI2cTiming(clk, mode) # {}
<1> DEFINE ti == Ti2cclk(clk)
           timings == ComputePrescScldelSdadel(clk, mode)
           lowest == Best(ti, timings)
           found == {y \in timings \X lowest : y[2][1] < PeriodOf(Std.freq) /\ y[2][2] = y[1].presc}
           with(t, x) == [presc |-> t.presc, scldel |-> t.scldel, sdadel |-> t.sdadel,
                          scll |-> x[3], sclh |-> x[4]]
<1>1. CalculateI2cTiming(clk, mode) = {with(y[1], y[2]) : y \in found}
  BY DEF CalculateI2cTiming, ComputeScllSclh, Best, Std
<1>2. /\ \A t \in timings :
           /\ t.presc \in 0..15 /\ t.sdadel = 0
           /\ (t.scldel + 1) * (t.presc + 1) * ti >= I2cCharacteristics[mode].sudat_min
      /\ \A p \in 0..15 : (p + 1) * ti >= 21 => \E t \in timings : t.presc = p
  BY TimingsAre
<1> HIDE DEF timings, ti
<1>3. /\ \A x \in lowest : \E t \in timings, l, h \in 0..255 : GoodTry(ti, x, t.presc, l, h)
      /\ ti <= 500 => lowest # {}
  BY <1>2, BestSuits DEF ti
<1> HIDE DEF lowest
<1>4. ASSUME NEW y \in found
      PROVE  LET t == with(y[1], y[2])
             IN /\ t.presc \in 0..15 /\ t.scll \in 0..255 /\ t.sclh \in 0..255 /\ t.sdadel = 0
                /\ (t.scldel + 1) * (t.presc + 1) * ti >= I2cCharacteristics[mode].sudat_min
                /\ Suits(ti, t.presc, t.scll, t.sclh)
  <2>1. y[1] \in timings /\ y[2] \in lowest /\ y[2][2] = y[1].presc
    OBVIOUS
  <2>2. PICK u \in timings, l \in 0..255, h \in 0..255 : GoodTry(ti, y[2], u.presc, l, h)
    BY <1>3, <2>1, Zenon
  <2>3. y[2][2] = u.presc /\ y[2][3] = l /\ y[2][4] = h /\ Suits(ti, u.presc, l, h)
    BY <2>2 DEF GoodTry, TryAt
  <2> DEFINE t == with(y[1], y[2])
  <2>4. /\ t.presc = y[1].presc /\ t.scldel = y[1].scldel /\ t.sdadel = y[1].sdadel
        /\ t.scll = l /\ t.sclh = h
    BY <2>3
  <2> HIDE DEF t
  <2>5. Suits(ti, t.presc, t.scll, t.sclh)
    BY <2>1, <2>3, <2>4
  <2>6. /\ t.presc \in 0..15 /\ t.sdadel = 0
        /\ (t.scldel + 1) * (t.presc + 1) * ti >= I2cCharacteristics[mode].sudat_min
    BY <1>2, <2>1, <2>4
  <2> QED BY <2>4, <2>5, <2>6 DEF t
<1>5. ASSUME ti <= 500
      PROVE  found # {}
  <2>1. PICK x \in lowest : TRUE
    BY <1>3, <1>5
  <2>2. PICK u \in timings, l \in 0..255, h \in 0..255 : GoodTry(ti, x, u.presc, l, h)
    BY <1>3, Zenon
  <2>3. x[1] < 10000 /\ x[2] = u.presc
    BY <1>5, <2>2 DEF GoodTry, TryAt
  <2>4. <<u, x>> \in found
    BY <2>3, StandardRow
  <2> QED BY <2>4
<1> HIDE DEF found, with
<1> QED BY <1>1, <1>4, <1>5 DEF ti

(* The period of a clock from 1 to 171 MHz, rounded to nanoseconds. *)
ClockRange == {clk \in Nat : clk >= 15625 /\ clk < 2671875}

LEMMA PeriodOfClock ==
  ASSUME NEW clk \in ClockRange
  PROVE  LET ti == Ti2cclk(clk)
         IN /\ ti \in TickPeriods
            /\ (2 * ti - 1) * clk <= 31250000 /\ (2 * ti + 1) * clk >= 31250000
            /\ clk >= 31250 => ti <= 500
<1> DEFINE half == clk \div 2
           n    == 15625000 + half
           ti   == n \div clk
<1>1. clk \in Nat /\ clk \in Divider /\ clk >= 15625 /\ clk < 2671875
  BY DEF ClockRange, Divider
<1>2. half \in Nat /\ 2 * half <= clk /\ clk <= 2 * half + 1
  BY <1>1
<1> HIDE DEF half
<1>3. n \in Nat /\ 2 * n <= 31250000 + clk /\ 2 * n >= 31250000 + clk - 1
  BY <1>1, <1>2
<1> HIDE DEF n
<1>4. ti \in Nat /\ clk * ti <= n /\ n < clk * ti + clk
  BY <1>1, <1>3, Quotient
<1> HIDE DEF ti
<1> DEFINE w == clk * ti
<1>5. w \in Nat /\ (2 * ti - 1) * clk = 2 * w - clk /\ (2 * ti + 1) * clk = 2 * w + clk
  BY <1>1, <1>4
<1>6. /\ ti <= 5 => w <= 5 * clk
      /\ ti >= 1001 => w >= 1001 * clk
      /\ ti >= 501 => w >= 501 * clk
  BY <1>1, <1>4
<1>7. w <= n /\ n < w + clk
  BY <1>4
<1> HIDE DEF w
<1>8. 2 * w - clk <= 31250000 /\ 2 * w + clk >= 31250000
  BY <1>1, <1>3, <1>5, <1>7
<1>9. ti >= 6 /\ ti <= 1000 /\ (clk >= 31250 => ti <= 500)
  BY <1>1, <1>4, <1>5, <1>6, <1>8
<1>10. ti = Ti2cclk(clk)
  BY DEF ti, n, half, Ti2cclk
<1> QED BY <1>4, <1>5, <1>8, <1>9, <1>10 DEF TickPeriods

(* The period of SCL with the clock as it is, not rounded. *)
SclWithin(t, clk) == SclPeriod(t, clk) \in 8333..12500

LEMMA SclPeriodWithin ==
  ASSUME NEW clk \in ClockRange, NEW p \in 0..15, NEW l \in 0..255, NEW h \in 0..255,
         Suits(Ti2cclk(clk), p, l, h)
  PROVE  \A t : t.presc = p /\ t.scll = l /\ t.sclh = h => SclWithin(t, clk)
<1> DEFINE ti    == Ti2cclk(clk)
           ticks == (l + h + 2) * (p + 1) + 4
           s     == Scl(ti, p, l, h) - 100
           x     == clk \div 100
           y     == (ticks * 156250) \div x
<1>1. /\ ti \in TickPeriods
      /\ (2 * ti - 1) * clk <= 31250000 /\ (2 * ti + 1) * clk >= 31250000
  BY PeriodOfClock
<1>2. clk \in Nat /\ clk >= 15625 /\ 100 \in Divider
  BY DEF ClockRange, Divider
<1> HIDE DEF ti
<1>3. ti \in Nat /\ ti >= 6 /\ ti <= 1000
  BY <1>1 DEF TickPeriods
<1>4. ticks \in Nat /\ s = ticks * ti
  <2> DEFINE m == l + h + 2
             k == p + 1
  <2>1. m \in Nat /\ k \in Nat
    OBVIOUS
  <2>2. s = 4 * ti + m * (k * ti) /\ ticks = m * k + 4
    <3>1. m * (k * ti) \in Nat /\ Scl(ti, p, l, h) = 100 + 4 * ti + m * (k * ti)
      BY <1>3, <2>1 DEF Scl
    <3> HIDE DEF m, k
    <3> QED BY <1>3, <3>1 DEF m, k
  <2> HIDE DEF m, k, s, ticks
  <2>3. m * k \in Nat /\ m * (k * ti) = (m * k) * ti
    BY <1>3, <2>1
  <2> QED BY <1>3, <2>2, <2>3
<1>5. s >= 8600 /\ s <= 11400 /\ (ti <= 40 => s >= 9860 /\ s <= 9940)
  <2>1. /\ Scl(ti, p, l, h) >= 8700 /\ Scl(ti, p, l, h) <= 11500
        /\ ti <= 40 => /\ Scl(ti, p, l, h) >= 9960
                       /\ Scl(ti, p, l, h) <= 10040
    BY DEF Suits, ti
  <2>2. Scl(ti, p, l, h) \in Int
    BY <1>3 DEF Scl
  <2> DEFINE z == Scl(ti, p, l, h)
  <2> HIDE DEF z
  <2> QED BY <2>1, <2>2 DEF z
<1> HIDE DEF ticks, s
<1>6. s \in Nat /\ 6 * ticks <= s /\ (ti > 40 => 41 * ticks <= s)
  <2>1. 6 * ticks <= ticks * ti /\ ticks * ti \in Nat
    BY <1>3, <1>4
  <2>2. ti > 40 => 41 * ticks <= ticks * ti
    BY <1>3, <1>4
  <2> QED BY <1>4, <2>1, <2>2
<1>7. 2 * s - ticks >= 16466 /\ 2 * s + ticks <= 23100
  BY <1>3, <1>4, <1>5, <1>6
<1>8. (2 * s - ticks) * clk <= 31250000 * ticks /\ (2 * s + ticks) * clk >= 31250000 * ticks
  <2> DEFINE a == (2 * ti - 1) * clk
             b == (2 * ti + 1) * clk
  <2>1. a \in Int /\ b \in Int /\ a <= 31250000 /\ b >= 31250000
    BY <1>1, <1>2, <1>3
  <2>2. (2 * s - ticks) * clk = a * ticks /\ (2 * s + ticks) * clk = b * ticks
    <3>1. 2 * s - ticks = (2 * ti - 1) * ticks /\ 2 * s + ticks = (2 * ti + 1) * ticks
      BY <1>3, <1>4
    <3> DEFINE u == 2 * ti - 1
               v == 2 * ti + 1
    <3>2. u \in Int /\ v \in Int
      BY <1>3
    <3> HIDE DEF u, v
    <3>3. (u * ticks) * clk = (u * clk) * ticks /\ (v * ticks) * clk = (v * clk) * ticks
      BY <1>2, <1>4, <3>2
    <3> QED BY <3>1, <3>3 DEF u, v
  <2> HIDE DEF a, b
  <2>3. a * ticks <= 31250000 * ticks /\ b * ticks >= 31250000 * ticks
    BY <1>4, <2>1
  <2> QED BY <2>2, <2>3
<1>9. 16466 * clk <= 31250000 * ticks /\ 23100 * clk >= 31250000 * ticks
  <2> DEFINE a == 2 * s - ticks
             b == 2 * s + ticks
  <2>1. a \in Int /\ b \in Int /\ a >= 16466 /\ b <= 23100
    BY <1>4, <1>6, <1>7
  <2>2. a * clk <= 31250000 * ticks /\ b * clk >= 31250000 * ticks
    BY <1>8
  <2> HIDE DEF a, b
  <2>3. a * clk >= 16466 * clk /\ b * clk <= 23100 * clk /\ a * clk \in Int /\ b * clk \in Int
    BY <1>2, <2>1
  <2> QED BY <1>2, <1>4, <2>2, <2>3
<1>10. x \in Nat /\ 100 * x <= clk /\ clk < 100 * x + 100
  BY <1>2, Quotient
<1> HIDE DEF x
<1>11. x >= 156 /\ x \in Divider /\ ticks * 156250 \in Nat
  BY <1>2, <1>4, <1>10 DEF Divider
<1>12. 8233 * x <= ticks * 156250 /\ ticks * 156250 <= 12400 * x
  BY <1>2, <1>4, <1>9, <1>10, <1>11
<1>13. y \in Nat /\ x * y <= ticks * 156250 /\ ticks * 156250 < x * y + x
  BY <1>11, Quotient
<1> HIDE DEF y
<1>14. y >= 8233 /\ y <= 12400
  <2>1. y <= 8232 => x * y <= 8232 * x
    BY <1>10, <1>13
  <2>2. y >= 12401 => x * y >= 12401 * x
    BY <1>10, <1>13
  <2> QED BY <1>4, <1>10, <1>12, <1>13, <2>1, <2>2
<1>15. ASSUME NEW t, t.presc = p, t.scll = l, t.sclh = h
       PROVE  SclWithin(t, clk)
  <2>1. SclPeriod(t, clk) = 100 + y
    BY <1>15 DEF SclPeriod, I2cAnalogFilterDelayMin, y, x, ticks
  <2> QED BY <1>13, <1>14, <2>1 DEF SclWithin
<1> QED BY <1>15, Zenon

(* The clock of the I2C of the G4: with the smallest multiplier and the    *)
(* largest dividers that the constructor accepts, 1 MHz.                   *)
LEMMA G4I2cClkIs ==
  ASSUME ClocksInv, step = "done", chip = "g4"
  PROVE  G4I2cClk \in ClockRange /\ RealI2c = G4I2cClk
<1>1. Switched
  BY DEF ClocksInv, PhaseInv
<1>2. RealI2c = G4I2cClk
  BY G4Claims DEF G4AsClaimed
<1>3. /\ G4SysClk = G4PllClk /\ G4PllClk \in Nat /\ G4PllClk < 171 * MHz
      /\ G4Bus("apb1") = G4PllClk
  BY <1>1, G4Frequencies
<1>4. cs.i2c \in {"pclk1", "sysclk", "hsi"}
  BY SettingsAssumption DEF ClocksInv, Compiled
<1>5. G4PllClk >= 15625
  <2>1. /\ cs.pll1 \in Plls /\ cs.system = G4SystemDefault /\ G4Validate
    BY SettingTypes, SettingsAssumption DEF ClocksInv, Compiled
  <2>2. Asked = "pll"
    BY <2>1 DEF Asked, G4SystemDefault
  <2>3. cs.pllSource = "hsi" /\ cs.pll1.enable
    BY <1>1, <2>2 DEF Switched, Started, SystemPll
  <2> DEFINE m == cs.pll1.m
             n == cs.pll1.n
             r == cs.pll1.r
             q == (250000 * n) \div m
  <2>4. m \in 1..16 /\ n \in 8..127 /\ r \in {2, 4, 6, 8}
    BY <2>1, <2>3 DEF G4Validate
  <2>5. G4PllClk = q \div r
    <3>1. (G4Hsi * cs.pll1.n) % Wrap = 250000 * n
      <4>1. G4Hsi * cs.pll1.n = 250000 * n /\ 250000 * n \in Nat /\ 250000 * n < Wrap
        BY <2>4 DEF G4Hsi, MHz, Wrap
      <4> QED BY <4>1, SmallModulus
    <3> HIDE DEF n
    <3> QED BY <2>3, <3>1 DEF G4PllClk
  <2> HIDE DEF m, n, r
  <2>6. q \in Nat /\ q >= 125000
    <3> DEFINE z == 250000 * n
    <3>1. m \in Divider /\ z \in Nat /\ z >= 2000000 /\ m <= 16 /\ q = z \div m
      BY <2>4 DEF Divider
    <3> HIDE DEF z, q
    <3>2. q \in Nat /\ z < m * q + m
      BY <3>1, Quotient
    <3>3. q < 125000 => m * q + m <= 16 * 124999 + 16
      <4>1. q < 125000 => m * q <= m * 124999
        BY <2>4, <3>2
      <4> QED BY <2>4, <3>2, <4>1
    <3> QED BY <2>4, <3>1, <3>2, <3>3
  <2> HIDE DEF q
  <2>7. r \in Divider /\ r <= 8
    BY <2>4 DEF Divider
  <2>8. q \div r \in Nat /\ q < r * (q \div r) + r
    BY <2>6, <2>7, Quotient
  <2> DEFINE y == q \div r
  <2> HIDE DEF y
  <2>9. y < 15625 => r * y + r <= 8 * 15624 + 8
    <3>1. y < 15625 => r * y <= r * 15624
      BY <2>4, <2>8 DEF y
    <3>2. r \in Nat /\ r * y \in Nat
      BY <2>4, <2>8 DEF y
    <3> QED BY <2>7, <3>1, <3>2
  <2>10. y \in Nat /\ q < r * y + r
    BY <2>8 DEF y
  <2>11. y >= 15625
    BY <2>4, <2>6, <2>9, <2>10
  <2> QED BY <2>5, <2>11 DEF y
<1>6. G4I2cClk \in {G4PllClk, 250000}
  BY <1>3, <1>4 DEF G4I2cClk, G4Hsi, MHz
<1> QED BY <1>2, <1>3, <1>5, <1>6 DEF ClockRange, MHz

(* Whatever the PLL, the source of the I2C's clock and the mode, a timing  *)
(* that the compiler finds for an I2C of the STM32G4 suits the bus with    *)
(* the clock that the I2C has in the end, and from 2 MHz on it finds one,  *)
(* with the exceptions that I2cWithinMode names.                           *)
THEOREM I2cSuitsBus == ClocksSpec => []I2cWithinMode
<1>1. ASSUME ClocksInv, chip = "g4", step = "done", NEW mode \in I2cSpeedModes
      PROVE  LET c     == I2cCharacteristics[mode]
                 std   == I2cCharacteristics.standard
                 ti    == Ti2cclk(G4I2cClk)
                 found == CalculateI2cTiming(G4I2cClk, mode)
             IN /\ G4I2cClk >= 2 * MHz => found # {}
                /\ \A t \in found :
                     /\ SclPeriod(t, RealI2c) \in PeriodOf(std.freq_max)..PeriodOf(std.freq_min)
                     /\ HalfPeriod(ti, t.presc, t.scll) >= std.lscl_min
                     /\ HalfPeriod(ti, t.presc, t.sclh) >= std.hscl_min
                     /\ (t.scldel + 1) * (t.presc + 1) * ti >= c.sudat_min
                     /\ I2cAnalogFilterDelayMax + 4 * ti <= c.vddat_max =>
                          I2cAnalogFilterDelayMax + (t.sdadel * (t.presc + 1) + 4) * ti
                            <= c.vddat_max
  <2> DEFINE clk   == G4I2cClk
             ti    == Ti2cclk(clk)
             found == CalculateI2cTiming(clk, mode)
  <2>1. clk \in ClockRange /\ RealI2c = clk
    BY <1>1, G4I2cClkIs
  <2> HIDE DEF clk
  <2>2. ti \in TickPeriods /\ (clk >= 31250 => ti <= 500)
    BY <2>1, PeriodOfClock
  <2>3. /\ \A t \in found :
             /\ t.presc \in 0..15 /\ t.scll \in 0..255 /\ t.sclh \in 0..255 /\ t.sdadel = 0
             /\ (t.scldel + 1) * (t.presc + 1) * ti >= I2cCharacteristics[mode].sudat_min
             /\ Suits(ti, t.presc, t.scll, t.sclh)
        /\ ti <= 500 => found # {}
    BY <2>2, CalculatedSuits
  <2> HIDE DEF found
  <2>4. clk >= 2 * MHz => found # {}
    BY <2>2, <2>3 DEF MHz
  <2>5. ASSUME NEW t \in found
        PROVE  /\ SclPeriod(t, clk) \in PeriodOf(Std.freq_max)..PeriodOf(Std.freq_min)
               /\ HalfPeriod(ti, t.presc, t.scll) >= Std.lscl_min
               /\ HalfPeriod(ti, t.presc, t.sclh) >= Std.hscl_min
               /\ (t.scldel + 1) * (t.presc + 1) * ti >= I2cCharacteristics[mode].sudat_min
               /\ (t.sdadel * (t.presc + 1) + 4) * ti = 4 * ti
    <3> HIDE DEF ti
    <3> DEFINE p == t.presc
               l == t.scll
               h == t.sclh
               tick == (p + 1) * ti
    <3>1. p \in 0..15 /\ l \in 0..255 /\ h \in 0..255 /\ Suits(ti, p, l, h) /\ t.sdadel = 0
      BY <2>3
    <3>2. SclPeriod(t, clk) \in 8333..12500
      <4>1. t.presc = p /\ t.scll = l /\ t.sclh = h
        OBVIOUS
      <4> HIDE DEF p, l, h
      <4>2. Suits(Ti2cclk(clk), p, l, h)
        BY <3>1 DEF ti
      <4>3. \A u : u.presc = p /\ u.scll = l /\ u.sclh = h => SclWithin(u, clk)
        BY <2>1, <3>1, <4>2, SclPeriodWithin, ZenonT(40)
      <4>4. SclWithin(t, clk)
        BY <4>1, <4>3, Zenon
      <4> HIDE DEF clk
      <4> QED BY <4>4 DEF SclWithin
    <3> HIDE DEF p, l, h
    <3>3. ti \in Nat /\ tick \in Nat
      BY <2>2, <3>1 DEF TickPeriods
    <3>4. \A k \in 0..255 : (k + 1) * (p + 1) * ti = (k + 1) * tick
      BY <2>2, <3>1, <3>3 DEF TickPeriods
    <3>5. (l + 1) * tick >= 4650 - 2 * ti /\ (h + 1) * tick >= 3950 - 2 * ti
      BY <3>1 DEF Suits
    <3> HIDE DEF tick
    <3>6. /\ HalfPeriod(ti, p, l) = 50 + 2 * ti + (l + 1) * tick
          /\ HalfPeriod(ti, p, h) = 50 + 2 * ti + (h + 1) * tick
      <4>1. /\ HalfPeriod(ti, p, l) = 50 + 2 * ti + (l + 1) * (p + 1) * ti
            /\ HalfPeriod(ti, p, h) = 50 + 2 * ti + (h + 1) * (p + 1) * ti
        BY DEF HalfPeriod, I2cAnalogFilterDelayMin
      <4>2. /\ (l + 1) * (p + 1) * ti = (l + 1) * tick
            /\ (h + 1) * (p + 1) * ti = (h + 1) * tick
        BY <3>1, <3>4
      <4> QED BY <4>1, <4>2
    <3>7. (l + 1) * tick \in Nat /\ (h + 1) * tick \in Nat
      BY <3>1, <3>3
    <3>8. HalfPeriod(ti, p, l) >= 4700 /\ HalfPeriod(ti, p, h) >= 4000
      BY <3>3, <3>5, <3>6, <3>7
    <3>9. (t.sdadel * (p + 1) + 4) * ti = 4 * ti
      <4>1. 0 * (p + 1) + 4 = 4
        BY <3>1
      <4> QED BY <3>1, <4>1
    <3>10. (t.scldel + 1) * (p + 1) * ti >= I2cCharacteristics[mode].sudat_min
      BY <2>3 DEF p
    <3> QED BY <3>2, <3>8, <3>9, <3>10, StandardRow DEF p, l, h
  <2> HIDE DEF ti
  <2>6. ASSUME NEW t \in found
        PROVE  I2cAnalogFilterDelayMax + 4 * ti <= I2cCharacteristics[mode].vddat_max =>
                 I2cAnalogFilterDelayMax + (t.sdadel * (t.presc + 1) + 4) * ti
                   <= I2cCharacteristics[mode].vddat_max
    BY <2>5
  <2> QED BY <2>1, <2>4, <2>5, <2>6 DEF clk, ti, found, Std
<1>2. ClocksInv => I2cWithinMode
  BY <1>1 DEF I2cWithinMode
<1> QED BY <1>2, ClocksInvariant, PTL
=============================================================================
