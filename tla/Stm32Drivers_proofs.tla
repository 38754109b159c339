------------------------ MODULE Stm32Drivers_proofs ------------------------
(***************************************************************************)
(* Proofs about programs on the STM32 drivers: an inductive invariant of   *)
(* DriversSafe, and from it the safety properties of Stm32Drivers.         *)
(***************************************************************************)
EXTENDS Stm32Drivers, RtosTransfers_proofs, FiniteSetTheorems, WellFoundedInduction

(* The program is one that compiles.                                       *)
BoardInv ==
    \/ family = "g0" /\ board \in G0Boards /\ G0Compiles(board)
    \/ family = "h7" /\ board \in H7Boards /\ H7Compiles(board)
    \/ family = "rtos" /\ board = NoBoard

AnyBuffer == Buffers \union {NoBuffer}
HalInv ==
    /\ built \subseteq InUse /\ building \subseteq InUse
    /\ stage \in [Requests -> 0..2]
    /\ link \in [Requests -> 0..Len(board.dma)]
    /\ DOMAIN pins = Pins
    /\ rx_buf \in [Devices -> AnyBuffer] /\ handed \in [Devices -> AnyBuffer]
    /\ filled \in [Requests -> AnyBuffer]
    /\ spoilt \subseteq Devices /\ hung \in Faults \union {"none"}

(* A pending interrupt is for a request that is under way.                 *)
RaisedInv ==
    \A x \in raised : /\ x = <<x[1], x[2]>> /\ x[1] \in Requests
                      /\ x[1][1] \in InUse /\ stage[x[1]] # 0

(* A channel of the STM32G0 is linked from when its driver is constructed. *)
LinkInv ==
    family = "g0" =>
      \A r \in Requests :
        link[r] = IF r[1] \in built /\ G0Kept(r) THEN Index(board.dma, r) ELSE 0

(* What may be under way: on the STM32G0 what has a channel or needs none, *)
(* on the STM32H7 transfers of UARTs, and of SPIs with channels.           *)
G0Channelless(r) ==
    \/ r[1] \in G0Uarts /\ board.mode[r[1]] = "irq"
    \/ r[1] \in G0Tims /\ r[2] # "burst"
    \/ r[1] = "exti"
StageOk(r) ==
    /\ r[1] \in built \/ (family = "g0" /\ r[1] = "exti" /\ "exti" \in InUse \cap clocked)
    /\ family = "g0" => G0Channelless(r) \/ link[r] # 0
    /\ family = "h7" => /\ r[2] \in {"tx", "rx"}
                        /\ \/ r[1] \in H7Uarts /\ board.mode[r[1]] = "irq"
                           \/ /\ r[1] \in H7Spis /\ board.mode[r[1]] = "dma"
                              /\ Index(board.dma, r) # 0
StageInv == \A r \in Requests : stage[r] # 0 => StageOk(r)

(* The lines of the pins and of the channels of the STM32G0.               *)
G0ExtiLines == {"EXTI0_1", "EXTI2_3", "EXTI4_15"}
G0DmaLines == {"DMA1_Channel1", "DMA1_Channel2_3", "DMA1_Ch4_7_DMA2_Ch1_5"}

(* An interrupt is listened to when its line is enabled, on the STM32H7 by *)
(* the request's core, and a handler there claims it.  The program may     *)
(* itself disable the lines of timers, and three UARTs have no handler.    *)
G0TimLines == {"TIM2", "TIM3_TIM4"}
H7Unhandled == {"USART6", "UART7", "UART8"}
Listened(r, line) ==
    /\ family = "g0" => line \in lines \union G0TimLines
    /\ family = "h7" => /\ <<Core(r[1]), line>> \in lines
                        /\ H7Owned(Core(r[1]), line) \/ line \in H7Unhandled

(* Whose interrupt a line is; and it is listened to.                       *)
LineOk(r, line) ==
    /\ Listened(r, line)
    /\ family = "g0" =>
         /\ line \in G0ExtiLines => r[1] = "exti"
         /\ line = "TIM2" => r = <<"tim2", "update">>
         /\ line = "TIM3_TIM4" => r[1] = "tim3"
         /\ line \in G0DmaLines => link[r] # 0 /\ line = G0DmaLine(link[r])
    /\ family = "h7" =>
         /\ \A d \in H7Uarts : line = H7UartIrqn(d) => r[1] = d
         /\ \A d \in H7Spis : line = H7SpiIrqn(d) => r[1] = d
OwnerInv == \A x \in raised : LineOk(x[1], x[2])

(* The lines of UARTs and SPIs that are enabled on a core are of its own.  *)
H7LinesInv ==
    family = "h7" =>
      \A c \in Cores :
        /\ \A d \in H7Uarts : <<c, H7UartIrqn(d)>> \in lines => d \in InUse /\ Core(d) = c
        /\ \A d \in H7Spis : <<c, H7SpiIrqn(d)>> \in lines => d \in InUse /\ Core(d) = c

(* What a driver is to have once it is constructed: the clock of its own   *)
(* peripheral, and the lines of its interrupts; a controller, the lines of *)
(* every channel of the list, and their clocks.                            *)
G0Wired(d, clocks, irqs) ==
    /\ d \in G0Uarts \union G0Spis \union G0I2s \union G0Tims \union {"exti"} => d \in clocks
    /\ d \in G0Uarts /\ board.mode[d] \in {"irq", "dma"} => G0UartIrqn(d) \in irqs
    /\ d = "exti" => \A p \in PinsOf("exti", {"in"}) : G0ExtiIrqn(p.pin[2]) \in irqs
    /\ d = "dma" => \A i \in DOMAIN board.dma : G0DmaLine(i) \in irqs
H7Wired(d, clocks, irqs) ==
    /\ d \in H7Uarts \union H7Spis => d \in clocks
    /\ d \in H7Uarts /\ board.mode[d] = "irq" => <<Core(d), H7UartIrqn(d)>> \in irqs
    /\ d \in H7Spis /\ board.mode[d] = "dma" => <<Core(d), H7SpiIrqn(d)>> \in irqs
    /\ d \in Controllers =>
         /\ \A i \in H7BdmaChannels : "bdma" \in clocks /\ <<Core(d), H7BdmaIrqn(i)>> \in irqs
         /\ \A i \in H7DmaChannels :
              /\ (IF H7Place(H7DmaChannels, i) <= 8 THEN "dma1" ELSE "dma2") \in clocks
              /\ <<Core(d), H7DmaIrqn(i)>> \in irqs
WiredInv ==
    /\ family = "g0" => \A d \in built : G0Wired(d, clocked, lines)
    /\ family = "g0" /\ "exti" \in InUse \cap clocked => G0Wired("exti", clocked, lines)
    /\ family = "h7" => \A d \in built : H7Wired(d, clocked, lines)

(* A driver in a DMA mode is constructed with its core's controllers.      *)
ControllersInv ==
    \A d \in built : board.mode[d] \in DmaModes => Controllers \cap SameCore(d) \subseteq built

(* A careful program starts nothing before all of its core is constructed; *)
(* pin interrupts come unasked.  Without them it constructs one device at  *)
(* a time, and no handler constructs another one.                          *)
Quiet == board.careful /\ board.mode["exti"] = "off"
QuietInv ==
    /\ board.careful =>
         \A r \in Requests : stage[r] # 0 /\ r[1] # "exti" => SameCore(r[1]) \subseteq built
    /\ Quiet =>
         /\ building \cap built = {}
         /\ \A d, e \in building : board.core[d] = board.core[e] => d = e

(* Unless a refused Receive has spoilt it, rx_buf is the buffer being      *)
(* filled, then the one that was handed out.                               *)
Received ==
    {x \in Requests : x[2] = "rx" /\ x[1] \in IF family = "g0" THEN G0Uarts ELSE H7Spis}
BufferInv ==
    \A r \in Received :
      \/ r[1] \in spoilt
      \/ IF stage[r] = 0 THEN handed[r[1]] = filled[r] ELSE rx_buf[r[1]] = filled[r]

DriversInv ==
    /\ BoardInv /\ HalInv /\ RaisedInv /\ LinkInv /\ StageInv
    /\ OwnerInv /\ H7LinesInv /\ QuietInv /\ BufferInv
    /\ WiredInv /\ ControllersInv
    /\ FaultsExplained /\ PinsRouted /\ TransfersInv

-----------------------------------------------------------------------------
(* The drivers of a program are those of its family.                       *)
Setups == IF family = "g0" THEN G0Setups ELSE H7Setups
SignalOf(p) == <<p.pin, <<p.dev, p.signal>>>>

(* A set-up routes no pin but those of its device, and those to their      *)
(* signals, on ports with a clock.                                         *)
OwnPins(s, d) ==
    \A x \in s.pinned :
      \E p \in board.pinout : /\ p.dev = d /\ x[1] = p.pin
                            /\ (Neglected(p) \/ x = SignalOf(p))
AllPins(s, d) ==
    \A p \in board.pinout :
      p.dev = d /\ ~Neglected(p) => SignalOf(p) \in s.pinned /\ Port(p.pin) \in s.clocks

(* The set-up of some pins. *)
LEMMA G0AlternateFields ==
  ASSUME NEW ps
  PROVE  /\ G0Alternate(ps).pinned = {SignalOf(p) : p \in ps}
         /\ G0Alternate(ps).clocks = {Port(p.pin) : p \in ps}
         /\ G0Alternate(ps).links = {}
         /\ G0Alternate(ps).irqs = {}
<1>1. \A p : /\ G0InitializeAlternate(p).pinned = {SignalOf(p)}
             /\ G0InitializeAlternate(p).clocks = {Port(p.pin)}
             /\ G0InitializeAlternate(p).links = {}
             /\ G0InitializeAlternate(p).irqs = {}
  BY SMT DEF G0InitializeAlternate, Both, G0EnablePortClk, Routed, NoSetup, SignalOf
<1> DEFINE each == {G0InitializeAlternate(p) : p \in ps}
<1>2. /\ G0Alternate(ps).pinned = UNION {s.pinned : s \in each}
      /\ G0Alternate(ps).clocks = UNION {s.clocks : s \in each}
      /\ G0Alternate(ps).links = UNION {s.links : s \in each}
      /\ G0Alternate(ps).irqs = UNION {s.irqs : s \in each}
  BY DEF G0Alternate, AllOf
<1>3. UNION {s.pinned : s \in each} = {SignalOf(p) : p \in ps}
  BY <1>1
<1>4. UNION {s.clocks : s \in each} = {Port(p.pin) : p \in ps}
  BY <1>1
<1>5. UNION {s.links : s \in each} = {} /\ UNION {s.irqs : s \in each} = {}
  BY <1>1
<1> QED BY <1>2, <1>3, <1>4, <1>5

(* The same pins, by other initialisations.                                *)
LEMMA G0OtherPins ==
  ASSUME NEW ps
  PROVE  /\ AllOf({G0Initialize(p) : p \in ps}) = G0Alternate(ps)
         /\ AllOf({G0InitializeInterrupt(p) : p \in ps}) = G0Alternate(ps)
BY DEF G0Alternate, G0InitializeAlternate, G0Initialize, G0InitializeInterrupt

(* Two set-ups together. *)
LEMMA BothFields ==
  ASSUME NEW a, NEW b
  PROVE  /\ Both(a, b).pinned = a.pinned \union b.pinned
         /\ Both(a, b).clocks = a.clocks \union b.clocks
         /\ Both(a, b).links = a.links \union b.links
         /\ Both(a, b).irqs = a.irqs \union b.irqs
BY DEF Both

(* The pins of a set-up that initialises a device's pins ps, and then more *)
(* that has no pins.                                                       *)
LEMMA PinsOfSetup ==
  ASSUME NEW d, NEW ps, NEW s,
         \A p \in ps : p \in board.pinout /\ p.dev = d,
         \A p \in board.pinout : p.dev = d => p \in ps,
         s.pinned = {SignalOf(p) : p \in ps},
         {Port(p.pin) : p \in ps} \subseteq s.clocks
  PROVE  OwnPins(s, d) /\ AllPins(s, d)
BY DEF OwnPins, AllPins, SignalOf

-----------------------------------------------------------------------------
(* What each driver of the STM32G0 sets up: its pins, and the channels of  *)
(* the requests that need one.                                             *)
G0SetsUp(s, d) ==
    /\ OwnPins(s, d)
    /\ d \notin board.refused => AllPins(s, d)
    /\ \A r \in Requests : r \in s.links <=> r[1] = d /\ G0Kept(r)

LEMMA G0PinsOfDevice ==
  ASSUME G0Compiles(board), NEW d \in InUse
  PROVE  /\ <<d, board.mode[d]>> \in G0Drivers
         /\ d \in G0Spis => board.spi[d] \in SpiTransmissions
         /\ \A p \in board.pinout : p.dev = d => p \in PinsOf(d, G0Signals(board, d))
BY DEF G0Compiles, InUse, PinsOf

LEMMA RequestPairs == \A r \in Requests : r = <<r[1], r[2]>> /\ r[1] \in Devices
BY RequestsAssumption

LEMMA G0UartSetsUp ==
  ASSUME family = "g0", board.refused \subseteq G0Tims, G0Compiles(board),
         NEW d \in InUse \cap G0Uarts
  PROVE  G0SetsUp(G0Setups[d], d)
<1> DEFINE ps == PinsOf(d, G0Signals(board, d))
           s == G0Setups[d]
<1>1. s = IF board.mode[d] = "dma" THEN G0UartSetupDma(d) ELSE G0UartSetup(d)
  BY DEF G0Setups, G0Uarts, G0Spis, G0I2s, G0Tims
<1>2. /\ G0SetupUart(d).pinned = {SignalOf(p) : p \in ps}
      /\ {Port(p.pin) : p \in ps} \subseteq G0SetupUart(d).clocks
      /\ G0SetupUart(d).links = {}
  <2>1. G0SetupUart(d) = Both(G0EnableUartClk(d), G0Alternate(ps))
    <3>1. CASE d \in board.rs485
      <4>1. G0Signals(board, d) = {"tx", "rx", "de"}
        BY <3>1 DEF G0Signals, G0Uarts, G0Spis, G0I2s, G0Tims
      <4> QED BY <3>1, <4>1 DEF G0SetupUart, G0UartPinoutRs485
    <3>2. CASE d \notin board.rs485
      <4>1. G0Signals(board, d) = {"tx", "rx"}
        BY <3>2 DEF G0Signals, G0Uarts, G0Spis, G0I2s, G0Tims
      <4> QED BY <3>2, <4>1 DEF G0SetupUart, G0UartPinout
    <3> QED BY <3>1, <3>2
  <2>2. G0EnableUartClk(d).pinned = {} /\ G0EnableUartClk(d).links = {}
    BY DEF G0EnableUartClk, NoSetup
  <2> QED BY <2>1, <2>2, BothFields, G0AlternateFields
<1>3. /\ G0InitializeUartForInterruptMode(d).pinned = {}
      /\ G0InitializeUartForInterruptMode(d).links = {}
      /\ NoSetup.pinned = {} /\ NoSetup.links = {}
      /\ \A r : G0SetupChannel(r).pinned = {} /\ G0SetupChannel(r).links = {r}
  BY DEF G0InitializeUartForInterruptMode, NoSetup, G0SetupChannel
<1>4. /\ s.pinned = {SignalOf(p) : p \in ps}
      /\ {Port(p.pin) : p \in ps} \subseteq s.clocks
      /\ s.links = IF board.mode[d] = "dma" THEN {<<d, "tx">>, <<d, "rx">>} ELSE {}
  <2>1. CASE board.mode[d] = "dma"
    BY <2>1, <1>1, <1>2, <1>3, BothFields DEF G0UartSetupDma
  <2>2. CASE board.mode[d] # "dma"
    BY <2>2, <1>1, <1>2, <1>3, BothFields DEF G0UartSetup
  <2> QED BY <2>1, <2>2
<1>5. OwnPins(s, d) /\ AllPins(s, d)
  <2>1. /\ \A p \in ps : p \in board.pinout /\ p.dev = d
        /\ \A p \in board.pinout : p.dev = d => p \in ps
    BY G0PinsOfDevice DEF PinsOf
  <2> QED BY <1>4, <2>1, PinsOfSetup
<1>6. ASSUME NEW r \in Requests PROVE r \in s.links <=> r[1] = d /\ G0Kept(r)
  <2>1. d \notin board.refused /\ board.mode[d] \in {"poll", "irq", "dma"}
    BY G0PinsOfDevice DEF G0Drivers, G0Uarts, G0Spis, G0I2s, G0Tims
  <2> QED BY <2>1, <1>4, RequestPairs
          DEF G0Kept, G0NeedsChannel, DmaModes, G0Uarts, G0Spis, G0I2s, G0Tims
<1> QED BY <1>5, <1>6 DEF G0SetsUp

LEMMA G0SpiSetsUp ==
  ASSUME family = "g0", board.refused \subseteq G0Tims, G0Compiles(board),
         board.pinout \subseteq [dev : Devices, signal : STRING, pin : Pins],
         NEW d \in InUse \cap G0Spis
  PROVE  G0SetsUp(G0Setups[d], d)
<1> DEFINE s == G0Setups[d]
           tt == board.spi[d]
           pins_(signals) == PinsOf(d, signals)
<1>1. s = IF board.mode[d] = "dma" THEN G0SpiSetupDma(d) ELSE G0SetupSpiMaster(d)
  BY DEF G0Setups, G0Uarts, G0Spis, G0I2s, G0Tims
<1>2. /\ board.mode[d] \in {"poll", "dma"} /\ tt \in SpiTransmissions
      /\ d \notin board.refused
      /\ \A p \in board.pinout :
           p.dev = d => /\ tt = "duplex" => p \in pins_({"mosi", "miso", "sck"})
                        /\ tt \in {"half", "tx"} => p \in pins_({"mosi", "sck"})
                        /\ tt = "rx" => p \in pins_({"miso", "sck"})
  BY G0PinsOfDevice
     DEF G0Drivers, G0Signals, SpiTransmissions, G0Uarts, G0Spis, G0I2s, G0Tims
<1>3. /\ s.pinned = G0SetupSpiMaster(d).pinned
      /\ G0SetupSpiMaster(d).clocks \subseteq s.clocks
      /\ s.links = G0SetupSpiMaster(d).links
                     \union (IF board.mode[d] = "dma" /\ tt # "rx" THEN {<<d, "tx">>} ELSE {})
                     \union (IF board.mode[d] = "dma" /\ tt # "tx" THEN {<<d, "rx">>} ELSE {})
  <2>1. /\ NoSetup.pinned = {} /\ NoSetup.links = {}
        /\ \A r : G0SetupChannel(r).pinned = {} /\ G0SetupChannel(r).links = {r}
    BY DEF NoSetup, G0SetupChannel
  <2>2. CASE board.mode[d] # "dma"
    BY <2>2, <1>1
  <2>3. CASE board.mode[d] = "dma"
    <3> DEFINE tx == IF tt # "rx" THEN G0SetupChannel(<<d, "tx">>) ELSE NoSetup
               rx == IF tt # "tx" THEN G0SetupChannel(<<d, "rx">>) ELSE NoSetup
    <3>1. s = Both(G0SetupSpiMaster(d), Both(tx, rx))
      BY <2>3, <1>1 DEF G0SpiSetupDma
    <3>2. /\ tx.pinned = {} /\ rx.pinned = {}
          /\ tx.links = IF tt # "rx" THEN {<<d, "tx">>} ELSE {}
          /\ rx.links = IF tt # "tx" THEN {<<d, "rx">>} ELSE {}
      BY <2>1
    <3>3. /\ s.pinned = G0SetupSpiMaster(d).pinned \union (tx.pinned \union rx.pinned)
          /\ s.clocks = G0SetupSpiMaster(d).clocks \union (tx.clocks \union rx.clocks)
          /\ s.links = G0SetupSpiMaster(d).links \union (tx.links \union rx.links)
      BY <3>1, BothFields
    <3> HIDE DEF s, tx, rx
    <3> QED BY <2>3, <3>2, <3>3
  <2> QED BY <2>2, <2>3
<1>4. G0EnableSpiClk(d).pinned = {} /\ G0EnableSpiClk(d).links = {}
  BY DEF G0EnableSpiClk, NoSetup
<1>5. G0SetupSpiMaster(d).links = {} /\ OwnPins(s, d) /\ AllPins(s, d)
  <2>1. CASE tt # "rx"
    <3> DEFINE ps == IF tt = "duplex" THEN pins_({"mosi", "miso", "sck"})
                     ELSE pins_({"mosi", "sck"})
    <3>1. G0SetupSpiMaster(d) = Both(G0EnableSpiClk(d), G0Alternate(ps))
      BY <2>1 DEF G0SetupSpiMaster, G0SpiDuplexPins, G0SpiTxPins
    <3>2. /\ \A p \in ps : p \in board.pinout /\ p.dev = d
          /\ \A p \in board.pinout : p.dev = d => p \in ps
      BY <1>2, <2>1 DEF PinsOf, SpiTransmissions
    <3>3. /\ G0SetupSpiMaster(d).links = {}
          /\ s.pinned = {SignalOf(p) : p \in ps}
          /\ {Port(p.pin) : p \in ps} \subseteq s.clocks
      BY <3>1, <1>3, <1>4, BothFields, G0AlternateFields
    <3> QED BY <3>2, <3>3, PinsOfSetup
  <2>2. CASE tt = "rx"
    <3> DEFINE miso == pins_({"miso"})
               sck == {[p EXCEPT !.signal = "miso"] : p \in pins_({"sck"})}
    <3>1. /\ G0SetupSpiMaster(d).links = {}
          /\ s.pinned = {SignalOf(p) : p \in miso} \union {SignalOf(p) : p \in sck}
          /\ {Port(p.pin) : p \in miso} \subseteq s.clocks
      <4>1. G0SetupSpiMaster(d)
              = Both(G0EnableSpiClk(d), Both(G0Alternate(miso), G0Alternate(sck)))
        BY <2>2 DEF G0SetupSpiMaster, G0SpiRxPins
      <4>2. /\ G0Alternate(miso).pinned = {SignalOf(p) : p \in miso}
            /\ G0Alternate(miso).clocks = {Port(p.pin) : p \in miso}
            /\ G0Alternate(miso).links = {}
        BY G0AlternateFields
      <4>3. /\ G0Alternate(sck).pinned = {SignalOf(p) : p \in sck}
            /\ G0Alternate(sck).links = {}
        BY G0AlternateFields
      <4> HIDE DEF miso, sck, s
      <4> QED BY <4>1, <4>2, <4>3, <1>3, <1>4, BothFields
    <3>2. \A p \in board.pinout : p.dev = d /\ p.signal = "sck" => Neglected(p)
      BY <2>2 DEF Neglected
    <3>3. ASSUME NEW q \in sck
          PROVE  \E p \in board.pinout : p.dev = d /\ Neglected(p) /\ q.pin = p.pin
      <4>1. PICK p \in pins_({"sck"}) : q = [p EXCEPT !.signal = "miso"]
        OBVIOUS
      <4>2. p \in [dev : Devices, signal : STRING, pin : Pins] /\ p.dev = d /\ p.signal = "sck"
        BY DEF PinsOf
      <4> QED BY <4>1, <4>2, <3>2 DEF PinsOf
    <3>4. OwnPins(s, d)
      <4> SUFFICES ASSUME NEW x \in s.pinned
                   PROVE  \E p \in board.pinout : /\ p.dev = d /\ x[1] = p.pin
                                                 /\ (Neglected(p) \/ x = SignalOf(p))
        BY DEF OwnPins
      <4>1. CASE \E p \in miso : x = SignalOf(p)
        BY <4>1 DEF PinsOf, SignalOf
      <4>2. CASE \E q \in sck : x = SignalOf(q)
        BY <4>2, <3>3 DEF SignalOf
      <4> QED BY <3>1, <4>1, <4>2
    <3>5. AllPins(s, d)
      <4>1. \A p \in board.pinout : p.dev = d /\ ~Neglected(p) => p \in miso
        BY <1>2, <2>2, <3>2 DEF PinsOf
      <4> QED BY <4>1, <3>1 DEF AllPins
    <3> QED BY <3>1, <3>4, <3>5
  <2> QED BY <2>1, <2>2
<1>6. ASSUME NEW r \in Requests PROVE r \in s.links <=> r[1] = d /\ G0Kept(r)
  <2>1. r \in s.links <=> /\ board.mode[d] = "dma"
                          /\ \/ r = <<d, "tx">> /\ tt # "rx"
                             \/ r = <<d, "rx">> /\ tt # "tx"
    BY <1>3, <1>5
  <2>2. r[1] = d => (G0Kept(r) <=> /\ board.mode[d] = "dma"
                                   /\ r[2] \in {"tx", "rx"}
                                   /\ tt \in {"duplex", "half", r[2]})
    BY <1>2 DEF G0Kept, G0NeedsChannel, DmaModes, G0Uarts, G0Spis, G0I2s, G0Tims
  <2> QED BY <2>1, <2>2, <1>2, RequestPairs DEF SpiTransmissions
<1> QED BY <1>5, <1>6 DEF G0SetsUp

LEMMA G0I2sSetsUp ==
  ASSUME family = "g0", board.refused \subseteq G0Tims, G0Compiles(board),
         NEW d \in InUse \cap G0I2s
  PROVE  G0SetsUp(G0Setups[d], d)
<1> DEFINE ps == PinsOf(d, {"ck", "sd", "ws"})
           s == G0Setups[d]
<1>1. s = IF board.mode[d] = "poll" THEN G0SetupI2s(d) ELSE G0I2sSetupDma(d)
  BY DEF G0Setups, G0Uarts, G0Spis, G0I2s, G0Tims
<1>2. /\ board.mode[d] \in {"poll", "dma", "circular"} /\ d \notin board.refused
      /\ \A p \in ps : p \in board.pinout /\ p.dev = d
      /\ \A p \in board.pinout : p.dev = d => p \in ps
  BY G0PinsOfDevice DEF G0Drivers, G0Signals, PinsOf, G0Uarts, G0Spis, G0I2s, G0Tims
<1> DEFINE clk == [NoSetup EXCEPT !.clocks = {d}]
<1>3. /\ clk.pinned = {} /\ clk.links = {}
      /\ \A r : G0SetupChannel(r).pinned = {} /\ G0SetupChannel(r).links = {r}
  BY DEF NoSetup, G0SetupChannel
<1>4. /\ G0SetupI2s(d).pinned = {SignalOf(p) : p \in ps}
      /\ {Port(p.pin) : p \in ps} \subseteq G0SetupI2s(d).clocks
      /\ G0SetupI2s(d).links = {}
  <2>1. G0SetupI2s(d) = Both(clk, G0Alternate(ps))
    BY DEF G0SetupI2s, G0I2sPinout
  <2> HIDE DEF clk, ps
  <2> QED BY <2>1, <1>3, BothFields, G0AlternateFields
<1>5. /\ s.pinned = {SignalOf(p) : p \in ps}
      /\ {Port(p.pin) : p \in ps} \subseteq s.clocks
      /\ s.links = IF board.mode[d] = "poll" THEN {} ELSE {<<d, "tx">>}
  <2>1. CASE board.mode[d] = "poll"
    BY <2>1, <1>1, <1>4
  <2>2. CASE board.mode[d] # "poll"
    <3> DEFINE more == G0SetupChannel(<<d, "tx">>)
    <3>1. s = Both(G0SetupI2s(d), more)
      BY <2>2, <1>1 DEF G0I2sSetupDma
    <3>2. more.pinned = {} /\ more.links = {<<d, "tx">>}
      BY <1>3
    <3> HIDE DEF s, ps, more
    <3>3. /\ s.pinned = G0SetupI2s(d).pinned \union more.pinned
          /\ s.clocks = G0SetupI2s(d).clocks \union more.clocks
          /\ s.links = G0SetupI2s(d).links \union more.links
      BY <3>1, BothFields
    <3> QED BY <2>2, <1>4, <3>2, <3>3
  <2> QED BY <2>1, <2>2
<1>6. OwnPins(s, d) /\ AllPins(s, d)
  BY <1>2, <1>5, PinsOfSetup
<1>7. ASSUME NEW r \in Requests PROVE r \in s.links <=> r[1] = d /\ G0Kept(r)
  BY <1>2, <1>5, RequestPairs DEF G0Kept, G0NeedsChannel, DmaModes, G0Uarts, G0Spis, G0I2s, G0Tims
<1> QED BY <1>6, <1>7 DEF G0SetsUp

LEMMA G0TimSetsUp ==
  ASSUME family = "g0", G0Compiles(board), NEW d \in InUse \cap G0Tims
  PROVE  G0SetsUp(G0Setups[d], d)
<1> DEFINE s == G0Setups[d]
           mode == board.mode[d]
           ps == PinsOf(d, IF mode = "multi" THEN {"ch1", "ch2"} ELSE {"ch1"})
<1>1. s = G0TimSetup(d)
  BY DEF G0Setups, G0Uarts, G0Spis, G0I2s, G0Tims
<1>2. /\ mode \in {"pwm", "dma", "multi"}
      /\ \A p \in ps : p \in board.pinout /\ p.dev = d
      /\ \A p \in board.pinout : p.dev = d => p \in ps
  <2>1. mode \in {"pwm", "dma", "multi"}
    BY G0PinsOfDevice DEF G0Drivers, G0Uarts, G0Spis, G0I2s, G0Tims
  <2>2. G0Signals(board, d) = IF mode = "multi" THEN {"ch1", "ch2"} ELSE {"ch1"}
    BY DEF G0Signals, G0Uarts, G0Spis, G0I2s, G0Tims
  <2> QED BY <2>1, <2>2, G0PinsOfDevice DEF PinsOf
<1>3. /\ G0EnableTimClock(d).pinned = {} /\ G0EnableTimClock(d).links = {}
      /\ G0EnableTimInterrupt(d).pinned = {} /\ G0EnableTimInterrupt(d).links = {}
      /\ \A r : G0SetupChannel(r).pinned = {} /\ G0SetupChannel(r).links = {r}
  BY DEF NoSetup, G0SetupChannel, G0EnableTimClock, G0EnableTimInterrupt
<1>4. CASE d \in board.refused
  <2>1. s.pinned = {} /\ s.links = {}
    BY <1>1, <1>3, <1>4 DEF G0TimSetup
  <2> QED BY <2>1, <1>4 DEF G0SetsUp, OwnPins, G0Kept
<1>5. CASE d \notin board.refused
  <2> DEFINE channel == CASE mode = "dma" -> G0ConfigureChannelDma(d)
                          [] mode = "multi" -> G0ConfigureMultiple(d)
                          [] OTHER -> G0ConfigureChannel(d)
  <2>1. /\ channel.pinned = {SignalOf(p) : p \in ps}
        /\ {Port(p.pin) : p \in ps} \subseteq channel.clocks
        /\ channel.links = IF mode = "pwm" THEN {} ELSE {<<d, "burst">>}
    <3>1. CASE mode = "pwm"
      <4>1. channel = G0Alternate(ps)
        BY <3>1 DEF G0ConfigureChannel
      <4> HIDE DEF channel, ps
      <4> QED BY <3>1, <4>1, G0AlternateFields
    <3>2. CASE mode # "pwm"
      <4> DEFINE more == Both(G0SetupChannel(<<d, "burst">>), G0EnableTimInterrupt(d))
      <4>1. channel = Both(G0Alternate(ps), more)
        BY <3>2, <1>2 DEF G0ConfigureChannelDma, G0ConfigureMultiple, G0ConfigureChannel, G0ConfigureChannels
      <4>2. more.pinned = {} /\ more.links = {<<d, "burst">>}
        BY <1>3, BothFields
      <4> HIDE DEF channel, ps, more
      <4>3. /\ channel.pinned = G0Alternate(ps).pinned \union more.pinned
            /\ channel.clocks = G0Alternate(ps).clocks \union more.clocks
            /\ channel.links = G0Alternate(ps).links \union more.links
        BY <4>1, BothFields
      <4> QED BY <3>2, <4>2, <4>3, G0AlternateFields
    <3> QED BY <3>1, <3>2
  <2>2. s = Both(G0EnableTimClock(d), channel)
    BY <1>1, <1>5 DEF G0TimSetup
  <2> HIDE DEF channel, s, ps, mode
  <2>3. /\ s.pinned = {SignalOf(p) : p \in ps}
        /\ {Port(p.pin) : p \in ps} \subseteq s.clocks
        /\ s.links = IF mode = "pwm" THEN {} ELSE {<<d, "burst">>}
    <3>1. /\ s.pinned = G0EnableTimClock(d).pinned \union channel.pinned
          /\ s.clocks = G0EnableTimClock(d).clocks \union channel.clocks
          /\ s.links = G0EnableTimClock(d).links \union channel.links
      BY <2>2, BothFields
    <3> QED BY <3>1, <1>3, <2>1
  <2>4. OwnPins(s, d) /\ AllPins(s, d)
    BY <1>2, <2>3, PinsOfSetup
  <2>5. ASSUME NEW r \in Requests PROVE r \in s.links <=> r[1] = d /\ G0Kept(r)
    BY <1>2, <1>5, <2>3, RequestPairs
       DEF mode, G0Kept, G0NeedsChannel, DmaModes, G0Uarts, G0Spis, G0I2s, G0Tims
  <2>6. G0SetsUp(s, d)
    BY <2>4, <2>5 DEF G0SetsUp
  <2> QED BY <2>6 DEF s
<1> QED BY <1>4, <1>5

(* The DMA controller, pin interrupts and single pins. *)
LEMMA G0OthersSetUp ==
  ASSUME family = "g0", board.refused \subseteq G0Tims, G0Compiles(board),
         NEW d \in InUse \cap {"dma", "exti", "gpi", "gpo"}
  PROVE  G0SetsUp(G0Setups[d], d)
<1> DEFINE s == G0Setups[d]
<1>1. s = CASE d = "dma" -> G0DmaSetup [] d = "exti" -> G0ExtiSetup
            [] d \in {"gpi", "gpo"} -> G0Alternate(PinsOf(d, {"in", "out"}))
  BY G0OtherPins DEF G0Setups, G0Uarts, G0Spis, G0I2s, G0Tims
<1>2. /\ d = "dma" => \A p \in board.pinout : p.dev # d
      /\ d = "exti" => \A p \in board.pinout : p.dev = d => p \in PinsOf("exti", {"in"})
      /\ \A p \in board.pinout : p.dev = d /\ d # "exti" => p \in PinsOf(d, {"in", "out"})
  BY G0PinsOfDevice DEF G0Signals, PinsOf, G0Uarts, G0Spis, G0I2s, G0Tims
<1>3. ASSUME NEW ps, \A p \in ps : p \in board.pinout /\ p.dev = d,
             \A p \in board.pinout : p.dev = d => p \in ps,
             s.pinned = {SignalOf(p) : p \in ps}, {Port(p.pin) : p \in ps} \subseteq s.clocks,
             s.links = {}
      PROVE  G0SetsUp(s, d)
  <2>1. \A r \in Requests : r[1] = d => ~G0Kept(r)
    BY DEF G0Kept, G0NeedsChannel, G0Uarts, G0Spis, G0I2s, G0Tims
  <2> QED BY <1>3, <2>1, PinsOfSetup DEF G0SetsUp
<1>4. CASE d = "dma"
  <2>1. s.pinned = {} /\ s.links = {}
    BY <1>1, <1>4 DEF G0DmaSetup, NoSetup
  <2>2. s.pinned = {SignalOf(p) : p \in {}} /\ {Port(p.pin) : p \in {}} \subseteq s.clocks
    BY <2>1
  <2> QED BY <1>2, <1>3, <1>4, <2>1, <2>2
<1>5. CASE d = "exti"
  <2> DEFINE ps == PinsOf("exti", {"in"})
             more == [NoSetup EXCEPT !.clocks = {"exti"},
                                     !.irqs = {G0ExtiIrqn(p.pin[2]) : p \in ps}]
  <2>1. s = Both(G0Alternate(ps), more)
    BY <1>1, <1>5, G0OtherPins DEF G0ExtiSetup
  <2>2. more.pinned = {} /\ more.links = {}
    BY DEF NoSetup
  <2>3. (\A p \in ps : p \in board.pinout /\ p.dev = d) /\ \A p \in board.pinout : p.dev = d => p \in ps
    BY <1>2, <1>5 DEF PinsOf
  <2> HIDE DEF s, ps, more
  <2>4. /\ s.pinned = {SignalOf(p) : p \in ps}
        /\ {Port(p.pin) : p \in ps} \subseteq s.clocks /\ s.links = {}
    BY <2>1, <2>2, BothFields, G0AlternateFields
  <2>5. G0SetsUp(s, d)
    BY <1>3, <2>3, <2>4
  <2> QED BY <2>5 DEF s
<1>6. CASE d \in {"gpi", "gpo"}
  <2> DEFINE ps == PinsOf(d, {"in", "out"})
  <2>1. s = G0Alternate(ps)
    BY <1>1, <1>6
  <2>2. (\A p \in ps : p \in board.pinout /\ p.dev = d) /\ \A p \in board.pinout : p.dev = d => p \in ps
    BY <1>2, <1>6 DEF PinsOf
  <2> HIDE DEF s, ps
  <2>3. /\ s.pinned = {SignalOf(p) : p \in ps}
        /\ {Port(p.pin) : p \in ps} \subseteq s.clocks /\ s.links = {}
    BY <2>1, G0AlternateFields
  <2>4. G0SetsUp(s, d)
    BY <1>3, <2>2, <2>3
  <2> QED BY <2>4 DEF s
<1> QED BY <1>4, <1>5, <1>6

LEMMA G0AllSetUp ==
  ASSUME family = "g0", board.refused \subseteq G0Tims, G0Compiles(board),
         board.pinout \subseteq [dev : Devices, signal : STRING, pin : Pins],
         NEW d \in InUse
  PROVE  G0SetsUp(G0Setups[d], d)
<1>1. d \in G0Uarts \union G0Spis \union G0I2s \union G0Tims \union {"dma", "exti", "gpi", "gpo"}
  BY G0PinsOfDevice DEF G0Drivers
<1> QED BY <1>1, G0UartSetsUp, G0SpiSetsUp, G0I2sSetsUp, G0TimSetsUp, G0OthersSetUp

-----------------------------------------------------------------------------
(* What each driver of the STM32G0 is wired with; none but that of the pin *)
(* interrupts turns their clock on.                                        *)
G0Wires(s, d) ==
    /\ G0Wired(d, s.clocks, s.irqs)
    /\ "exti" \in Devices \ {d} => "exti" \notin s.clocks

LEMMA G0PinClocks ==
  ASSUME NEW ps, \A p \in ps : p.pin \in Pins
  PROVE  G0Alternate(ps).clocks \cap Devices = {}
BY G0AlternateFields, PortsAssumption

LEMMA G0PinsOnBoard ==
  ASSUME board.pinout \subseteq [dev : Devices, signal : STRING, pin : Pins], NEW d, NEW signals
  PROVE  \A p \in PinsOf(d, signals) : p.pin \in Pins
BY DEF PinsOf

LEMMA G0UartWires ==
  ASSUME G0Compiles(board), NEW d \in InUse \cap G0Uarts,
         board.pinout \subseteq [dev : Devices, signal : STRING, pin : Pins]
  PROVE  G0Wires(G0Setups[d], d)
<1> DEFINE s == G0Setups[d]
           ps == IF d \in board.rs485 THEN PinsOf(d, {"tx", "rx", "de"})
                 ELSE PinsOf(d, {"tx", "rx"})
           irq == G0InitializeUartForInterruptMode(d)
           links == Both(G0SetupChannel(<<d, "tx">>), G0SetupChannel(<<d, "rx">>))
<1>1. /\ s = IF board.mode[d] = "dma" THEN G0UartSetupDma(d) ELSE G0UartSetup(d)
      /\ board.mode[d] \in {"poll", "irq", "dma"} /\ d # "exti"
  BY G0PinsOfDevice DEF G0Setups, G0Drivers, G0Uarts, G0Spis, G0I2s, G0Tims
<1>2. G0SetupUart(d) = Both(G0EnableUartClk(d), G0Alternate(ps))
  BY DEF G0SetupUart, G0UartPinoutRs485, G0UartPinout
<1>3. /\ G0EnableUartClk(d).clocks = {d}
      /\ irq.clocks = {} /\ irq.irqs = {G0UartIrqn(d)}
      /\ NoSetup.clocks = {} /\ NoSetup.irqs = {}
      /\ \A r : G0SetupChannel(r).clocks = {}
  BY DEF G0EnableUartClk, G0InitializeUartForInterruptMode, NoSetup, G0SetupChannel
<1>4. G0Alternate(ps).clocks \cap Devices = {}
  BY G0PinClocks, G0PinsOnBoard
<1> HIDE DEF s, ps, irq
<1>5. G0SetupUart(d).clocks = {d} \union G0Alternate(ps).clocks
  BY <1>2, <1>3, BothFields
<1>6. /\ s.clocks = {d} \union G0Alternate(ps).clocks
      /\ board.mode[d] \in {"irq", "dma"} => G0UartIrqn(d) \in s.irqs
  <2>1. CASE board.mode[d] = "dma"
    <3>1. s = Both(Both(G0SetupUart(d), irq), links)
      BY <2>1, <1>1 DEF G0UartSetupDma, irq
    <3>2. links.clocks = {}
      BY <1>3, BothFields
    <3> HIDE DEF links
    <3> QED BY <1>3, <1>5, <3>1, <3>2, BothFields
  <2>2. CASE board.mode[d] # "dma"
    <3>1. s = Both(G0SetupUart(d), IF board.mode[d] = "irq" THEN irq ELSE NoSetup)
      BY <2>2, <1>1 DEF G0UartSetup, irq
    <3> QED BY <2>2, <1>3, <1>5, <3>1, BothFields
  <2> QED BY <2>1, <2>2
<1>7. G0Wires(s, d)
  BY <1>1, <1>4, <1>6 DEF G0Wires, G0Wired, G0Uarts
<1> QED BY <1>7 DEF s

LEMMA G0SpiWires ==
  ASSUME G0Compiles(board), NEW d \in InUse \cap G0Spis,
         board.pinout \subseteq [dev : Devices, signal : STRING, pin : Pins]
  PROVE  G0Wires(G0Setups[d], d)
<1> DEFINE s == G0Setups[d]
           pins_ == CASE board.spi[d] = "duplex" -> G0SpiDuplexPins(d)
                      [] board.spi[d] = "rx" -> G0SpiRxPins(d)
                      [] OTHER -> G0SpiTxPins(d)
           links == Both(IF board.spi[d] # "rx" THEN G0SetupChannel(<<d, "tx">>) ELSE NoSetup,
                         IF board.spi[d] # "tx" THEN G0SetupChannel(<<d, "rx">>) ELSE NoSetup)
<1>1. /\ s = IF board.mode[d] = "dma" THEN Both(G0SetupSpiMaster(d), links)
             ELSE G0SetupSpiMaster(d)
      /\ G0SetupSpiMaster(d) = Both(G0EnableSpiClk(d), pins_)
  BY DEF G0Setups, G0SetupSpiMaster, G0SpiSetupDma, G0Uarts, G0Spis, G0I2s, G0Tims
<1>2. pins_.clocks \cap Devices = {}
  <2> DEFINE sck == {[p EXCEPT !.signal = "miso"] : p \in PinsOf(d, {"sck"})}
  <2>1. \A p \in sck : p.pin \in Pins
    <3> SUFFICES ASSUME NEW p \in PinsOf(d, {"sck"})
                 PROVE  [p EXCEPT !.signal = "miso"].pin \in Pins
      OBVIOUS
    <3>1. p \in [dev : Devices, signal : STRING, pin : Pins]
      BY DEF PinsOf
    <3> QED BY <3>1
  <2>2. G0Alternate(sck).clocks \cap Devices = {}
    BY <2>1, G0PinClocks
  <2>3. \A signals : G0Alternate(PinsOf(d, signals)).clocks \cap Devices = {}
    BY G0PinClocks, G0PinsOnBoard
  <2>4. G0SpiRxPins(d).clocks \cap Devices = {}
    <3>1. G0SpiRxPins(d) = Both(G0Alternate(PinsOf(d, {"miso"})), G0Alternate(sck))
      BY DEF G0SpiRxPins
    <3> HIDE DEF sck
    <3> QED BY <2>2, <2>3, <3>1, BothFields
  <2> HIDE DEF sck
  <2> QED BY <2>3, <2>4 DEF G0SpiDuplexPins, G0SpiTxPins
<1>3. G0EnableSpiClk(d).clocks = {d} /\ links.clocks = {}
  <2>1. /\ G0EnableSpiClk(d).clocks = {d} /\ NoSetup.clocks = {}
        /\ \A r : G0SetupChannel(r).clocks = {}
    BY DEF G0EnableSpiClk, NoSetup, G0SetupChannel
  <2> QED BY <2>1, BothFields
<1> HIDE DEF s, pins_, links
<1>4. s.clocks = {d} \union pins_.clocks
  BY <1>1, <1>3, BothFields
<1>5. G0Wires(s, d)
  BY <1>2, <1>4 DEF G0Wires, G0Wired, G0Spis, G0Uarts
<1> QED BY <1>5 DEF s

LEMMA G0I2sWires ==
  ASSUME G0Compiles(board), NEW d \in InUse \cap G0I2s,
         board.pinout \subseteq [dev : Devices, signal : STRING, pin : Pins]
  PROVE  G0Wires(G0Setups[d], d)
<1> DEFINE s == G0Setups[d]
           pins_ == G0I2sPinout(d)
           clk == [NoSetup EXCEPT !.clocks = {d}]
           more == G0SetupChannel(<<d, "tx">>)
<1>1. s = IF board.mode[d] = "poll" THEN Both(clk, pins_) ELSE Both(Both(clk, pins_), more)
  BY DEF G0Setups, G0SetupI2s, G0I2sSetupDma, G0Uarts, G0Spis, G0I2s, G0Tims
<1>2. pins_.clocks \cap Devices = {}
  BY G0PinClocks, G0PinsOnBoard DEF G0I2sPinout
<1>3. clk.clocks = {d} /\ more.clocks = {}
  BY DEF NoSetup, G0SetupChannel
<1> HIDE DEF s, pins_, clk, more
<1>4. s.clocks = {d} \union pins_.clocks
  BY <1>1, <1>3, BothFields
<1>5. G0Wires(s, d)
  BY <1>2, <1>4 DEF G0Wires, G0Wired, G0I2s, G0Uarts
<1> QED BY <1>5 DEF s

LEMMA G0TimWires ==
  ASSUME G0Compiles(board), NEW d \in InUse \cap G0Tims,
         board.pinout \subseteq [dev : Devices, signal : STRING, pin : Pins]
  PROVE  G0Wires(G0Setups[d], d)
<1> DEFINE s == G0Setups[d]
           mode == board.mode[d]
           more == Both(G0SetupChannel(<<d, "burst">>), G0EnableTimInterrupt(d))
           one == G0ConfigureChannel(d)
           several == G0ConfigureChannels(d)
<1>1. /\ s = G0EnableTimClock(d) \/ s = Both(G0EnableTimClock(d), one)
              \/ s = Both(G0EnableTimClock(d), Both(one, more))
              \/ s = Both(G0EnableTimClock(d), Both(several, more))
  BY DEF G0Setups, G0TimSetup, G0ConfigureChannelDma, G0ConfigureMultiple,
         G0Uarts, G0Spis, G0I2s, G0Tims
<1>2. one.clocks \cap Devices = {} /\ several.clocks \cap Devices = {}
  BY G0PinClocks, G0PinsOnBoard DEF G0ConfigureChannel, G0ConfigureChannels
<1>3. G0EnableTimClock(d).clocks = {d} /\ more.clocks = {}
  <2>1. /\ G0EnableTimClock(d).clocks = {d} /\ G0SetupChannel(<<d, "burst">>).clocks = {}
        /\ G0EnableTimInterrupt(d).clocks = {}
    BY DEF G0EnableTimClock, NoSetup, G0SetupChannel, G0EnableTimInterrupt
  <2> QED BY <2>1, BothFields
<1> HIDE DEF s, one, several, more
<1>4. d \in s.clocks /\ s.clocks \cap Devices \subseteq {d}
  BY <1>1, <1>2, <1>3, BothFields
<1>5. G0Wires(s, d)
  BY <1>4 DEF G0Wires, G0Wired, G0Tims, G0Uarts
<1> QED BY <1>5 DEF s

LEMMA G0OthersWire ==
  ASSUME G0Compiles(board), board.dma \in Seq(Requests),
         board.pinout \subseteq [dev : Devices, signal : STRING, pin : Pins],
         NEW d \in InUse \cap {"dma", "exti", "gpi", "gpo"}
  PROVE  G0Wires(G0Setups[d], d)
<1> DEFINE s == G0Setups[d]
<1>1. CASE d = "dma"
  <2>1. s = G0DmaSetup
    BY <1>1 DEF G0Setups, G0Uarts, G0Spis, G0I2s, G0Tims
  <2> DEFINE n == Len(board.dma)
  <2>2. /\ s.clocks \subseteq {"dma1", "dma2"}
        /\ s.irqs = (IF n > 0 THEN {G0DmaLine(1)} ELSE {})
                      \union (IF n > 1 THEN {G0DmaLine(2)} ELSE {})
                      \union (IF n > 3 THEN {G0DmaLine(4)} ELSE {})
    BY <2>1 DEF G0DmaSetup, NoSetup
  <2>3. n \in Nat /\ DOMAIN board.dma = 1..n
    OBVIOUS
  <2> HIDE DEF s, n
  <2>4. ASSUME NEW i \in DOMAIN board.dma PROVE G0DmaLine(i) \in s.irqs
    <3>1. CASE i = 1
      BY <2>2, <2>3, <3>1
    <3>2. CASE i \in {2, 3}
      <4>1. G0DmaLine(i) = G0DmaLine(2) /\ n > 1
        BY <2>3, <3>2 DEF G0DmaLine
      <4> QED BY <2>2, <4>1
    <3>3. CASE i > 3
      <4>1. G0DmaLine(i) = G0DmaLine(4) /\ n > 3
        BY <2>3, <3>3 DEF G0DmaLine
      <4> QED BY <2>2, <4>1
    <3> QED BY <2>3, <3>1, <3>2, <3>3
  <2>5. G0Wires(s, d)
    BY <1>1, <2>2, <2>4 DEF G0Wires, G0Wired, G0Uarts, G0Spis, G0I2s, G0Tims
  <2> QED BY <2>5 DEF s
<1>2. CASE d = "exti"
  <2> DEFINE ps == PinsOf("exti", {"in"})
             more == [NoSetup EXCEPT !.clocks = {"exti"},
                                     !.irqs = {G0ExtiIrqn(p.pin[2]) : p \in ps}]
  <2>1. s = Both(G0Alternate(ps), more)
    BY <1>2, G0OtherPins DEF G0Setups, G0ExtiSetup, G0Uarts, G0Spis, G0I2s, G0Tims
  <2>2. more.clocks = {"exti"} /\ more.irqs = {G0ExtiIrqn(p.pin[2]) : p \in ps}
    BY DEF NoSetup
  <2> HIDE DEF s, more
  <2>3. "exti" \in s.clocks /\ \A p \in ps : G0ExtiIrqn(p.pin[2]) \in s.irqs
    BY <2>1, <2>2, BothFields
  <2>4. G0Wires(s, d)
    BY <1>2, <2>3 DEF G0Wires, G0Wired, G0Uarts
  <2> QED BY <2>4 DEF s
<1>3. CASE d \in {"gpi", "gpo"}
  <2> DEFINE ps == PinsOf(d, {"in", "out"})
  <2>1. s = G0Alternate(ps)
    BY <1>3, G0OtherPins DEF G0Setups, G0Uarts, G0Spis, G0I2s, G0Tims
  <2>2. s.clocks \cap Devices = {}
    BY <2>1, G0PinClocks, G0PinsOnBoard
  <2> HIDE DEF s
  <2>3. G0Wires(s, d)
    BY <1>3, <2>2 DEF G0Wires, G0Wired, G0Uarts, G0Spis, G0I2s, G0Tims
  <2> QED BY <2>3 DEF s
<1> QED BY <1>1, <1>2, <1>3

LEMMA G0AllWire ==
  ASSUME G0Compiles(board), board.dma \in Seq(Requests),
         board.pinout \subseteq [dev : Devices, signal : STRING, pin : Pins],
         NEW d \in InUse
  PROVE  G0Wires(G0Setups[d], d)
<1>1. d \in G0Uarts \union G0Spis \union G0I2s \union G0Tims \union {"dma", "exti", "gpi", "gpo"}
  BY G0PinsOfDevice DEF G0Drivers
<1> QED BY <1>1, G0UartWires, G0SpiWires, G0I2sWires, G0TimWires, G0OthersWire

-----------------------------------------------------------------------------
(* What each driver of the STM32H7 sets up: its pins, and no line of a     *)
(* UART or an SPI but its own, on its own core.                            *)
H7SetsUp(s, d) ==
    /\ OwnPins(s, d) /\ AllPins(s, d)
    /\ \A c \in Cores :
         /\ \A e \in H7Uarts : <<c, H7UartIrqn(e)>> \in s.irqs => e = d /\ c = Core(d)
         /\ \A e \in H7Spis : <<c, H7SpiIrqn(e)>> \in s.irqs => e = d /\ c = Core(d)

(* The place of a channel in its part of the list.                         *)
LEMMA H7PlaceBounds ==
  ASSUME NEW n \in Nat, NEW channels \in SUBSET (1..n), NEW i \in channels
  PROVE  H7Place(channels, i) \in 1..Cardinality(channels)
<1> DEFINE upTo == {j \in channels : j <= i}
<1>1. IsFiniteSet(channels)
  <2>1. IsFiniteSet(1..n)
    BY FS_Interval
  <2> QED BY <2>1, FS_Subset
<1>2. /\ IsFiniteSet(upTo)
      /\ Cardinality(upTo) <= Cardinality(channels)
      /\ Cardinality(upTo) \in Nat /\ Cardinality(channels) \in Nat
  BY <1>1, FS_Subset, FS_CardinalityType
<1>3. Cardinality(upTo) # 0
  <2>1. i \in upTo
    OBVIOUS
  <2> QED BY <2>1, <1>2, FS_EmptySet
<1> QED BY <1>2, <1>3 DEF H7Place

(* The lines of the channels are none of a UART's or an SPI's. *)
H7ChannelIrqns == {H7DmaIrqns[k] : k \in 1..16} \union {H7BdmaIrqns[k] : k \in 1..8}
LEMMA H7ChannelLines ==
  ASSUME board \in H7Boards
  PROVE  /\ \A i \in H7DmaChannels : H7DmaIrqn(i) \in H7ChannelIrqns
         /\ \A i \in H7BdmaChannels : H7BdmaIrqn(i) \in H7ChannelIrqns
<1>1. /\ board.dma \in Seq(Requests)
      /\ Cardinality(H7DmaChannels) <= 16 /\ Cardinality(H7BdmaChannels) <= 8
  BY BoardsAssumption, H7BoardsAssumption DEF H7DmaChannels, H7BdmaChannels
<1>2. PICK n \in Nat : DOMAIN board.dma = 1..n
  BY <1>1
<1>3. H7DmaChannels \in SUBSET (1..n) /\ H7BdmaChannels \in SUBSET (1..n)
  BY <1>2 DEF H7DmaChannels, H7BdmaChannels
<1>4. IsFiniteSet(H7DmaChannels) /\ IsFiniteSet(H7BdmaChannels)
  <2>1. IsFiniteSet(1..n)
    BY FS_Interval
  <2> QED BY <1>3, <2>1, FS_Subset
<1>5. Cardinality(H7DmaChannels) \in Nat /\ Cardinality(H7BdmaChannels) \in Nat
  BY <1>4, FS_CardinalityType
<1>6. ASSUME NEW i \in H7DmaChannels PROVE H7DmaIrqn(i) \in H7ChannelIrqns
  <2>1. H7Place(H7DmaChannels, i) \in 1..Cardinality(H7DmaChannels)
    BY <1>3, H7PlaceBounds
  <2>2. H7Place(H7DmaChannels, i) \in 1..16
    BY <2>1, <1>1, <1>5
  <2> QED BY <2>2 DEF H7DmaIrqn, H7ChannelIrqns
<1>7. ASSUME NEW i \in H7BdmaChannels PROVE H7BdmaIrqn(i) \in H7ChannelIrqns
  <2>1. H7Place(H7BdmaChannels, i) \in 1..Cardinality(H7BdmaChannels)
    BY <1>3, H7PlaceBounds
  <2>2. H7Place(H7BdmaChannels, i) \in 1..8
    BY <2>1, <1>1, <1>5
  <2> QED BY <2>2 DEF H7BdmaIrqn, H7ChannelIrqns
<1> QED BY <1>6, <1>7

LEMMA H7LinesDiffer ==
  /\ \A d \in H7Uarts : H7UartIrqn(d) \notin H7ChannelIrqns
  /\ \A d \in H7Spis : H7SpiIrqn(d) \notin H7ChannelIrqns
  /\ \A d \in H7Uarts, e \in H7Spis : H7UartIrqn(d) # H7SpiIrqn(e)
  /\ \A d, e \in H7Uarts : H7UartIrqn(d) = H7UartIrqn(e) => d = e
  /\ \A d, e \in H7Spis : H7SpiIrqn(d) = H7SpiIrqn(e) => d = e
<1>1. H7ChannelIrqns =
        {"DMA1_Stream0", "DMA1_Stream1", "DMA1_Stream2", "DMA1_Stream3", "DMA1_Stream4",
         "DMA1_Stream5", "DMA1_Stream6", "DMA1_Stream7", "DMA2_Stream0", "DMA2_Stream1",
         "DMA2_Stream2", "DMA2_Stream3", "DMA2_Stream4", "DMA2_Stream5", "DMA2_Stream6",
         "DMA2_Stream7", "BDMA_Channel0", "BDMA_Channel1", "BDMA_Channel2", "BDMA_Channel3",
         "BDMA_Channel4", "BDMA_Channel5", "BDMA_Channel6", "BDMA_Channel7"}
  BY DEF H7ChannelIrqns, H7DmaIrqns, H7BdmaIrqns
<1> QED BY <1>1 DEF H7Uarts, H7Spis, H7UartIrqn, H7SpiIrqn

LEMMA H7AlternateFields ==
  ASSUME NEW ps
  PROVE  /\ H7Alternate(ps).pinned = {SignalOf(p) : p \in ps}
         /\ H7Alternate(ps).clocks = {Port(p.pin) : p \in ps} \cap H7Ports
         /\ H7Alternate(ps).irqs = {}
<1>1. \A p : /\ H7InitializeAlternate(p).pinned = {SignalOf(p)}
             /\ H7InitializeAlternate(p).clocks = {Port(p.pin)} \cap H7Ports
             /\ H7InitializeAlternate(p).irqs = {}
  BY SMT DEF H7InitializeAlternate, Both, H7EnablePortClk, H7HalPort, NoSetup, SignalOf
<1> DEFINE each == {H7InitializeAlternate(p) : p \in ps}
<1>2. /\ H7Alternate(ps).pinned = UNION {s.pinned : s \in each}
      /\ H7Alternate(ps).clocks = UNION {s.clocks : s \in each}
      /\ H7Alternate(ps).irqs = UNION {s.irqs : s \in each}
  BY DEF H7Alternate, AllOf
<1>3. UNION {s.pinned : s \in each} = {SignalOf(p) : p \in ps}
  BY <1>1
<1>4. UNION {s.clocks : s \in each} = {Port(p.pin) : p \in ps} \cap H7Ports
  BY <1>1
<1>5. UNION {s.irqs : s \in each} = {}
  BY <1>1
<1> QED BY <1>2, <1>3, <1>4, <1>5

LEMMA H7PinsOfDevice ==
  ASSUME H7Compiles(board), NEW d \in InUse
  PROVE  /\ <<d, board.mode[d]>> \in H7Drivers
         /\ d \in H7Spis => board.spi[d] \in SpiTransmissions
         /\ \A p \in board.pinout : p.dev = d => p \in PinsOf(d, H7Signals(board, d))
BY DEF H7Compiles, InUse, PinsOf

LEMMA H7PinsOfSetup ==
  ASSUME family = "h7", NEW d, NEW ps, NEW s,
         \A p \in ps : p \in board.pinout /\ p.dev = d,
         \A p \in board.pinout : p.dev = d => p \in ps,
         s.pinned = {SignalOf(p) : p \in ps},
         {Port(p.pin) : p \in ps} \cap H7Ports \subseteq s.clocks
  PROVE  OwnPins(s, d) /\ AllPins(s, d)
BY DEF OwnPins, AllPins, SignalOf, Neglected

LEMMA H7UartSetsUp ==
  ASSUME family = "h7", H7Compiles(board), NEW d \in InUse \cap H7Uarts
  PROVE  H7SetsUp(H7Setups[d], d)
<1> DEFINE s == H7Setups[d]
           ps == PinsOf(d, {"tx", "rx"})
           irq == IF board.mode[d] = "irq" THEN H7InitializeUartForInterruptMode(d)
                  ELSE NoSetup
           pins_ == Both(H7Alternate(ps), H7SetupUartNoFc(d))
<1>1. s = Both(pins_, irq)
  BY RequestsAssumption DEF H7Setups, H7UartSetup, H7UartPinout, H7Uarts, H7Spis
<1>2. /\ \A p \in ps : p \in board.pinout /\ p.dev = d
      /\ \A p \in board.pinout : p.dev = d => p \in ps
  BY H7PinsOfDevice DEF H7Signals, PinsOf, H7Uarts, H7Spis
<1>3. /\ irq.pinned = {} /\ irq.irqs \subseteq {<<Core(d), H7UartIrqn(d)>>}
      /\ H7SetupUartNoFc(d).pinned = {} /\ H7SetupUartNoFc(d).irqs = {}
  BY DEF H7InitializeUartForInterruptMode, NoSetup, H7SetupUartNoFc, H7EnableUartClk
<1> HIDE DEF s, ps, irq, pins_
<1>4. /\ pins_.pinned = {SignalOf(p) : p \in ps}
      /\ {Port(p.pin) : p \in ps} \cap H7Ports \subseteq pins_.clocks
      /\ pins_.irqs = {}
  BY <1>3, BothFields, H7AlternateFields DEF pins_
<1>5. /\ s.pinned = {SignalOf(p) : p \in ps}
      /\ {Port(p.pin) : p \in ps} \cap H7Ports \subseteq s.clocks
      /\ s.irqs \subseteq {<<Core(d), H7UartIrqn(d)>>}
  BY <1>1, <1>3, <1>4, BothFields
<1>6. OwnPins(s, d) /\ AllPins(s, d)
  BY <1>2, <1>5, H7PinsOfSetup
<1>7. H7SetsUp(s, d)
  BY <1>5, <1>6, H7LinesDiffer DEF H7SetsUp
<1> QED BY <1>7 DEF s

LEMMA H7SpiSetsUp ==
  ASSUME family = "h7", H7Compiles(board), NEW d \in InUse \cap H7Spis
  PROVE  H7SetsUp(H7Setups[d], d)
<1> DEFINE s == H7Setups[d]
           ps == PinsOf(d, H7Signals(board, d))
           pins_ == H7SpiSetup(d)
           channels == Both(IF H7Transmits(board, d) THEN H7SetupChannel(<<d, "tx">>) ELSE NoSetup,
                            IF H7Receives(board, d) THEN H7SetupChannel(<<d, "rx">>) ELSE NoSetup)
           irq == H7EnableSpiInterrupt(d)
<1>1. s = IF board.mode[d] = "dma" THEN Both(Both(pins_, irq), channels) ELSE pins_
  BY RequestsAssumption DEF H7Setups, H7SpiSetupDma, H7Uarts, H7Spis
<1>2. pins_ = Both(H7Alternate(ps), H7SetupSpiMaster(d))
  <2>1. H7SetupPins(d) = H7Alternate(ps)
    BY H7PinsOfDevice
       DEF H7SetupPins, H7Signals, H7SpiDuplexPins, H7SpiRxPins, H7SpiTxPins, SpiTransmissions,
           H7Uarts, H7Spis
  <2> QED BY <2>1 DEF H7SpiSetup
<1>3. /\ \A p \in ps : p \in board.pinout /\ p.dev = d
      /\ \A p \in board.pinout : p.dev = d => p \in ps
  BY H7PinsOfDevice DEF PinsOf
<1>4. /\ irq.pinned = {} /\ irq.irqs = {<<Core(d), H7SpiIrqn(d)>>}
      /\ H7SetupSpiMaster(d).pinned = {} /\ H7SetupSpiMaster(d).irqs = {}
  BY DEF H7EnableSpiInterrupt, NoSetup, H7SetupSpiMaster, H7EnableSpiClk
<1>5. channels.pinned = {} /\ channels.irqs = {}
  <2>1. \A r : H7SetupChannel(r).pinned = {} /\ H7SetupChannel(r).irqs = {}
    BY DEF H7SetupChannel, NoSetup
  <2>2. NoSetup.pinned = {} /\ NoSetup.irqs = {}
    BY DEF NoSetup
  <2> QED BY <2>1, <2>2, BothFields
<1> HIDE DEF s, ps, irq, pins_, channels
<1>6. /\ pins_.pinned = {SignalOf(p) : p \in ps}
      /\ {Port(p.pin) : p \in ps} \cap H7Ports \subseteq pins_.clocks
      /\ pins_.irqs = {}
  BY <1>2, <1>4, BothFields, H7AlternateFields
<1>7. /\ s.pinned = pins_.pinned
      /\ pins_.clocks \subseteq s.clocks
      /\ s.irqs \subseteq {<<Core(d), H7SpiIrqn(d)>>}
  BY <1>1, <1>4, <1>5, <1>6, BothFields
<1>8. OwnPins(s, d) /\ AllPins(s, d)
  BY <1>3, <1>6, <1>7, H7PinsOfSetup
<1>9. H7SetsUp(s, d)
  BY <1>7, <1>8, H7LinesDiffer DEF H7SetsUp
<1> QED BY <1>9 DEF s

(* The DMA controllers and single pins. *)
LEMMA H7OthersSetUp ==
  ASSUME family = "h7", board \in H7Boards, H7Compiles(board),
         NEW d \in InUse \cap (Controllers \union {"gpi", "gpo"})
  PROVE  H7SetsUp(H7Setups[d], d)
<1> DEFINE s == H7Setups[d]
<1>1. CASE d \in Controllers
  <2>1. s = H7DmaSetup(Core(d)) /\ d \in {"dma", "dma4"}
    BY <1>1, RequestsAssumption DEF H7Setups, H7Uarts, H7Spis
  <2>2. \A p \in board.pinout : p.dev # d
    BY <2>1, H7PinsOfDevice DEF H7Signals, PinsOf, H7Uarts, H7Spis
  <2>3. /\ s.pinned = {}
        /\ \A x \in s.irqs : x[2] \in H7ChannelIrqns
    <3>1. /\ s.pinned = {}
          /\ s.irqs = {<<Core(d), H7BdmaIrqn(i)>> : i \in H7BdmaChannels}
                        \union {<<Core(d), H7DmaIrqn(i)>> : i \in H7DmaChannels}
      BY <2>1 DEF H7DmaSetup, NoSetup
    <3> HIDE DEF s
    <3> QED BY <3>1, H7ChannelLines
  <2>4. H7SetsUp(s, d)
    BY <2>2, <2>3, H7LinesDiffer DEF H7SetsUp, OwnPins, AllPins
  <2> QED BY <2>4
<1>2. CASE d \in {"gpi", "gpo"}
  <2> DEFINE ps == PinsOf(d, {"in", "out"})
  <2>1. s = H7Alternate(ps)
    <3>1. AllOf({H7Initialize(p) : p \in ps}) = H7Alternate(ps)
      BY DEF H7Alternate, H7InitializeAlternate, H7Initialize
    <3> QED BY <1>2, <3>1, RequestsAssumption DEF H7Setups, H7Uarts, H7Spis
  <2>2. /\ \A p \in ps : p \in board.pinout /\ p.dev = d
        /\ \A p \in board.pinout : p.dev = d => p \in ps
    BY <1>2, H7PinsOfDevice DEF H7Signals, PinsOf, H7Uarts, H7Spis
  <2> HIDE DEF s, ps
  <2>3. /\ s.pinned = {SignalOf(p) : p \in ps}
        /\ {Port(p.pin) : p \in ps} \cap H7Ports \subseteq s.clocks
        /\ s.irqs = {}
    BY <2>1, H7AlternateFields
  <2>4. H7SetsUp(s, d)
    BY <2>2, <2>3, H7PinsOfSetup DEF H7SetsUp
  <2> QED BY <2>4 DEF s
<1> QED BY <1>1, <1>2

LEMMA H7AllSetUp ==
  ASSUME family = "h7", board \in H7Boards, H7Compiles(board), NEW d \in InUse
  PROVE  H7SetsUp(H7Setups[d], d)
<1>1. d \in H7Uarts \union H7Spis \union Controllers \union {"gpi", "gpo"}
  BY H7PinsOfDevice DEF H7Drivers
<1> QED BY <1>1, H7UartSetsUp, H7SpiSetsUp, H7OthersSetUp

-----------------------------------------------------------------------------
(* What each driver of the STM32H7 is wired with. *)
LEMMA H7UartWires ==
  ASSUME NEW d \in InUse \cap H7Uarts
  PROVE  H7Wired(d, H7Setups[d].clocks, H7Setups[d].irqs)
<1> DEFINE s == H7Setups[d]
           irq == IF board.mode[d] = "irq" THEN H7InitializeUartForInterruptMode(d)
                  ELSE NoSetup
           pins_ == Both(H7UartPinout(d), H7SetupUartNoFc(d))
<1>1. s = Both(pins_, irq) /\ d \notin H7Spis /\ d \notin Controllers
  BY RequestsAssumption DEF H7Setups, H7UartSetup, H7Uarts, H7Spis
<1>2. /\ H7SetupUartNoFc(d).clocks = {d}
      /\ board.mode[d] = "irq" => irq.irqs = {<<Core(d), H7UartIrqn(d)>>}
  BY DEF H7InitializeUartForInterruptMode, NoSetup, H7SetupUartNoFc, H7EnableUartClk
<1> HIDE DEF s, irq
<1>3. d \in s.clocks /\ irq.irqs \subseteq s.irqs
  <2>1. d \in pins_.clocks
    BY <1>2, BothFields
  <2> HIDE DEF pins_
  <2> QED BY <1>1, <2>1, BothFields
<1>4. H7Wired(d, s.clocks, s.irqs)
  BY <1>1, <1>2, <1>3 DEF H7Wired
<1> QED BY <1>4 DEF s

LEMMA H7SpiWires ==
  ASSUME NEW d \in InUse \cap H7Spis
  PROVE  H7Wired(d, H7Setups[d].clocks, H7Setups[d].irqs)
<1> DEFINE s == H7Setups[d]
           pins_ == H7SpiSetup(d)
           irq == H7EnableSpiInterrupt(d)
           channels == Both(IF H7Transmits(board, d) THEN H7SetupChannel(<<d, "tx">>) ELSE NoSetup,
                            IF H7Receives(board, d) THEN H7SetupChannel(<<d, "rx">>) ELSE NoSetup)
<1>1. /\ s = IF board.mode[d] = "dma" THEN Both(Both(pins_, irq), channels) ELSE pins_
      /\ d \notin H7Uarts /\ d \notin Controllers
  BY RequestsAssumption DEF H7Setups, H7SpiSetupDma, H7Uarts, H7Spis
<1>2. d \in pins_.clocks /\ irq.irqs = {<<Core(d), H7SpiIrqn(d)>>}
  <2>1. H7SetupSpiMaster(d).clocks = {d}
    BY DEF H7SetupSpiMaster, H7EnableSpiClk, NoSetup
  <2>2. irq.irqs = {<<Core(d), H7SpiIrqn(d)>>}
    BY DEF H7EnableSpiInterrupt, NoSetup
  <2> QED BY <2>1, <2>2, BothFields DEF H7SpiSetup
<1> HIDE DEF s, irq, pins_, channels
<1>3. d \in s.clocks /\ (board.mode[d] = "dma" => irq.irqs \subseteq s.irqs)
  BY <1>1, <1>2, BothFields
<1>4. H7Wired(d, s.clocks, s.irqs)
  BY <1>1, <1>2, <1>3 DEF H7Wired
<1> QED BY <1>4 DEF s

LEMMA H7OthersWire ==
  ASSUME board \in H7Boards, NEW d \in InUse \cap (Controllers \union {"gpi", "gpo"})
  PROVE  H7Wired(d, H7Setups[d].clocks, H7Setups[d].irqs)
<1>1. d \in {"dma", "dma4", "gpi", "gpo"} /\ d \notin H7Uarts /\ d \notin H7Spis
  BY RequestsAssumption DEF H7Uarts, H7Spis
<1>2. CASE d \in Controllers
  <2> DEFINE s == H7Setups[d]
  <2>1. s = H7DmaSetup(Core(d))
    BY <1>2, RequestsAssumption DEF H7Setups, H7Uarts, H7Spis
  <2>2. /\ s.clocks = (IF H7BdmaChannels # {} THEN {"bdma"} ELSE {})
                        \union (IF H7DmaChannels # {} THEN {"dma1"} ELSE {})
                        \union (IF Cardinality(H7DmaChannels) > 8 THEN {"dma2"} ELSE {})
        /\ s.irqs = {<<Core(d), H7BdmaIrqn(i)>> : i \in H7BdmaChannels}
                      \union {<<Core(d), H7DmaIrqn(i)>> : i \in H7DmaChannels}
    BY <2>1 DEF H7DmaSetup, NoSetup
  <2> HIDE DEF s
  <2>3. ASSUME NEW i \in H7DmaChannels
        PROVE  /\ Cardinality(H7DmaChannels) \in Nat
               /\ H7Place(H7DmaChannels, i) \in 1..Cardinality(H7DmaChannels)
    <3>1. PICK n \in Nat : DOMAIN board.dma = 1..n
      <4>1. board.dma \in Seq(Requests)
        BY BoardsAssumption
      <4> QED BY <4>1
    <3>2. H7DmaChannels \in SUBSET (1..n)
      BY <3>1 DEF H7DmaChannels
    <3>3. IsFiniteSet(H7DmaChannels)
      <4>1. IsFiniteSet(1..n)
        BY FS_Interval
      <4> QED BY <3>2, <4>1, FS_Subset
    <3> QED BY <3>2, <3>3, FS_CardinalityType, H7PlaceBounds
  <2>4. \A i \in H7DmaChannels :
          (IF H7Place(H7DmaChannels, i) <= 8 THEN "dma1" ELSE "dma2") \in s.clocks
    BY <2>2, <2>3
  <2>5. H7Wired(d, s.clocks, s.irqs)
    BY <1>1, <2>2, <2>4 DEF H7Wired
  <2> QED BY <2>5 DEF s
<1>3. CASE d \notin Controllers
  BY <1>1, <1>3 DEF H7Wired
<1> QED BY <1>2, <1>3

LEMMA H7AllWire ==
  ASSUME board \in H7Boards, H7Compiles(board), NEW d \in InUse
  PROVE  H7Wired(d, H7Setups[d].clocks, H7Setups[d].irqs)
<1>1. d \in H7Uarts \union H7Spis \union Controllers \union {"gpi", "gpo"}
  BY H7PinsOfDevice DEF H7Drivers
<1> QED BY <1>1, H7UartWires, H7SpiWires, H7OthersWire

-----------------------------------------------------------------------------
(* Every step of the drivers is of one of the following kinds; which, and  *)
(* with which arguments, is all that the invariant needs to know of it.    *)
MayStart(r) ==
    r \in Requests =>
      StageOk(r) /\ (board.careful /\ r[1] # "exti" => SameCore(r[1]) \subseteq built)
Launching(r, b) ==
    /\ MayStart(r) /\ b \in AnyBuffer
    /\ \/ UNCHANGED <<stage, filled>>
       \/ stage' = [stage EXCEPT ![r] = 1] /\ filled' = [filled EXCEPT ![r] = b]
    /\ \/ r \notin Received /\ UNCHANGED <<rx_buf, spoilt>>
       \/ /\ r = <<r[1], "rx">> /\ r[1] \in Devices
          /\ rx_buf' = [rx_buf EXCEPT ![r[1]] = b]
          /\ spoilt' = IF stage[r] # 0 THEN spoilt \union {r[1]}
                       ELSE IF stage' # stage THEN spoilt \ {r[1]} ELSE spoilt
    /\ UNCHANGED <<board, building, setVars, raised, handed, hung>>
Counting(d) ==
    /\ MayStart(<<d, "count">>) /\ MayStart(<<d, "update">>)
    /\ stage' = [stage EXCEPT ![<<d, "count">>] = 1, ![<<d, "update">>] = 1]
    /\ UNCHANGED <<board, building, setVars, raised, rx_buf, filled, spoilt, handed, hung>>
Stopping(reqs) ==
    /\ HalStop(reqs) /\ \A r \in reqs : r[2] \in {"tx", "count", "update"}
    /\ UNCHANGED <<board, building, setVars, rx_buf, filled, spoilt, handed, hung>>
Flagging ==
    /\ raised' \subseteq raised
    /\ UNCHANGED <<board, building, setVars, stage, rx_buf, filled, spoilt, handed, hung>>
Enabling ==
    /\ family = "g0" /\ clocked \subseteq clocked' /\ lines \ lines' \subseteq G0TimLines
    /\ "exti" \in clocked' \ clocked => G0Wired("exti", clocked', lines')
    /\ UNCHANGED <<board, building, built, link, pins, ioVars, hung>>
Finishing(r, line) ==
    r \in Requests /\ r[1] \in InUse /\ LineOk(r, line) /\ HwFinish(r, line)
ServeOk(line, ended, next, given, touched) ==
    /\ touched \subseteq InUse
    /\ \A d \in touched : \E x \in raised : d \in SameCore(x[1][1])
    /\ next \subseteq Pending(line)
    /\ \A d \in DOMAIN given : given[d] = rx_buf[d]
    /\ \A r \in Received : /\ r \in ended <=> r[1] \in DOMAIN given
                           /\ r \in ended => stage[r] # 0
    /\ \A r \in Requests : r \in ended /\ r[2] = "burst" /\ stage[r] # 0
                             => \/ \E l \in lines : <<r, l>> \in raised
                                \/ stage[<<r[1], "update">>] # 0
Serving(line, ended, next, given, touched) ==
    /\ ServeOk(line, ended, next, given, touched)
    /\ HalGoOn(line, ended, next, given, touched, Setups)
Falling(cause) ==
    /\ HalDown(cause) /\ cause \in Faults
    /\ cause = "reentry" => ~Quiet
    /\ cause = "channel not set up" => family = "g0" /\ (~board.careful \/ ~G0LinesKept)
    /\ cause = "no handler" =>
         \/ family = "g0" /\ "tim3" \in InUse
         \/ family = "h7" /\ \E d \in Using({"usart6", "uart7", "uart8"}) : board.mode[d] = "irq"
DriverKinds ==
    \/ \E d \in InUse : HalBegin(d) \/ HalEnd(d, Setups)
    \/ \E r, b : Launching(r, b)
    \/ \E d : Counting(d)
    \/ \E reqs : Stopping(reqs)
    \/ Flagging \/ Enabling
    \/ \E r, line : Finishing(r, line)
    \/ \E line, ended, next, given, touched : Serving(line, ended, next, given, touched)
    \/ \E cause : Falling(cause)

LEMMA IndexIn ==
  ASSUME NEW S, NEW list \in Seq(S), NEW x
  PROVE  /\ Index(list, x) \in 0..Len(list)
         /\ Index(list, x) # 0 => /\ Index(list, x) \in DOMAIN list
                                  /\ list[Index(list, x)] = x
         /\ (\E i \in DOMAIN list : list[i] = x) => Index(list, x) # 0
<1>1. DOMAIN list = 1..Len(list) /\ Len(list) \in Nat
  OBVIOUS
<1>2. CASE \E i \in DOMAIN list : list[i] = x
  <2>1. Index(list, x) = CHOOSE i \in DOMAIN list : list[i] = x
    BY <1>2 DEF Index
  <2>2. Index(list, x) \in DOMAIN list /\ list[Index(list, x)] = x
    BY <1>2, <2>1
  <2> QED BY <1>1, <2>2
<1>3. CASE ~\E i \in DOMAIN list : list[i] = x
  BY <1>1, <1>3 DEF Index
<1> QED BY <1>2, <1>3

(* What the invariant says of a program on the STM32G0. *)
LEMMA G0Board ==
  ASSUME family = "g0", BoardInv
  PROVE  /\ G0Compiles(board) /\ board.refused \subseteq G0Tims
         /\ board.pinout \subseteq [dev : Devices, signal : STRING, pin : Pins]
         /\ \A p, q \in board.pinout : p.pin = q.pin => p = q
         /\ board.dma \in Seq(Requests)
         /\ \A d, e \in Devices : board.core[d] = board.core[e]
         /\ \A d \in InUse : SameCore(d) = InUse
<1>1. board \in G0Boards /\ G0Compiles(board)
  BY DEF BoardInv
<1> QED BY <1>1, BoardsAssumption, G0BoardsAssumption DEF SameCore, InUse

LEMMA H7Board ==
  ASSUME family = "h7", BoardInv
  PROVE  /\ board \in H7Boards /\ H7Compiles(board) /\ board.refused = {}
         /\ board.pinout \subseteq [dev : Devices, signal : STRING, pin : Pins]
         /\ \A p, q \in board.pinout : p.pin = q.pin => p = q
         /\ board.dma \in Seq(Requests)
         /\ board.core \in [Devices -> Cores]
<1>1. board \in H7Boards /\ H7Compiles(board)
  BY DEF BoardInv
<1> QED BY <1>1, BoardsAssumption, H7BoardsAssumption

(* A driver may start what its mode is for. *)
LEMMA G0MayStart ==
  ASSUME family = "g0", DriversInv, NEW d, HalMayCall(d), NEW r, r[1] = d,
         G0Channelless(r) \/ G0Kept(r)
  PROVE  MayStart(r)
<1>1. d \in built /\ (board.careful => SameCore(d) \subseteq built)
  BY DEF HalMayCall
<1>2. ASSUME r \in Requests, G0Kept(r) PROVE link[r] # 0
  <2>1. Index(board.dma, r) # 0
    BY <1>2, G0Board DEF DriversInv, G0Compiles, G0ChannelEnabled, G0Kept
  <2> QED BY <1>1, <1>2, <2>1 DEF DriversInv, LinkInv
<1> QED BY <1>1, <1>2 DEF MayStart, StageOk

(* The calls of a program on the STM32G0. *)
LEMMA G0TransferCalls ==
  ASSUME family = "g0", DriversInv, NEW d
  PROVE  /\ G0Write(d) => Launching(<<d, "tx">>, NoBuffer)
         /\ \A b \in Buffers : G0Receive(d, b) => Launching(<<d, "rx">>, b)
         /\ \A b \in Buffers : G0SpiReceive(d, b) => Launching(<<d, "rx">>, b)
         /\ G0SpiTransmit(d) => Launching(<<d, "tx">>, NoBuffer)
         /\ G0I2sTransmit(d) => Launching(<<d, "tx">>, NoBuffer)
<1>1. d \in Using(G0Spis) => board.spi[d] \in SpiTransmissions
  BY G0Board DEF DriversInv, G0Compiles, Using, InUse
<1>2. d \notin G0Tims => d \notin board.refused
  BY G0Board DEF DriversInv
<1>3. ASSUME G0Write(d) PROVE Launching(<<d, "tx">>, NoBuffer)
  <2>1. MayStart(<<d, "tx">>)
    <3>1. G0Channelless(<<d, "tx">>) \/ G0Kept(<<d, "tx">>)
      BY <1>2, <1>3 DEF G0Write, Using, G0Channelless, G0Kept, G0NeedsChannel, DmaModes, G0Uarts, G0Tims
    <3> QED BY <1>3, <3>1, G0MayStart DEF G0Write
  <2> QED BY <1>3, <2>1 DEF G0Write, Launching, HalStart, AnyBuffer, Received
<1>4. ASSUME NEW b \in Buffers, G0Receive(d, b) PROVE Launching(<<d, "rx">>, b)
  <2>1. MayStart(<<d, "rx">>)
    <3>1. G0Kept(<<d, "rx">>)
      BY <1>2, <1>4 DEF G0Receive, Using, G0Kept, G0NeedsChannel, DmaModes, G0Uarts, G0Tims
    <3> QED BY <1>4, <3>1, G0MayStart DEF G0Receive
  <2> QED BY <1>4, <2>1 DEF G0Receive, Launching, HalReceive, HalStart, AnyBuffer, Using, InUse
<1>5. ASSUME NEW b \in Buffers, G0SpiReceive(d, b) PROVE Launching(<<d, "rx">>, b)
  <2>1. MayStart(<<d, "rx">>)
    <3>1. G0Kept(<<d, "rx">>)
      BY <1>1, <1>2, <1>5
         DEF G0SpiReceive, Using, G0Kept, G0NeedsChannel, DmaModes, SpiTransmissions, G0Spis, G0Tims
    <3> QED BY <1>5, <3>1, G0MayStart DEF G0SpiReceive
  <2>2. <<d, "rx">> \notin Received
    BY <1>5 DEF G0SpiReceive, Received, Using, G0Uarts, G0Spis
  <2> QED BY <1>5, <2>1, <2>2 DEF G0SpiReceive, Launching, HalStart, AnyBuffer
<1>6. ASSUME G0SpiTransmit(d) PROVE Launching(<<d, "tx">>, NoBuffer)
  <2>1. MayStart(<<d, "tx">>)
    <3>1. G0Kept(<<d, "tx">>)
      BY <1>1, <1>2, <1>6
         DEF G0SpiTransmit, Using, G0Kept, G0NeedsChannel, DmaModes, SpiTransmissions, G0Spis, G0Tims
    <3> QED BY <1>6, <3>1, G0MayStart DEF G0SpiTransmit
  <2> QED BY <1>6, <2>1 DEF G0SpiTransmit, Launching, HalStart, AnyBuffer, Received
<1>7. ASSUME G0I2sTransmit(d) PROVE Launching(<<d, "tx">>, NoBuffer)
  <2>1. MayStart(<<d, "tx">>)
    <3>1. G0Kept(<<d, "tx">>)
      BY <1>2, <1>7
         DEF G0I2sTransmit, Using, G0Kept, G0NeedsChannel, DmaModes, G0I2s, G0Tims
    <3> QED BY <1>7, <3>1, G0MayStart DEF G0I2sTransmit
  <2> QED BY <1>7, <2>1 DEF G0I2sTransmit, Launching, HalStart, AnyBuffer, Received
<1> QED BY <1>3, <1>4, <1>5, <1>6, <1>7

LEMMA G0TimCalls ==
  ASSUME family = "g0", DriversInv, NEW d
  PROVE  /\ G0TimStart(d) => Launching(<<d, "count">>, NoBuffer)
         /\ G0TimStartWithInterrupt(d) => Counting(d)
         /\ G0TimStop(d) => \E reqs : Stopping(reqs)
         /\ G0I2sEndTransmit(d) => \E reqs : Stopping(reqs)
         /\ G0SetPeriod(d) => Flagging
         /\ G0TimEnableInterrupt(d) => Enabling
         /\ G0TimDisableInterrupt(d) => Enabling
         /\ G0SetDmaData(d) => Launching(<<d, "burst">>, NoBuffer)
<1>1. ASSUME d \in Using(G0Tims), HalMayCall(d)
      PROVE  MayStart(<<d, "count">>) /\ MayStart(<<d, "update">>)
  <2>1. G0Channelless(<<d, "count">>) /\ G0Channelless(<<d, "update">>)
    BY <1>1 DEF Using, G0Channelless
  <2> QED BY <1>1, <2>1, G0MayStart
<1>2. ASSUME G0TimStart(d) PROVE Launching(<<d, "count">>, NoBuffer)
  BY <1>1, <1>2 DEF G0TimStart, Launching, HalStart, AnyBuffer, Received
<1>3. ASSUME G0TimStartWithInterrupt(d) PROVE Counting(d)
  BY <1>1, <1>3 DEF G0TimStartWithInterrupt, Counting
<1>4. ASSUME G0TimStop(d) PROVE \E reqs : Stopping(reqs)
  <2>1. PICK reqs \in {{<<d, "count">>}, {<<d, "count">>, <<d, "update">>}} : HalStop(reqs)
    BY <1>4 DEF G0TimStop
  <2>2. \A r \in reqs : r[2] \in {"tx", "count", "update"}
    BY <2>1
  <2>3. Stopping(reqs)
    BY <1>4, <2>1, <2>2 DEF G0TimStop, Stopping
  <2> QED BY <2>3
<1>5. ASSUME G0I2sEndTransmit(d) PROVE \E reqs : Stopping(reqs)
  <2>1. Stopping({<<d, "tx">>})
    BY <1>5 DEF G0I2sEndTransmit, Stopping
  <2> QED BY <2>1
<1>6. G0SetPeriod(d) => Flagging
  BY DEF G0SetPeriod, Flagging
<1>7. (G0TimEnableInterrupt(d) => Enabling) /\ (G0TimDisableInterrupt(d) => Enabling)
  <2>1. G0TimIrqn(d) \in G0TimLines
    BY DEF G0TimIrqn, G0TimLines
  <2> QED BY <2>1 DEF G0TimEnableInterrupt, G0TimDisableInterrupt, Enabling
<1>8. ASSUME G0SetDmaData(d) PROVE Launching(<<d, "burst">>, NoBuffer)
  <2>1. MayStart(<<d, "burst">>)
    BY <1>8 DEF G0SetDmaData, HalMayCall, MayStart, StageOk
  <2> QED BY <1>8, <2>1 DEF G0SetDmaData, Launching, HalStart, AnyBuffer, Received
<1> QED BY <1>2, <1>3, <1>4, <1>5, <1>6, <1>7, <1>8

LEMMA G0ExtiSteps ==
  ASSUME family = "g0", DriversInv
  PROVE  /\ G0EnableExtiInterrupt => Enabling
         /\ \A edge \in {"rise", "fall"} : G0Edge(edge) => Launching(<<"exti", edge>>, NoBuffer)
<1>1. ASSUME G0EnableExtiInterrupt PROVE Enabling
  <2>1. "exti" \in InUse
    BY <1>1 DEF G0EnableExtiInterrupt, DriversInv, HalInv
  <2>2. G0Setups["exti"] = G0ExtiSetup
    BY <2>1 DEF G0Setups, G0Uarts, G0Spis, G0I2s, G0Tims
  <2>3. G0Wired("exti", G0ExtiSetup.clocks, G0ExtiSetup.irqs)
    BY <2>1, <2>2, G0Board, G0AllWire DEF DriversInv, G0Wires
  <2>4. G0Wired("exti", clocked', lines')
    BY <1>1, <2>3 DEF G0EnableExtiInterrupt, G0Wired
  <2> QED BY <1>1, <2>4 DEF G0EnableExtiInterrupt, Enabling
<1>2. ASSUME NEW edge \in {"rise", "fall"}, G0Edge(edge)
      PROVE  Launching(<<"exti", edge>>, NoBuffer)
  <2>1. MayStart(<<"exti", edge>>)
    BY <1>2, RequestPairs DEF InUse, G0Edge, MayStart, StageOk, G0Channelless
  <2> QED BY <1>2, <2>1 DEF G0Edge, Launching, HalStart, AnyBuffer, Received
<1> QED BY <1>1, <1>2

(* Whatever is under way on the STM32G0 has a clock and the lines of its   *)
(* next interrupt, and a channel is fed by the request that paces it.      *)
LEMMA G0Hears ==
  ASSUME family = "g0", DriversInv, NEW r \in Requests, stage[r] # 0
  PROVE  /\ r[1] \in InUse /\ r[1] \in clocked
         /\ link[r] # 0 => G0GetDmaRequestId(r) = HwRequest(r)
         /\ \A line \in G0Lines(r) : Listened(r, line)
<1> DEFINE d == r[1]
<1>1. /\ d \in built \/ (d = "exti" /\ "exti" \in InUse \cap clocked)
      /\ G0Channelless(r) \/ link[r] # 0
      /\ d \in Devices /\ r = <<r[1], r[2]>>
  BY RequestPairs DEF DriversInv, StageInv, StageOk
<1>2. ASSUME link[r] # 0
      PROVE  /\ d \in built /\ G0Kept(r) /\ link[r] = Index(board.dma, r)
             /\ link[r] \in DOMAIN board.dma
  BY <1>2, G0Board, IndexIn DEF DriversInv, LinkInv
<1>3. ASSUME link[r] # 0 PROVE G0DmaLine(link[r]) \in lines
  <2>1. d \in InUse /\ board.mode[d] \in DmaModes
    BY <1>2, <1>3 DEF DriversInv, HalInv, G0Kept, G0NeedsChannel
  <2>2. PICK c \in Controllers : board.mode[c] # "off" /\ board.core[c] = board.core[d]
    BY <1>1, <2>1, BoardsAssumption DEF DriversInv, BoardInv
  <2>3. c \in InUse /\ c \in SameCore(d)
    BY <2>2, RequestsAssumption DEF InUse, SameCore
  <2>4. c \in built
    BY <1>2, <1>3, <2>1, <2>2, <2>3 DEF DriversInv, ControllersInv
  <2>5. c = "dma"
    <3>1. <<c, board.mode[c]>> \in G0Drivers /\ c \in {"dma", "dma4"}
      BY <2>2, <2>3, G0Board, G0PinsOfDevice, RequestsAssumption DEF DriversInv
    <3> QED BY <3>1 DEF G0Drivers, G0Uarts, G0Spis, G0I2s, G0Tims
  <2> QED BY <1>2, <1>3, <2>4, <2>5 DEF DriversInv, WiredInv, G0Wired
<1>4. d \in InUse
  BY <1>1 DEF DriversInv, HalInv
<1>5. G0Wired(d, clocked, lines)
  BY <1>1 DEF DriversInv, WiredInv
<1>6. d \in clocked
  BY <1>1, <1>2, <1>5 DEF G0Wired, G0Channelless, G0Kept, G0NeedsChannel
<1>7. ASSUME link[r] # 0 PROVE G0GetDmaRequestId(r) = HwRequest(r)
  BY <1>1, <1>2, <1>7
     DEF G0Kept, G0NeedsChannel, G0GetDmaRequestId, HwRequest, G0Uarts, G0Spis, G0I2s, G0Tims
<1>8. ASSUME NEW line \in G0Lines(r) PROVE Listened(r, line)
  <2>1. CASE d \in G0Uarts
    <3>1. board.mode[d] = "irq" \/ link[r] # 0
      BY <1>1, <2>1 DEF G0Channelless, G0Uarts, G0Tims
    <3>2. board.mode[d] \in {"irq", "dma"}
      <4>1. board.mode[d] \in {"poll", "irq", "dma"}
        BY <1>4, <2>1, G0Board, G0PinsOfDevice
           DEF DriversInv, G0Drivers, G0Uarts, G0Spis, G0I2s, G0Tims
      <4> QED BY <1>2, <3>1, <4>1 DEF G0Kept, G0NeedsChannel, DmaModes
    <3>3. G0UartIrqn(d) \in lines
      BY <1>5, <2>1, <3>2 DEF G0Wired
    <3>4. line = G0UartIrqn(d) \/ (line = G0DmaLine(link[r]) /\ link[r] # 0)
      BY <1>8, <2>1, <3>1 DEF G0Lines, G0Uarts, G0Tims
    <3> QED BY <1>3, <3>3, <3>4 DEF Listened
  <2>2. CASE d \in G0Tims
    <3>1. \/ line = G0TimIrqn(d)
          \/ line = G0DmaLine(link[r]) /\ r[2] = "burst"
      BY <1>8, <2>2 DEF G0Lines, G0Uarts, G0Tims
    <3>2. G0TimIrqn(d) \in G0TimLines
      BY DEF G0TimIrqn, G0TimLines
    <3>3. r[2] = "burst" => link[r] # 0
      BY <1>1, <2>2 DEF G0Channelless, G0Uarts, G0Tims
    <3> QED BY <1>3, <3>1, <3>2, <3>3 DEF Listened
  <2>3. CASE d = "exti"
    <3>1. line \in {G0ExtiIrqn(p.pin[2]) : p \in PinsOf("exti", {"in"})}
      BY <1>8, <2>3 DEF G0Lines, G0Uarts, G0Tims
    <3> QED BY <1>5, <2>3, <3>1 DEF G0Wired, Listened
  <2>4. CASE d \notin G0Uarts \union G0Tims \union {"exti"}
    <3>1. line = G0DmaLine(link[r])
      BY <1>8, <2>4 DEF G0Lines
    <3>2. link[r] # 0
      BY <1>1, <2>4 DEF G0Channelless
    <3> QED BY <1>3, <3>1, <3>2 DEF Listened
  <2> QED BY <2>1, <2>2, <2>3, <2>4
<1> QED BY <1>4, <1>6, <1>7, <1>8

(* The hardware of the STM32G0 asks for interrupts on their owners' lines. *)
LEMMA G0Finishing ==
  ASSUME family = "g0", DriversInv, NEW r \in Requests, G0Finish(r)
  PROVE  \E line : Finishing(r, line)
<1>1. PICK line \in G0Lines(r) : HwFinish(r, line)
  BY DEF G0Finish
<1>2. (G0Channelless(r) \/ link[r] # 0) /\ r[1] \in InUse
  BY <1>1 DEF HwFinish, DriversInv, StageInv, StageOk, G0Finish
<1>3. LineOk(r, line)
  <2> DEFINE d == r[1]
             dma == {G0DmaLine(link[r])}
  <2>1. /\ d \in G0Uarts => line = G0UartIrqn(d) \/ (line \in dma /\ board.mode[d] # "irq")
        /\ d \in G0Tims => \/ r[2] = "update" /\ line = G0TimIrqn(d)
                           \/ r[2] = "burst" /\ line \in dma
        /\ d = "exti" => line \in G0ExtiLines
        /\ d \notin G0Uarts \union G0Tims \union {"exti"} => line \in dma
    BY <1>1 DEF G0Lines, G0Uarts, G0Tims, G0ExtiIrqn, G0ExtiLines
  <2>2. G0DmaLine(link[r]) \in G0DmaLines
    BY DEF G0DmaLine, G0DmaLines
  <2>3. r = <<r[1], r[2]>> /\ Listened(r, line)
    BY <1>1, RequestPairs, G0Hears DEF HwFinish
  <2> QED BY <1>2, <2>1, <2>2, <2>3
          DEF LineOk, G0Channelless, G0Uarts, G0Tims, G0ExtiLines, G0DmaLines, G0UartIrqn, G0TimIrqn
<1> QED BY <1>1, <1>2, <1>3 DEF Finishing

(* In a quiet program all of a request's core is constructed. *)
LEMMA QuietRequests ==
  ASSUME DriversInv, Quiet, NEW r \in Requests, stage[r] # 0
  PROVE  SameCore(r[1]) \subseteq built
<1>1. r[1] \in InUse
  BY DEF DriversInv, HalInv, StageInv, StageOk
<1> QED BY <1>1 DEF DriversInv, QuietInv, Quiet, InUse

(* A handler enters no constructor of a quiet program.                     *)
LEMMA Serves ==
  ASSUME DriversInv, NEW line, NEW ended, NEW next, NEW given, NEW touched,
         ServeOk(line, ended, next, given, touched),
         HalServe(line, ended, next, given, touched, Setups)
  PROVE  Serving(line, ended, next, given, touched) \/ Falling("reentry")
<1>1. CASE HalGoOn(line, ended, next, given, touched, Setups)
  BY <1>1 DEF Serving
<1>2. CASE building \cap touched # {} /\ HalDown("reentry")
  <2>1. PICK d \in building \cap touched : TRUE
    BY <1>2
  <2>2. PICK x \in raised : d \in SameCore(x[1][1])
    BY <2>1 DEF ServeOk
  <2>3. x[1] \in Requests /\ stage[x[1]] # 0
    BY DEF DriversInv, RaisedInv
  <2>4. ~Quiet
    BY <2>1, <2>2, <2>3, QuietRequests DEF DriversInv, QuietInv
  <2> QED BY <1>2, <2>4 DEF Falling, Faults
<1> QED BY <1>1, <1>2 DEF HalServe

LEMMA PendingOf ==
  ASSUME DriversInv, NEW line, NEW r \in Pending(line)
  PROVE  <<r, line>> \in raised /\ r \in Requests /\ r[1] \in InUse /\ stage[r] # 0
BY DEF Pending, DriversInv, RaisedInv

LEMMA G0ServeOk ==
  ASSUME family = "g0", DriversInv, NEW line, Takes(line),
         NEW ended \in SUBSET Pending(line), NEW next \in SUBSET Pending(line),
         NEW touched \in SUBSET InUse
  PROVE  ServeOk(line, ended, next, G0ReceiveComplete(ended), touched)
<1>1. \A r \in Pending(line) : /\ <<r, line>> \in raised /\ r \in Requests
                               /\ r[1] \in InUse /\ stage[r] # 0
  BY PendingOf
<1>2. ASSUME NEW d \in touched PROVE \E x \in raised : d \in SameCore(x[1][1])
  <2>1. PICK r \in Pending(line) : TRUE
    BY DEF Takes
  <2>2. SameCore(r[1]) = InUse
    BY <1>1, G0Board DEF DriversInv
  <2> QED BY <1>1, <2>1, <2>2
<1> DEFINE given == G0ReceiveComplete(ended)
<1>3. /\ DOMAIN given = {r[1] : r \in {x \in ended : x[2] = "rx"}}
      /\ \A d \in DOMAIN given : given[d] = rx_buf[d]
  BY DEF G0ReceiveComplete
<1>4. ASSUME NEW r \in Received
      PROVE  (r \in ended <=> r[1] \in DOMAIN given) /\ (r \in ended => stage[r] # 0)
  <2>1. r \in Requests /\ r[2] = "rx"
    BY DEF Received
  <2>2. r \in ended => r[1] \in DOMAIN given
    BY <1>3, <2>1
  <2>3. ASSUME r[1] \in DOMAIN given PROVE r \in ended
    <3>1. PICK x \in ended : x[2] = "rx" /\ x[1] = r[1]
      BY <1>3, <2>3
    <3>2. x = r
      <4>1. x = <<x[1], x[2]>> /\ r = <<r[1], r[2]>>
        BY <1>1, <2>1, RequestPairs
      <4> QED BY <2>1, <3>1, <4>1
    <3> QED BY <3>2
  <2> QED BY <1>1, <2>2, <2>3
<1>5. line \in lines
  BY DEF Takes
<1> HIDE DEF given
<1>6. ServeOk(line, ended, next, given, touched)
  BY <1>1, <1>2, <1>3, <1>4, <1>5 DEF ServeOk
<1> QED BY <1>6 DEF given

(* The handlers of the STM32G0. *)
LEMMA G0DmaHandler ==
  ASSUME family = "g0", DriversInv, NEW line \in G0DmaLines, G0DmaIrqHandler(line)
  PROVE  DriverKinds
<1> DEFINE served == Pending(line)
           next   == {r \in served : r[1] \in G0Uarts /\ r[2] = "tx"}
           again  == {r \in served : board.mode[r[1]] = "circular"}
           ended  == served \ (next \union again)
           given  == G0ReceiveComplete(ended)
           touched == G0TouchedBy(ended)
<1>1. CASE HalServe(line, ended, next, given, touched, G0Setups)
  <2>1. touched \in SUBSET InUse
    BY DEF G0TouchedBy, G0RxEvent, G0TxCplt, G0SpiRxCplt, G0TimCallback, Using
  <2>2. ServeOk(line, ended, next, given, touched)
    BY <2>1, G0ServeOk DEF G0DmaIrqHandler
  <2> HIDE DEF ended, next, given, touched
  <2>3. Serving(line, ended, next, given, touched) \/ Falling("reentry")
    BY <1>1, <2>2, Serves DEF Setups
  <2> QED BY <2>3 DEF DriverKinds
<1>2. CASE /\ \E i \in G0ChannelInUse(line) : link[board.dma[i]] = 0
           /\ HalDown("channel not set up")
  <2>1. ASSUME board.careful, G0LinesKept PROVE FALSE
    <3>1. PICK i \in DOMAIN board.dma : G0DmaLine(i) = line /\ link[board.dma[i]] = 0
      BY <1>2 DEF G0ChannelInUse
    <3>2. PICK r \in Pending(line) : TRUE
      BY DEF G0DmaIrqHandler, Takes
    <3>3. <<r, line>> \in raised /\ r \in Requests /\ r[1] \in InUse /\ stage[r] # 0
      BY PendingOf
    <3>4. link[r] # 0 /\ G0DmaLine(link[r]) = line
      BY <3>3 DEF DriversInv, OwnerInv, LineOk
    <3>5. board.dma \in Seq(Requests) /\ SameCore(r[1]) = InUse
      BY <3>3, G0Board DEF DriversInv
    <3>6. G0Kept(r) /\ link[r] \in DOMAIN board.dma /\ board.dma[link[r]] = r
      BY <3>3, <3>4, <3>5, IndexIn DEF DriversInv, LinkInv
    <3>7. G0Kept(board.dma[i])
      BY <2>1, <3>1, <3>4, <3>6 DEF G0LinesKept
    <3>8. board.dma[i] \in Requests /\ board.dma[i][1] \in Devices
      BY <3>1, <3>5, RequestPairs
    <3>9. board.dma[i][1] \in built
      <4>1. board.dma[i][1] \in InUse
        BY <3>7, <3>8 DEF G0Kept, G0NeedsChannel, DmaModes, InUse
      <4>2. r[1] # "exti"
        BY <3>6 DEF G0Kept, G0NeedsChannel, G0Uarts, G0Spis, G0I2s, G0Tims
      <4>3. InUse \subseteq built
        BY <2>1, <3>3, <3>5, <4>2 DEF DriversInv, QuietInv
      <4> QED BY <4>1, <4>3
    <3>10. Index(board.dma, board.dma[i]) # 0
      BY <3>1, <3>5, IndexIn
    <3> QED BY <3>1, <3>7, <3>8, <3>9, <3>10 DEF DriversInv, LinkInv
  <2>2. Falling("channel not set up")
    BY <1>2, <2>1 DEF Falling, Faults
  <2> QED BY <2>2 DEF DriverKinds
<1> QED BY <1>1, <1>2 DEF G0DmaIrqHandler

LEMMA G0UartHandler ==
  ASSUME family = "g0", DriversInv, NEW line, G0UartIrqHandler(line)
  PROVE  DriverKinds
<1> DEFINE ended == Pending(line)
           there == {d \in Using(G0Uarts) : G0UartIrqn(d) = line}
           given == G0ReceiveComplete(ended)
           touched == there \union G0TouchedBy(ended)
<1>1. HalServe(line, ended, {}, given, touched, G0Setups)
  BY DEF G0UartIrqHandler
<1>2. touched \in SUBSET InUse
  BY DEF G0TouchedBy, G0RxEvent, G0TxCplt, G0SpiRxCplt, G0TimCallback, Using
<1>3. ServeOk(line, ended, {}, given, touched)
  BY <1>2, G0ServeOk DEF G0UartIrqHandler
<1> HIDE DEF ended, given, touched
<1>4. Serving(line, ended, {}, given, touched) \/ Falling("reentry")
  BY <1>1, <1>3, Serves DEF Setups
<1> QED BY <1>4 DEF DriverKinds

(* The handler of TIM2 ends the burst, and with it nothing that is given   *)
(* to anyone; its interrupt is that of an update.                          *)
LEMMA G0TimHandler ==
  ASSUME family = "g0", DriversInv, G0TimIrqHandler("TIM2")
  PROVE  DriverKinds
<1> DEFINE line == "TIM2"
           served == Pending(line)
           ended == G0PeriodElapsed({r[1] : r \in served})
           touched == G0TimCallback(served)
           given == <<>>
<1>1. HalServe(line, ended, {}, given, touched, G0Setups) /\ Takes(line)
  BY DEF G0TimIrqHandler
<1>2. \A r \in served : r \in Requests /\ r[1] \in InUse /\ r = <<"tim2", "update">> /\ stage[r] # 0
  <2>1. \A r \in served : /\ <<r, line>> \in raised /\ r \in Requests
                          /\ r[1] \in InUse /\ stage[r] # 0
    BY PendingOf
  <2> QED BY <2>1 DEF DriversInv, OwnerInv, LineOk
<1>3. PICK r0 \in served : TRUE
  BY <1>1 DEF Takes
<1>4. ended \subseteq {<<"tim2", "burst">>} /\ stage[<<"tim2", "update">>] # 0
  BY <1>2, <1>3 DEF G0PeriodElapsed
<1>5. touched \subseteq InUse
  BY DEF G0TimCallback, Using
<1>6. ASSUME NEW d \in touched PROVE \E x \in raised : d \in SameCore(x[1][1])
  <2>1. SameCore(r0[1]) = InUse /\ <<r0, line>> \in raised
    BY <1>2, <1>3, PendingOf, G0Board DEF DriversInv
  <2> QED BY <1>5, <2>1
<1>7. DOMAIN given = {}
  OBVIOUS
<1> HIDE DEF served, ended, touched, given, line
<1>8. ServeOk(line, ended, {}, given, touched)
  BY <1>4, <1>5, <1>6, <1>7 DEF ServeOk, Received
<1>9. Serving(line, ended, {}, given, touched) \/ Falling("reentry")
  BY <1>1, <1>8, Serves DEF Setups
<1> QED BY <1>9 DEF DriverKinds

LEMMA G0ExtiHandler ==
  ASSUME family = "g0", DriversInv, NEW line \in G0ExtiLines, G0ExtiIrqHandler(line)
  PROVE  DriverKinds
<1> DEFINE ended == Pending(line)
           touched == {"exti"}
           given == <<>>
<1>1. HalServe(line, ended, {}, given, touched, G0Setups) /\ Takes(line)
  BY DEF G0ExtiIrqHandler
<1>2. \A r \in ended : <<r, line>> \in raised /\ r[1] = "exti" /\ r[1] \in InUse /\ r \in Requests
  <2>1. \A r \in ended : <<r, line>> \in raised /\ r[1] \in InUse /\ r \in Requests
    BY PendingOf
  <2> QED BY <2>1 DEF DriversInv, OwnerInv, LineOk
<1>3. PICK r0 \in ended : TRUE
  BY <1>1 DEF Takes
<1>4. touched \subseteq InUse /\ \A d \in touched : \E x \in raised : d \in SameCore(x[1][1])
  <2>1. "exti" \in InUse /\ <<r0, line>> \in raised /\ r0[1] = "exti"
    BY <1>2, <1>3
  <2>2. SameCore("exti") = InUse
    BY <2>1, G0Board DEF DriversInv
  <2> QED BY <2>1, <2>2
<1>5. DOMAIN given = {} /\ line \in lines
  BY <1>1 DEF Takes
<1> HIDE DEF ended, touched, given
<1>6. ServeOk(line, ended, {}, given, touched)
  <2>1. \A r \in Received : r \notin ended
    BY <1>2 DEF Received, G0Uarts
  <2> QED BY <1>2, <1>4, <1>5, <2>1 DEF ServeOk
<1>7. Serving(line, ended, {}, given, touched) \/ Falling("reentry")
  BY <1>1, <1>6, Serves DEF Setups
<1> QED BY <1>7 DEF DriverKinds

(* Only the updates of TIM3 come on the line that has no handler.          *)
LEMMA G0NoHandlerFalls ==
  ASSUME family = "g0", DriversInv, G0NoHandler
  PROVE  DriverKinds
<1>1. PICK r \in Pending("TIM3_TIM4") : TRUE
  BY DEF G0NoHandler, Takes
<1>2. <<r, "TIM3_TIM4">> \in raised /\ r[1] \in InUse
  BY <1>1, PendingOf
<1>3. LineOk(r, "TIM3_TIM4")
  BY <1>2 DEF DriversInv, OwnerInv
<1>4. r[1] = "tim3"
  BY <1>3 DEF LineOk
<1>5. Falling("no handler")
  BY <1>2, <1>4 DEF G0NoHandler, Falling, Faults
<1> QED BY <1>5 DEF DriverKinds

(* Every step on the STM32G0 is of one of the kinds. *)
LEMMA G0Kinds ==
  ASSUME family = "g0", DriversInv,
         G0Program \/ G0Edges \/ G0Interrupts \/ \E r \in Requests : G0Finish(r)
  PROVE  DriverKinds
<1>1. ASSUME NEW d, NEW b, Launching(d, b) PROVE DriverKinds
  BY <1>1 DEF DriverKinds
<1>2. ASSUME NEW d, Counting(d) PROVE DriverKinds
  BY <1>2 DEF DriverKinds
<1>3. ASSUME NEW reqs, Stopping(reqs) PROVE DriverKinds
  BY <1>3 DEF DriverKinds
<1>4. Flagging \/ Enabling => DriverKinds
  BY DEF DriverKinds
<1>5. CASE G0Program
  <2>1. ASSUME NEW d \in InUse, HalBegin(d) \/ HalEnd(d, G0Setups) PROVE DriverKinds
    BY <2>1 DEF DriverKinds, Setups
  <2>2. ASSUME NEW d, \/ G0Write(d) \/ G0SpiTransmit(d) \/ G0I2sTransmit(d)
                      \/ \E b \in Buffers : G0Receive(d, b) \/ G0SpiReceive(d, b)
        PROVE  DriverKinds
    BY <2>2, <1>1, G0TransferCalls
  <2>3. ASSUME NEW d, \/ G0TimStart(d) \/ G0TimStartWithInterrupt(d) \/ G0TimStop(d)
                      \/ G0I2sEndTransmit(d) \/ G0SetPeriod(d) \/ G0SetDmaData(d)
                      \/ G0TimEnableInterrupt(d) \/ G0TimDisableInterrupt(d)
        PROVE  DriverKinds
    BY <2>3, <1>1, <1>2, <1>3, <1>4, G0TimCalls
  <2>4. G0EnableExtiInterrupt => DriverKinds
    BY <1>4, G0ExtiSteps
  <2> QED BY <1>5, <2>1, <2>2, <2>3, <2>4 DEF G0Program
<1>6. CASE G0Edges
  BY <1>1, <1>6, G0ExtiSteps DEF G0Edges
<1>7. CASE G0Interrupts
  <2>1. \A i \in {1, 2, 4} : G0DmaLine(i) \in G0DmaLines
    BY DEF G0DmaLine, G0DmaLines
  <2>2. \A num \in {0, 2, 4} : G0ExtiIrqn(num) \in G0ExtiLines
    BY DEF G0ExtiIrqn, G0ExtiLines
  <2> QED BY <1>7, <2>1, <2>2, G0DmaHandler, G0UartHandler, G0TimHandler, G0ExtiHandler, G0NoHandlerFalls
          DEF G0Interrupts, G0DmaIrqs, G0UartIrqs
<1>8. CASE \E r \in Requests : G0Finish(r)
  BY <1>8, G0Finishing DEF DriverKinds
<1> QED BY <1>5, <1>6, <1>7, <1>8

-----------------------------------------------------------------------------
(* The calls of a core's program on the STM32H7. *)
LEMMA H7Calls ==
  ASSUME family = "h7", DriversInv, NEW d
  PROVE  /\ H7Write(d) => Launching(<<d, "tx">>, NoBuffer)
         /\ \A b \in Buffers : H7Receive(d, b) => Launching(<<d, "rx">>, b)
         /\ H7Transmit(d) => Launching(<<d, "tx">>, NoBuffer)
<1>1. ASSUME HalMayCall(d), NEW dir \in {"tx", "rx"},
             \/ d \in H7Uarts /\ board.mode[d] = "irq"
             \/ d \in H7Spis /\ board.mode[d] = "dma" /\ Index(board.dma, <<d, dir>>) # 0
      PROVE  MayStart(<<d, dir>>)
  BY <1>1 DEF HalMayCall, MayStart, StageOk
<1>2. ASSUME d \in Using(H7Spis), board.mode[d] = "dma"
      PROVE  /\ H7Transmits(board, d) => Index(board.dma, <<d, "tx">>) # 0
             /\ H7Receives(board, d) => Index(board.dma, <<d, "rx">>) # 0
  BY <1>2, H7Board DEF DriversInv, H7Compiles, H7ChannelEnabled, Using, InUse
<1>3. ASSUME H7Write(d) PROVE Launching(<<d, "tx">>, NoBuffer)
  <2>1. MayStart(<<d, "tx">>)
    BY <1>1, <1>3 DEF H7Write, H7MayCall, Using
  <2> QED BY <1>3, <2>1 DEF H7Write, Launching, HalStart, AnyBuffer, Received
<1>4. ASSUME NEW b \in Buffers, H7Receive(d, b) PROVE Launching(<<d, "rx">>, b)
  <2>1. MayStart(<<d, "rx">>)
    BY <1>1, <1>2, <1>4 DEF H7Receive, H7MayCall, Using
  <2> QED BY <1>4, <2>1 DEF H7Receive, Launching, HalReceive, HalStart, AnyBuffer, Using, InUse
<1>5. ASSUME H7Transmit(d) PROVE Launching(<<d, "tx">>, NoBuffer)
  <2>1. MayStart(<<d, "tx">>)
    BY <1>1, <1>2, <1>5 DEF H7Transmit, H7MayCall, Using
  <2> QED BY <1>5, <2>1 DEF H7Transmit, Launching, HalStart, AnyBuffer, Received
<1> QED BY <1>3, <1>4, <1>5

(* Whatever is under way on the STM32H7 has its clocks, and the line of    *)
(* its next interrupt on its own core.                                     *)
LEMMA H7Hears ==
  ASSUME family = "h7", DriversInv, NEW r \in Requests, stage[r] # 0
  PROVE  /\ r[1] \in InUse /\ r[1] \in clocked
         /\ r[1] \in H7Spis => H7ChannelClock(r) \in clocked
         /\ H7GetDmaRequestId(r) = HwRequest(r)
         /\ Listened(r, H7Line(r))
<1> DEFINE d == r[1]
           i == Index(board.dma, r)
<1>1. /\ d \in built /\ d \in InUse /\ d \in Devices /\ r[2] \in {"tx", "rx"}
      /\ \/ d \in H7Uarts /\ board.mode[d] = "irq"
         \/ d \in H7Spis /\ board.mode[d] = "dma" /\ i # 0
  BY RequestPairs DEF DriversInv, HalInv, StageInv, StageOk
<1>2. H7Wired(d, clocked, lines)
  BY <1>1 DEF DriversInv, WiredInv
<1>3. d \in clocked /\ H7GetDmaRequestId(r) = HwRequest(r)
  BY <1>1, <1>2 DEF H7Wired, H7GetDmaRequestId, HwRequest, H7Uarts, H7Spis
<1>4. CASE d \in H7Uarts
  <2>1. d \notin H7Spis /\ H7Line(r) = H7UartIrqn(d) /\ <<Core(d), H7UartIrqn(d)>> \in lines
    BY <1>1, <1>2, <1>4 DEF H7Line, H7Wired, H7Uarts, H7Spis
  <2>2. H7UartIrqn(d) \in H7UartHandlers \union H7Unhandled
    BY <1>4 DEF H7UartIrqn, H7Uarts, H7UartHandlers, H7Unhandled
  <2> QED BY <1>1, <1>3, <2>1, <2>2 DEF Listened, H7Owned
<1>5. CASE d \in H7Spis
  <2>1. d \notin H7Uarts /\ board.mode[d] = "dma" /\ i # 0
    BY <1>1, <1>5 DEF H7Uarts, H7Spis
  <2>2. i \in DOMAIN board.dma /\ board.dma[i] = r
    <3>1. board.dma \in Seq(Requests)
      BY H7Board DEF DriversInv
    <3> QED BY <2>1, <3>1, IndexIn
  <2>3. PICK c \in Controllers : board.mode[c] # "off" /\ board.core[c] = board.core[d]
    BY <1>1, <2>1, BoardsAssumption DEF DriversInv, BoardInv, DmaModes
  <2>4. c \in built /\ Core(c) = Core(d)
    <3>1. c \in Controllers \cap SameCore(d)
      BY <2>3, RequestsAssumption DEF InUse, SameCore
    <3> QED BY <1>1, <2>1, <2>3, <3>1 DEF DriversInv, ControllersInv, DmaModes, Core
  <2>5. H7Wired(c, clocked, lines)
    BY <2>4 DEF DriversInv, WiredInv
  <2>6. /\ H7ChannelClock(r) \in clocked /\ <<Core(d), H7ChannelLine(r)>> \in lines
        /\ H7Owned(Core(d), H7ChannelLine(r))
    <3>1. CASE H7IsBdmaChannel(r)
      <4>1. i \in H7BdmaChannels /\ H7ChannelClock(r) = "bdma" /\ H7ChannelLine(r) = H7BdmaIrqn(i)
        BY <2>2, <3>1 DEF H7BdmaChannels, H7ChannelClock, H7ChannelLine, H7BdmaChannel
      <4>2. "bdma" \in clocked /\ <<Core(d), H7BdmaIrqn(i)>> \in lines
        BY <2>3, <2>4, <2>5, <4>1 DEF H7Wired
      <4>3. H7BdmaChannelInUseForCurrentCore(Core(d), H7BdmaIrqn(i))
        BY <2>2, <4>1 DEF H7BdmaChannelInUseForCurrentCore
      <4> QED BY <4>1, <4>2, <4>3 DEF H7Owned
    <3>2. CASE ~H7IsBdmaChannel(r)
      <4>1. /\ i \in H7DmaChannels /\ H7ChannelLine(r) = H7DmaIrqn(i)
            /\ H7ChannelClock(r) = IF H7Place(H7DmaChannels, i) <= 8 THEN "dma1" ELSE "dma2"
        BY <2>2, <3>2 DEF H7DmaChannels, H7ChannelClock, H7ChannelLine, H7DmaChannel
      <4>2. H7ChannelClock(r) \in clocked /\ <<Core(d), H7DmaIrqn(i)>> \in lines
        BY <2>3, <2>4, <2>5, <4>1 DEF H7Wired
      <4>3. H7DmaChannelInUseForCurrentCore(Core(d), H7DmaIrqn(i))
        BY <2>2, <4>1 DEF H7DmaChannelInUseForCurrentCore
      <4> QED BY <4>1, <4>2, <4>3 DEF H7Owned
    <3> QED BY <3>1, <3>2
  <2>7. <<Core(d), H7SpiIrqn(d)>> \in lines /\ H7Owned(Core(d), H7SpiIrqn(d))
    <3>1. H7SpiIrqn(d) \in H7SpiHandlers
      BY <1>5 DEF H7SpiIrqn, H7Spis, H7SpiHandlers
    <3> QED BY <1>2, <1>5, <2>1, <3>1 DEF H7Wired, H7Owned
  <2>8. H7Line(r) = IF stage[r] = 1 THEN H7ChannelLine(r) ELSE H7SpiIrqn(d)
    BY <2>1 DEF H7Line
  <2> QED BY <1>1, <1>3, <2>6, <2>7, <2>8 DEF Listened
<1> QED BY <1>1, <1>4, <1>5

LEMMA H7Finishing ==
  ASSUME family = "h7", DriversInv, NEW r \in Requests, H7Finish(r)
  PROVE  \E line : Finishing(r, line)
<1>1. r[1] \in InUse /\ HwFinish(r, H7Line(r))
  BY DEF H7Finish
<1>2. stage[r] # 0 /\ r = <<r[1], r[2]>>
  BY <1>1, RequestPairs DEF HwFinish
<1>3. r[1] \in H7Uarts \/ (r[1] \in H7Spis /\ Index(board.dma, r) # 0)
  BY <1>2 DEF DriversInv, StageInv, StageOk
<1>4. LineOk(r, H7Line(r))
  <2> USE H7Hears, <1>2
  <2>1. CASE r[1] \in H7Uarts
    BY <2>1, H7LinesDiffer DEF H7Line, LineOk
  <2>2. CASE r[1] \in H7Spis /\ stage[r] # 1
    <3>1. r[1] \notin H7Uarts
      BY <2>2 DEF H7Uarts, H7Spis
    <3> QED BY <2>2, <3>1, H7LinesDiffer DEF H7Line, LineOk
  <2>3. CASE r[1] \in H7Spis /\ stage[r] = 1
    <3> DEFINE i == Index(board.dma, r)
    <3>1. r[1] \notin H7Uarts /\ i # 0
      BY <1>3, <2>3 DEF H7Uarts, H7Spis
    <3>2. i \in DOMAIN board.dma /\ board.dma[i] = r
      <4>1. board.dma \in Seq(Requests)
        BY H7Board DEF DriversInv
      <4> QED BY <3>1, <4>1, IndexIn
    <3>3. H7Line(r) = IF H7IsBdmaChannel(r) THEN H7BdmaIrqn(i) ELSE H7DmaIrqn(i)
      BY <2>3, <3>1 DEF H7Line, H7ChannelLine, H7BdmaChannel, H7DmaChannel
    <3>4. IF H7IsBdmaChannel(r) THEN i \in H7BdmaChannels ELSE i \in H7DmaChannels
      BY <3>2 DEF H7BdmaChannels, H7DmaChannels
    <3>5. board \in H7Boards
      BY H7Board DEF DriversInv
    <3>6. H7Line(r) \in H7ChannelIrqns
      BY <3>3, <3>4, <3>5, H7ChannelLines
    <3> QED BY <3>6, H7LinesDiffer DEF LineOk
  <2> QED BY <1>3, <2>1, <2>2, <2>3
<1> QED BY <1>1, <1>4 DEF Finishing

LEMMA H7HandledLines ==
  /\ \A line \in H7UartHandlers : \E e \in H7Uarts : line = H7UartIrqn(e)
  /\ \A line \in H7SpiHandlers : \E e \in H7Spis : line = H7SpiIrqn(e)
<1>1. /\ H7UartIrqn("usart1") = "USART1" /\ H7UartIrqn("usart2") = "USART2"
      /\ H7UartIrqn("usart3") = "USART3" /\ H7UartIrqn("uart4") = "UART4"
      /\ H7UartIrqn("uart5") = "UART5" /\ H7UartIrqn("lpuart1") = "LPUART1"
  BY DEF H7UartIrqn
<1>2. /\ H7SpiIrqn("spi1") = "SPI1" /\ H7SpiIrqn("spi2") = "SPI2"
      /\ H7SpiIrqn("spi3") = "SPI3" /\ H7SpiIrqn("spi4") = "SPI4"
      /\ H7SpiIrqn("spi5") = "SPI5" /\ H7SpiIrqn("spi6") = "SPI6"
  BY DEF H7SpiIrqn
<1> QED BY <1>1, <1>2 DEF H7UartHandlers, H7SpiHandlers, H7Uarts, H7Spis

(* A core serves a UART or an SPI of its own. *)
LEMMA H7ServesOwn ==
  ASSUME family = "h7", DriversInv, NEW core \in Cores, NEW line \in H7UartHandlers \union H7SpiHandlers,
         H7Takes(core, line), NEW d \in InUse, Core(d) = core
  PROVE  \E x \in raised : d \in SameCore(x[1][1])
<1>1. PICK x \in raised : x[2] = line
  BY DEF H7Takes, H7Pending
<1>2. <<core, line>> \in lines
  BY DEF H7Takes, H7Pending
<1>3. LineOk(x[1], line) /\ x[1] \in Requests /\ x[1][1] \in InUse
  BY <1>1 DEF DriversInv, OwnerInv, RaisedInv
<1>4. Core(x[1][1]) = core
  <2>1. CASE \E e \in H7Uarts : line = H7UartIrqn(e)
    BY <1>2, <1>3, <2>1 DEF DriversInv, H7LinesInv, LineOk
  <2>2. CASE \E e \in H7Spis : line = H7SpiIrqn(e)
    BY <1>2, <1>3, <2>2 DEF DriversInv, H7LinesInv, LineOk
  <2> QED BY <2>1, <2>2, H7HandledLines
<1> QED BY <1>1, <1>3, <1>4 DEF SameCore, Core

(* The handlers of the STM32H7.  No burst is ever under way there. *)
LEMMA H7NoBurst ==
  ASSUME family = "h7", DriversInv, NEW r \in Requests, stage[r] # 0
  PROVE  r[2] \in {"tx", "rx"}
BY DEF DriversInv, StageInv, StageOk

LEMMA H7ChannelHandlers ==
  ASSUME family = "h7", DriversInv, NEW core,
         H7DmaIrqHandler(core) \/ H7BdmaIrqHandler(core)
  PROVE  DriverKinds
<1> DEFINE given == <<>>
<1>1. PICK line : HalGoOn(line, {}, Pending(line), given, {}, H7Setups)
  BY DEF H7DmaIrqHandler, H7BdmaIrqHandler
<1>2. DOMAIN given = {}
  OBVIOUS
<1> HIDE DEF given
<1>3. ServeOk(line, {}, Pending(line), given, {})
  BY <1>2 DEF ServeOk
<1>4. Serving(line, {}, Pending(line), given, {})
  BY <1>1, <1>3 DEF Serving, Setups
<1> QED BY <1>4 DEF DriverKinds

LEMMA H7SpiHandler ==
  ASSUME family = "h7", DriversInv, NEW core \in Cores, H7SpiIrqHandler(core)
  PROVE  DriverKinds
<1>1. PICK line \in H7SpiHandlers :
        /\ H7Takes(core, line)
        /\ HalServe(line, Pending(line), {}, H7RxComplete(Pending(line)), H7SpiCplt(core), H7Setups)
  BY DEF H7SpiIrqHandler
<1> DEFINE ended == Pending(line)
           given == H7RxComplete(ended)
           touched == H7SpiCplt(core)
<1>2. touched \subseteq InUse /\ \A d \in touched : \E x \in raised : d \in SameCore(x[1][1])
  BY <1>1, H7ServesOwn DEF H7SpiCplt, Using
<1>3. \A r \in ended : r \in Requests /\ stage[r] # 0 /\ r[2] \in {"tx", "rx"}
  BY PendingOf, H7NoBurst
<1>4. /\ DOMAIN given = {r[1] : r \in {x \in ended : x[2] = "rx"}}
      /\ \A d \in DOMAIN given : given[d] = rx_buf[d]
  BY DEF H7RxComplete
<1> HIDE DEF given, touched, ended
<1>5. ASSUME NEW r \in Received
      PROVE  (r \in ended <=> r[1] \in DOMAIN given) /\ (r \in ended => stage[r] # 0)
  <2>1. r \in Requests /\ r[2] = "rx"
    BY DEF Received
  <2>2. r \in ended => r[1] \in DOMAIN given
    BY <1>4, <2>1
  <2>3. ASSUME r[1] \in DOMAIN given PROVE r \in ended
    <3>1. PICK x \in ended : x[2] = "rx" /\ x[1] = r[1]
      BY <1>4, <2>3
    <3>2. x = r
      <4>1. x = <<x[1], x[2]>> /\ r = <<r[1], r[2]>>
        BY <1>3, <2>1, RequestPairs
      <4> QED BY <2>1, <3>1, <4>1
    <3> QED BY <3>2
  <2> QED BY <1>3, <2>2, <2>3
<1>6. ServeOk(line, ended, {}, given, touched)
  BY <1>2, <1>3, <1>4, <1>5 DEF ServeOk
<1>7. HalServe(line, ended, {}, given, touched, Setups)
  BY <1>1 DEF Setups, ended, given, touched
<1>8. Serving(line, ended, {}, given, touched) \/ Falling("reentry")
  BY <1>6, <1>7, Serves
<1> QED BY <1>8 DEF DriverKinds

LEMMA H7UartHandler ==
  ASSUME family = "h7", DriversInv, NEW core \in Cores, H7UartIrqHandler(core)
  PROVE  DriverKinds
<1> DEFINE given == <<>>
           touched == H7UartTxCplt(core)
<1>1. PICK line \in H7UartHandlers :
        /\ H7Takes(core, line)
        /\ HalServe(line, Pending(line), {}, given, touched, H7Setups)
  BY DEF H7UartIrqHandler
<1> DEFINE ended == Pending(line)
<1>2. touched \subseteq InUse /\ \A d \in touched : \E x \in raised : d \in SameCore(x[1][1])
  BY <1>1, H7ServesOwn DEF H7UartTxCplt, Using
<1>3. \A r \in ended : r \in Requests /\ stage[r] # 0 /\ r[2] \in {"tx", "rx"} /\ r[1] \in H7Uarts
  <2>1. \A r \in ended : <<r, line>> \in raised /\ r \in Requests /\ stage[r] # 0 /\ r[2] \in {"tx", "rx"}
    BY PendingOf, H7NoBurst
  <2>2. PICK e \in H7Uarts : line = H7UartIrqn(e)
    BY <1>1, H7HandledLines
  <2> QED BY <2>1, <2>2 DEF DriversInv, OwnerInv, LineOk
<1>4. DOMAIN given = {}
  OBVIOUS
<1> HIDE DEF given, touched, ended
<1>5. ServeOk(line, ended, {}, given, touched)
  <2>1. \A r \in Received : r \notin ended
    BY <1>3 DEF Received, H7Uarts, H7Spis
  <2> QED BY <1>2, <1>3, <1>4, <2>1 DEF ServeOk
<1>6. HalServe(line, ended, {}, given, touched, Setups)
  BY <1>1 DEF Setups, ended
<1>7. Serving(line, ended, {}, given, touched) \/ Falling("reentry")
  BY <1>5, <1>6, Serves
<1> QED BY <1>7 DEF DriverKinds

(* Only transmissions of three UARTs come on the lines without a handler.  *)
LEMMA H7NoHandlerFalls ==
  ASSUME family = "h7", DriversInv, NEW core \in Cores, H7NoHandler(core)
  PROVE  DriverKinds
<1>1. PICK d \in {"usart6", "uart7", "uart8"} : H7Takes(core, H7UartIrqn(d))
  <2>1. PICK line \in {"USART6", "UART7", "UART8"} : H7Takes(core, line)
    BY DEF H7NoHandler
  <2>2. /\ H7UartIrqn("usart6") = "USART6" /\ H7UartIrqn("uart7") = "UART7"
        /\ H7UartIrqn("uart8") = "UART8"
    BY DEF H7UartIrqn
  <2> QED BY <2>1, <2>2
<1>2. PICK x \in raised : x[2] = H7UartIrqn(d)
  BY <1>1 DEF H7Takes, H7Pending
<1>3. d \in H7Uarts /\ d \notin H7Spis
  BY DEF H7Uarts, H7Spis
<1>4. x[1] \in Requests /\ x[1][1] \in InUse /\ stage[x[1]] # 0 /\ LineOk(x[1], x[2])
  BY DEF DriversInv, RaisedInv, OwnerInv
<1>5. x[1][1] = d
  BY <1>2, <1>3, <1>4 DEF LineOk
<1>6. board.mode[d] = "irq"
  BY <1>3, <1>4, <1>5 DEF DriversInv, StageInv, StageOk
<1>7. Falling("no handler")
  BY <1>4, <1>5, <1>6 DEF H7NoHandler, Falling, Faults, Using
<1> QED BY <1>7 DEF DriverKinds

(* Every step on the STM32H7 is of one of the kinds. *)
LEMMA H7Kinds ==
  ASSUME family = "h7", DriversInv, NEW core \in Cores,
         H7Program(core) \/ H7Interrupts(core) \/ \E r \in Requests : H7Finish(r)
  PROVE  DriverKinds
<1>1. ASSUME NEW r, NEW b, Launching(r, b) PROVE DriverKinds
  BY <1>1 DEF DriverKinds
<1>2. CASE H7Program(core)
  <2>1. PICK d \in InUse : \/ H7Begin(d) \/ H7End(d) \/ H7Write(d) \/ H7Transmit(d)
                           \/ \E b \in Buffers : H7Receive(d, b)
    BY <1>2 DEF H7Program
  <2>2. CASE H7Begin(d) \/ H7End(d)
    BY <2>2 DEF H7Begin, H7End, DriverKinds, Setups
  <2> QED BY <2>1, <2>2, <1>1, H7Calls
<1>3. CASE H7Interrupts(core)
  <2>1. H7NoHandler(core) => DriverKinds
    BY H7NoHandlerFalls
  <2> QED BY <1>3, <2>1, H7ChannelHandlers, H7SpiHandler, H7UartHandler DEF H7Interrupts
<1>4. CASE \E r \in Requests : H7Finish(r)
  BY <1>4, H7Finishing DEF DriverKinds
<1> QED BY <1>2, <1>3, <1>4

-----------------------------------------------------------------------------
(* What depends on the program only stays as it is.                        *)
LEMMA Fixed ==
  ASSUME UNCHANGED <<board, family>>
  PROVE  /\ InUse' = InUse /\ (BoardInv => BoardInv') /\ Received' = Received
         /\ Quiet' <=> Quiet
         /\ G0LinesKept' <=> G0LinesKept
         /\ \A d : SameCore(d)' = SameCore(d)
         /\ \A r : G0Kept(r)' <=> G0Kept(r)
         /\ \A p : Neglected(p)' <=> Neglected(p)
         /\ PinsOf("exti", {"in"})' = PinsOf("exti", {"in"})
         /\ H7DmaChannels' = H7DmaChannels /\ H7BdmaChannels' = H7BdmaChannels
         /\ \A i : H7DmaIrqn(i)' = H7DmaIrqn(i) /\ H7BdmaIrqn(i)' = H7BdmaIrqn(i)
         /\ \A d : Core(d)' = Core(d)
<1>1. \A r : G0Kept(r)' <=> G0Kept(r)
  BY DEF G0Kept, G0NeedsChannel
<1>2. InUse' = InUse
  BY DEF InUse
<1>3. \A d : SameCore(d)' = SameCore(d)
  BY <1>2 DEF SameCore
<1>4. BoardInv => BoardInv'
  BY DEF BoardInv, G0Compiles, H7Compiles, G0NeedsChannel, G0ChannelEnabled, H7ChannelEnabled,
         H7Transmits, H7Receives, G0Signals, H7Signals
<1>5. Received' = Received /\ (Quiet' <=> Quiet) /\ \A p : Neglected(p)' <=> Neglected(p)
  BY DEF Received, Quiet, Neglected
<1>6. G0LinesKept' <=> G0LinesKept
  BY <1>1 DEF G0LinesKept
<1>7. /\ PinsOf("exti", {"in"})' = PinsOf("exti", {"in"}) /\ \A d : Core(d)' = Core(d)
      /\ H7DmaChannels' = H7DmaChannels /\ H7BdmaChannels' = H7BdmaChannels
  BY DEF PinsOf, H7DmaChannels, H7BdmaChannels, Core
<1>8. \A i : H7DmaIrqn(i)' = H7DmaIrqn(i) /\ H7BdmaIrqn(i)' = H7BdmaIrqn(i)
  BY <1>7 DEF H7DmaIrqn, H7BdmaIrqn
<1> QED BY <1>1, <1>2, <1>3, <1>4, <1>5, <1>6, <1>7, <1>8

(* How clocks, lines, channels and pins change. *)
Constructing(devices) == devices \in SUBSET InUse /\ HalConstruct(devices, Setups)

LEMMA SetSteps ==
  ASSUME DriversInv, DriverKinds
  PROVE  /\ board' = board
         /\ (\E devices : Constructing(devices)) \/ Enabling \/ UNCHANGED setVars
<1>1. board' = board
  BY DEF DriverKinds, HalBegin, HalEnd, Launching, Counting, Stopping, Flagging, Enabling,
         Finishing, HwFinish, Serving, HalGoOn, Falling, HalDown
<1>2. ASSUME NEW d \in InUse, HalEnd(d, Setups) PROVE \E devices : Constructing(devices)
  <2>1. {d} \union (WithDma({d}) \ built) \in SUBSET InUse
    BY DEF WithDma
  <2> QED BY <1>2, <2>1 DEF HalEnd, Constructing
<1>3. ASSUME NEW line, NEW ended, NEW next, NEW given, NEW touched,
             Serving(line, ended, next, given, touched)
      PROVE  \E devices : Constructing(devices)
  <2>1. WithDma(touched \ built) \ built \in SUBSET InUse
    BY <1>3 DEF WithDma, Serving, ServeOk
  <2> QED BY <1>3, <2>1 DEF Serving, HalGoOn, Constructing
<1>4. ASSUME NEW r, NEW b, Launching(r, b) \/ Finishing(r, b) \/ Counting(r) \/ Stopping(r)
                           \/ Falling(r) \/ HalBegin(r) \/ Flagging
      PROVE  UNCHANGED setVars
  BY <1>4 DEF Launching, Counting, Stopping, Flagging, Finishing, HwFinish, Falling, HalDown, HalBegin
<1> QED BY <1>1, <1>2, <1>3, <1>4 DEF DriverKinds

LEMMA SetTypes ==
  ASSUME DriversInv, DriverKinds, family' = family
  PROVE  /\ built \subseteq built' /\ built' \subseteq InUse /\ clocked \subseteq clocked'
         /\ link' \in [Requests -> 0..Len(board.dma)] /\ DOMAIN pins' = Pins
<1>1. board.dma \in Seq(Requests)
  <2>1. CASE board = NoBoard
    BY <2>1 DEF NoBoard
  <2>2. CASE family = "g0"
    BY <2>2, G0Board DEF DriversInv
  <2>3. CASE family = "h7"
    BY <2>3, H7Board DEF DriversInv
  <2> QED BY <2>1, <2>2, <2>3 DEF DriversInv, BoardInv
<1>2. CASE \E devices : Constructing(devices)
  <2>1. PICK devices : Constructing(devices)
    BY <1>2
  <2>2. \A r \in Requests : Index(board.dma, r) \in 0..Len(board.dma)
    BY <1>1, IndexIn
  <2> QED BY <2>1, <2>2 DEF Constructing, HalConstruct, DriversInv, HalInv
<1>3. CASE Enabling
  BY <1>3 DEF Enabling, DriversInv, HalInv
<1>4. CASE UNCHANGED setVars
  BY <1>4 DEF setVars, DriversInv, HalInv
<1> QED BY <1>2, <1>3, <1>4, SetSteps

(* No line is disabled but a timer's, by the program. *)
LEMMA LinesKept ==
  ASSUME DriversInv, DriverKinds
  PROVE  /\ family = "g0" => lines \subseteq lines' \union G0TimLines
         /\ family = "h7" => lines \subseteq lines'
<1>1. (\E devices : Constructing(devices)) => lines \subseteq lines'
  BY DEF Constructing, HalConstruct
<1>2. Enabling => family = "g0" /\ lines \subseteq lines' \union G0TimLines
  BY DEF Enabling
<1>3. UNCHANGED setVars => lines \subseteq lines'
  BY DEF setVars
<1> QED BY <1>1, <1>2, <1>3, SetSteps

(* What is constructed is wired, and what was wired stays so.              *)
LEMMA G0WiredStays ==
  ASSUME family = "g0", DriversInv, DriverKinds, family' = family, NEW d, G0Wired(d, clocked, lines)
  PROVE  G0Wired(d, clocked', lines')
<1>1. /\ G0UartIrqn(d) \notin G0TimLines
      /\ \A i : G0DmaLine(i) \notin G0TimLines /\ G0ExtiIrqn(i) \notin G0TimLines
  BY DEF G0UartIrqn, G0TimLines, G0DmaLine, G0ExtiIrqn
<1> QED BY <1>1, LinesKept, SetTypes DEF G0Wired

LEMMA WiredStep ==
  ASSUME DriversInv, DriverKinds, family' = family
  PROVE  WiredInv'
<1>1. board' = board
  BY SetSteps
<1>2. ASSUME NEW d, G0Wired(d, clocked', lines') PROVE G0Wired(d, clocked, lines)'
  BY <1>1, <1>2, Fixed DEF G0Wired
<1>3. ASSUME NEW d, H7Wired(d, clocked', lines') PROVE H7Wired(d, clocked, lines)'
  BY <1>1, <1>3, Fixed DEF H7Wired
<1>4. CASE \E devices : Constructing(devices)
  <2>1. PICK devices \in SUBSET InUse : HalConstruct(devices, Setups)
    BY <1>4 DEF Constructing
  <2>2. /\ built' = built \union devices
        /\ clocked' = clocked \union UNION {Setups[d].clocks : d \in devices}
        /\ lines' = lines \union UNION {Setups[d].irqs : d \in devices}
    BY <2>1 DEF HalConstruct
  <2>3. CASE family = "g0"
    <3>1. \A d \in devices : G0Wires(Setups[d], d)
      BY <2>1, <2>3, G0Board, G0AllWire DEF DriversInv, Setups
    <3>2. ASSUME NEW d \in built' PROVE G0Wired(d, clocked', lines')
      <4>1. CASE d \in built
        BY <2>3, <4>1, G0WiredStays DEF DriversInv, WiredInv
      <4>2. CASE d \in devices
        BY <2>2, <3>1, <4>2 DEF G0Wires, G0Wired
      <4> QED BY <2>2, <4>1, <4>2
    <3>3. ASSUME "exti" \in InUse, "exti" \in clocked' PROVE G0Wired("exti", clocked', lines')
      <4>1. CASE "exti" \in clocked
        BY <2>3, <3>3, <4>1, G0WiredStays DEF DriversInv, WiredInv
      <4>2. CASE "exti" \notin clocked
        <5>1. PICK d \in devices : "exti" \in Setups[d].clocks
          BY <2>2, <3>3, <4>2
        <5>2. d = "exti"
          BY <3>1, <3>3, <5>1 DEF G0Wires, InUse
        <5> QED BY <2>2, <3>2, <5>2
      <4> QED BY <4>1, <4>2
    <3> QED BY <2>3, <3>2, <3>3, <1>1, <1>2, Fixed DEF WiredInv
  <2>4. CASE family = "h7"
    <3>1. \A d \in devices : H7Wired(d, Setups[d].clocks, Setups[d].irqs)
      BY <2>1, <2>4, H7Board, H7AllWire DEF DriversInv, Setups
    <3>2. ASSUME NEW d \in built' PROVE H7Wired(d, clocked', lines')
      <4>1. CASE d \in built
        <5>1. H7Wired(d, clocked, lines)
          BY <2>4, <4>1 DEF DriversInv, WiredInv
        <5> QED BY <2>2, <5>1 DEF H7Wired
      <4>2. CASE d \in devices
        <5>1. H7Wired(d, Setups[d].clocks, Setups[d].irqs)
          BY <3>1, <4>2
        <5>2. Setups[d].clocks \subseteq clocked' /\ Setups[d].irqs \subseteq lines'
          BY <2>2, <4>2
        <5> QED BY <5>1, <5>2 DEF H7Wired
      <4> QED BY <2>2, <4>1, <4>2
    <3> QED BY <2>4, <3>2, <1>3 DEF WiredInv
  <2>5. CASE family \notin {"g0", "h7"}
    BY <2>5 DEF WiredInv
  <2> QED BY <2>3, <2>4, <2>5
<1>5. CASE Enabling
  <2>1. family = "g0" /\ built' = built
    BY <1>5 DEF Enabling
  <2>2. \A d \in built' : G0Wired(d, clocked', lines')
    BY <2>1, G0WiredStays DEF DriversInv, WiredInv
  <2>3. "exti" \in InUse /\ "exti" \in clocked' => G0Wired("exti", clocked', lines')
    BY <1>5, <2>1, G0WiredStays DEF DriversInv, WiredInv, Enabling
  <2> QED BY <2>1, <2>2, <2>3, <1>1, <1>2, Fixed DEF WiredInv
<1>6. CASE UNCHANGED setVars
  <2>1. UNCHANGED <<built, clocked, lines>> /\ InUse' = InUse
    BY <1>1, <1>6, Fixed DEF setVars
  <2>2. /\ family = "g0" => \A d \in built : G0Wired(d, clocked', lines')
        /\ family = "g0" /\ "exti" \in InUse \cap clocked => G0Wired("exti", clocked', lines')
        /\ family = "h7" => \A d \in built : H7Wired(d, clocked', lines')
    BY <2>1 DEF DriversInv, WiredInv
  <2> QED BY <2>1, <2>2, <1>2, <1>3 DEF WiredInv
<1> QED BY <1>4, <1>5, <1>6, SetSteps

LEMMA ControllersStep ==
  ASSUME DriversInv, DriverKinds, family' = family
  PROVE  ControllersInv'
<1>1. board' = board /\ \A d : SameCore(d)' = SameCore(d)
  BY SetSteps, Fixed
<1> SUFFICES ASSUME NEW d \in built', board.mode[d] \in DmaModes,
                    NEW c \in Controllers \cap SameCore(d)
             PROVE  c \in built'
  BY <1>1 DEF ControllersInv
<1>2. built \subseteq built' /\ built' \subseteq InUse
  BY SetTypes
<1>3. CASE d \in built
  BY <1>2, <1>3 DEF DriversInv, ControllersInv
<1>4. CASE d \notin built
  <2>1. c \in Controllers \cap InUse /\ d \in SameCore(c)
    BY <1>2 DEF SameCore
  <2>2. ASSUME NEW e \in InUse, HalEnd(e, Setups) PROVE c \in built'
    <3>1. built' = built \union {e} \union (WithDma({e}) \ built)
      BY <2>2 DEF HalEnd, HalConstruct
    <3>2. d = e \/ d \in WithDma({e})
      BY <1>4, <3>1
    <3>3. CASE d = e
      BY <2>1, <3>1, <3>3 DEF WithDma
    <3>4. CASE d # e
      <4>1. PICK a \in SameCore(d) \cap {e} : board.mode[a] \in DmaModes
        BY <3>2, <3>4 DEF WithDma
      <4>2. e \in SameCore(c)
        BY <2>1, <4>1 DEF SameCore
      <4> QED BY <2>1, <3>1, <4>1, <4>2 DEF WithDma
    <3> QED BY <3>3, <3>4
  <2>3. ASSUME NEW line, NEW ended, NEW next, NEW given, NEW touched,
               Serving(line, ended, next, given, touched)
        PROVE  c \in built'
    <3> DEFINE new == touched \ built
    <3>1. built' = built \union (WithDma(new) \ built)
      BY <2>3 DEF Serving, HalGoOn, HalConstruct
    <3>2. d \in WithDma(new)
      BY <1>4, <3>1
    <3> HIDE DEF new
    <3>3. CASE d \in new
      BY <2>1, <3>1, <3>3 DEF WithDma
    <3>4. CASE d \notin new
      <4>1. PICK a \in SameCore(d) \cap new : board.mode[a] \in DmaModes
        BY <3>2, <3>4 DEF WithDma
      <4>2. a \in SameCore(c)
        BY <2>1, <4>1 DEF SameCore
      <4> QED BY <2>1, <3>1, <4>1, <4>2 DEF WithDma
    <3> QED BY <3>3, <3>4
  <2>4. ASSUME NEW r, NEW b, Launching(r, b) \/ Finishing(r, b) \/ Counting(r) \/ Stopping(r)
                             \/ Falling(r) \/ HalBegin(r) \/ Flagging \/ Enabling
        PROVE  FALSE
    <3>1. built' = built
      BY <2>4 DEF Launching, Counting, Stopping, Flagging, Finishing, HwFinish, Falling, HalDown,
                  HalBegin, Enabling, setVars
    <3> QED BY <1>4, <3>1
  <2> QED BY <2>2, <2>3, <2>4 DEF DriverKinds
<1> QED BY <1>3, <1>4

LEMMA LinkStep ==
  ASSUME DriversInv, DriverKinds, family' = family
  PROVE  /\ LinkInv'
         /\ family = "g0" => \A r \in Requests : link[r] # 0 => link'[r] = link[r]
<1> SUFFICES ASSUME family = "g0"
             PROVE  /\ LinkInv'
                    /\ \A r \in Requests : link[r] # 0 => link'[r] = link[r]
  BY DEF LinkInv
<1>1. board' = board /\ \A r : G0Kept(r)' <=> G0Kept(r)
  BY SetSteps, Fixed
<1>2. \A r \in Requests :
        link'[r] = IF r[1] \in built' /\ G0Kept(r) THEN Index(board.dma, r) ELSE 0
  <2>1. CASE \E devices : Constructing(devices)
    <3>1. PICK devices \in SUBSET InUse : HalConstruct(devices, G0Setups)
      BY <2>1 DEF Constructing, Setups
    <3>2. \A d \in devices : \A r \in Requests :
            r \in G0Setups[d].links <=> r[1] = d /\ G0Kept(r)
      BY <3>1, G0Board, G0AllSetUp DEF DriversInv, G0SetsUp
    <3> QED BY <3>1, <3>2 DEF HalConstruct, DriversInv, LinkInv
  <2>2. CASE Enabling \/ UNCHANGED setVars
    BY <2>2 DEF Enabling, setVars, DriversInv, LinkInv
  <2> QED BY <2>1, <2>2, SetSteps
<1>3. \A r \in Requests : link[r] # 0 => link'[r] = link[r]
  BY <1>2, SetTypes DEF DriversInv, LinkInv
<1> QED BY <1>1, <1>2, <1>3 DEF LinkInv

LEMMA LinesStep ==
  ASSUME DriversInv, DriverKinds, family' = family
  PROVE  H7LinesInv'
<1> SUFFICES ASSUME family = "h7" PROVE H7LinesInv'
  BY DEF H7LinesInv
<1>1. board' = board /\ InUse' = InUse /\ \A d : Core(d)' = Core(d)
  BY SetSteps, Fixed DEF Core
<1>2. \A c \in Cores :
        /\ \A d \in H7Uarts : <<c, H7UartIrqn(d)>> \in lines' => d \in InUse /\ Core(d) = c
        /\ \A d \in H7Spis : <<c, H7SpiIrqn(d)>> \in lines' => d \in InUse /\ Core(d) = c
  <2>1. CASE \E devices : Constructing(devices)
    <3>1. PICK devices \in SUBSET InUse : HalConstruct(devices, H7Setups)
      BY <2>1 DEF Constructing, Setups
    <3>2. \A d \in devices : H7SetsUp(H7Setups[d], d)
      BY <3>1, H7Board, H7AllSetUp DEF DriversInv
    <3>3. \A x \in lines' : x \in lines \/ \E d \in devices : x \in H7Setups[d].irqs
      BY <3>1 DEF HalConstruct
    <3> QED BY <3>1, <3>2, <3>3 DEF H7SetsUp, DriversInv, H7LinesInv
  <2>2. CASE Enabling \/ UNCHANGED setVars
    BY <2>2 DEF Enabling, setVars, DriversInv, H7LinesInv
  <2> QED BY <2>1, <2>2, SetSteps
<1> QED BY <1>1, <1>2 DEF H7LinesInv

(* A pin has one use, so no constructor takes another device's.            *)
LEMMA PinsStep ==
  ASSUME DriversInv, DriverKinds, family' = family
  PROVE  PinsRouted'
<1>1. board' = board /\ \A p : Neglected(p)' <=> Neglected(p)
  BY SetSteps, Fixed
<1> SUFFICES ASSUME NEW p \in board.pinout, p.dev \in built' \ board.refused, ~Neglected(p)
             PROVE  pins'[p.pin] = <<p.dev, p.signal>> /\ Port(p.pin) \in clocked'
  BY <1>1 DEF PinsRouted
<1>2. CASE \E devices : Constructing(devices)
  <2>1. PICK devices \in SUBSET InUse : HalConstruct(devices, Setups)
    BY <1>2 DEF Constructing
  <2>2. /\ board.pinout \subseteq [dev : Devices, signal : STRING, pin : Pins]
        /\ \A q \in board.pinout : p.pin = q.pin => p = q
        /\ \A d \in devices : OwnPins(Setups[d], d) /\ (d \notin board.refused => AllPins(Setups[d], d))
    <3>1. family # "rtos"
      BY DEF DriversInv, BoardInv, NoBoard
    <3>2. CASE family = "g0"
      BY <2>1, <3>2, G0Board, G0AllSetUp DEF DriversInv, G0SetsUp, Setups
    <3>3. CASE family = "h7"
      BY <2>1, <3>3, H7Board, H7AllSetUp DEF DriversInv, H7SetsUp, Setups
    <3> QED BY <3>1, <3>2, <3>3 DEF DriversInv, BoardInv
  <2> DEFINE pinned == UNION {Setups[d].pinned : d \in devices}
  <2>3. \A x \in pinned : x[1] = p.pin => p.dev \in devices /\ x = SignalOf(p)
    BY <2>1, <2>2 DEF OwnPins
  <2>4. /\ p.pin \in Pins
        /\ pins'[p.pin] = IF \E x \in pinned : x[1] = p.pin
                          THEN (CHOOSE x \in pinned : x[1] = p.pin)[2] ELSE pins[p.pin]
        /\ clocked' = clocked \union UNION {Setups[d].clocks : d \in devices}
        /\ built' = built \union devices
    BY <2>1, <2>2 DEF HalConstruct
  <2> HIDE DEF pinned
  <2>5. CASE p.dev \in devices
    <3>1. SignalOf(p) \in UNION {Setups[d].pinned : d \in devices}
            /\ Port(p.pin) \in UNION {Setups[d].clocks : d \in devices}
      BY <2>2, <2>5 DEF AllPins
    <3>2. SignalOf(p) \in pinned /\ SignalOf(p)[1] = p.pin /\ SignalOf(p)[2] = <<p.dev, p.signal>>
      BY <3>1 DEF pinned, SignalOf
    <3>3. (CHOOSE x \in pinned : x[1] = p.pin) = SignalOf(p)
      BY <2>3, <3>2
    <3> QED BY <2>4, <3>1, <3>2, <3>3
  <2>6. CASE p.dev \notin devices
    <3>1. p.dev \in built \ board.refused
      BY <2>4, <2>6
    <3> QED BY <2>3, <2>4, <2>6, <3>1 DEF DriversInv, PinsRouted
  <2> QED BY <2>5, <2>6
<1>3. CASE Enabling \/ UNCHANGED setVars
  BY <1>3 DEF Enabling, setVars, DriversInv, PinsRouted
<1> QED BY <1>2, <1>3, SetSteps

-----------------------------------------------------------------------------
(* What is under way, and whose interrupts are pending. *)
LEMMA OkStays ==
  ASSUME DriversInv, DriverKinds, family' = family, NEW r \in Requests
  PROVE  /\ StageOk(r) => StageOk(r)'
         /\ \A line : LineOk(r, line) => LineOk(r, line)'
<1>1. board' = board
  BY SetSteps
<1>2. (G0Channelless(r)' <=> G0Channelless(r)) /\ Index(board.dma, r)' = Index(board.dma, r)
  BY <1>1 DEF G0Channelless, Index
<1>3. family = "g0" /\ link[r] # 0 => link'[r] = link[r]
  BY LinkStep
<1>4. StageOk(r) => StageOk(r)'
  BY <1>1, <1>2, <1>3, SetTypes, Fixed DEF StageOk
<1>5. ASSUME NEW line, Listened(r, line) PROVE Listened(r, line)'
  <2>1. H7Owned(Core(r[1]), line) => H7Owned(Core(r[1]), line)'
    BY <1>1, Fixed
       DEF H7Owned, H7DmaChannelInUseForCurrentCore, H7BdmaChannelInUseForCurrentCore
  <2> QED BY <1>1, <1>5, <2>1, LinesKept, Fixed DEF Listened
<1>6. \A line : LineOk(r, line) => LineOk(r, line)'
  BY <1>3, <1>5 DEF LineOk
<1> QED BY <1>4, <1>6

LEMMA ExceptIn ==
  ASSUME NEW S, NEW T, NEW f \in [S -> T], NEW k, NEW v \in T
  PROVE  [f EXCEPT ![k] = v] \in [S -> T]
OBVIOUS

(* Every step leaves these in order. *)
IoInv ==
    /\ spoilt \subseteq Devices
    /\ stage \in [Requests -> 0..2] /\ filled \in [Requests -> AnyBuffer]
    /\ rx_buf \in [Devices -> AnyBuffer] /\ handed \in [Devices -> AnyBuffer]

LEMMA IoStep ==
  ASSUME DriversInv, DriverKinds
  PROVE  IoInv'
<1>1. IoInv
  BY DEF DriversInv, HalInv, IoInv
<1>2. ASSUME NEW r, NEW b, Launching(r, b) PROVE IoInv'
  BY <1>1, <1>2 DEF Launching, IoInv
<1>3. ASSUME NEW d, Counting(d) PROVE IoInv'
  <2>1. stage' \in [Requests -> 0..2]
    <3>1. stage' = [[stage EXCEPT ![<<d, "count">>] = 1] EXCEPT ![<<d, "update">>] = 1]
      BY <1>3 DEF Counting
    <3>2. stage \in [Requests -> 0..2] /\ 1 \in 0..2
      BY <1>1 DEF IoInv
    <3>3. [stage EXCEPT ![<<d, "count">>] = 1] \in [Requests -> 0..2]
      BY <3>2, ExceptIn
    <3>4. [[stage EXCEPT ![<<d, "count">>] = 1] EXCEPT ![<<d, "update">>] = 1] \in [Requests -> 0..2]
      BY <3>2, <3>3, ExceptIn
    <3> QED BY <3>1, <3>4
  <2> QED BY <1>1, <1>3, <2>1 DEF Counting, IoInv
<1>4. ASSUME NEW reqs, Stopping(reqs) PROVE IoInv'
  BY <1>1, <1>4 DEF Stopping, HalStop, IoInv
<1>5. ASSUME NEW line, NEW ended, NEW next, NEW given, NEW touched,
             Serving(line, ended, next, given, touched)
      PROVE  IoInv'
  <2>1. \A d \in Devices : (IF d \in DOMAIN given THEN given[d] ELSE handed[d]) \in AnyBuffer
    BY <1>1, <1>5 DEF Serving, ServeOk, IoInv
  <2> QED BY <1>1, <1>5, <2>1 DEF Serving, HalGoOn, IoInv
<1>6. ASSUME \/ UNCHANGED ioVars
             \/ UNCHANGED <<stage, rx_buf, filled, spoilt, handed>>
      PROVE  IoInv'
  BY <1>1, <1>6 DEF ioVars, IoInv
<1>7. ASSUME NEW r, NEW line, HalBegin(r) \/ HalEnd(r, Setups) \/ Flagging \/ Enabling
                              \/ Finishing(r, line) \/ Falling(r)
      PROVE  UNCHANGED <<stage, rx_buf, filled, spoilt, handed>>
  BY <1>7 DEF HalBegin, HalEnd, Flagging, Enabling, Finishing, HwFinish, Falling, HalDown, ioVars
<1> QED BY <1>2, <1>3, <1>4, <1>5, <1>6, <1>7 DEF DriverKinds

LEMMA RaisedStep ==
  ASSUME DriversInv, DriverKinds
  PROVE  RaisedInv'
<1>1. board' = board /\ InUse' = InUse
  BY SetSteps DEF InUse
<1>2. ASSUME \A x \in raised' : /\ x = <<x[1], x[2]>> /\ x[1] \in Requests
                                /\ x[1][1] \in InUse /\ stage'[x[1]] # 0
      PROVE  RaisedInv'
  BY <1>1, <1>2 DEF RaisedInv
<1>3. /\ \A x \in raised : /\ x = <<x[1], x[2]>> /\ x[1] \in Requests
                           /\ x[1][1] \in InUse /\ stage[x[1]] # 0
      /\ stage \in [Requests -> 0..2]
  BY DEF DriversInv, RaisedInv, HalInv
<1>4. ASSUME NEW r, NEW b, Launching(r, b) PROVE RaisedInv'
  BY <1>2, <1>3, <1>4 DEF Launching
<1>5. ASSUME NEW d, Counting(d) PROVE RaisedInv'
  BY <1>2, <1>3, <1>5 DEF Counting
<1>6. ASSUME NEW reqs, Stopping(reqs) PROVE RaisedInv'
  BY <1>2, <1>3, <1>6 DEF Stopping, HalStop
<1>7. ASSUME Flagging PROVE RaisedInv'
  BY <1>2, <1>3, <1>7 DEF Flagging
<1>8. ASSUME NEW r, NEW line, Finishing(r, line) PROVE RaisedInv'
  BY <1>2, <1>3, <1>8 DEF Finishing, HwFinish
<1>9. ASSUME NEW line, NEW ended, NEW next, NEW given, NEW touched,
             Serving(line, ended, next, given, touched)
      PROVE  RaisedInv'
  <2>1. raised' = {x \in raised : x[1] \notin ended /\ x[2] # line}
    BY <1>9 DEF Serving, HalGoOn
  <2>2. \A r \in Requests : stage[r] # 0 /\ r \notin ended => stage'[r] # 0
    BY <1>9 DEF Serving, HalGoOn
  <2> QED BY <1>2, <1>3, <2>1, <2>2
<1>10. ASSUME NEW d, HalBegin(d) \/ HalEnd(d, Setups) \/ Enabling \/ Falling(d)
       PROVE  RaisedInv'
  <2>1. UNCHANGED <<raised, stage>>
    BY <1>10 DEF HalBegin, HalEnd, Enabling, Falling, HalDown, ioVars
  <2> QED BY <1>2, <1>3, <2>1
<1> QED BY <1>4, <1>5, <1>6, <1>7, <1>8, <1>9, <1>10 DEF DriverKinds

LEMMA StageStep ==
  ASSUME DriversInv, DriverKinds, family' = family
  PROVE  StageInv'
<1>1. \A r \in Requests : stage[r] # 0 => StageOk(r)
  BY DEF DriversInv, StageInv
<1> SUFFICES ASSUME NEW r \in Requests, stage'[r] # 0, stage[r] = 0 PROVE StageOk(r)
  BY <1>1, OkStays DEF StageInv
<1>2. stage \in [Requests -> 0..2]
  BY DEF DriversInv, HalInv
<1>3. ASSUME NEW s, NEW b, Launching(s, b) PROVE StageOk(r)
  BY <1>2, <1>3 DEF Launching, MayStart
<1>4. ASSUME NEW d, Counting(d) PROVE StageOk(r)
  BY <1>2, <1>4 DEF Counting, MayStart
<1>5. ASSUME NEW reqs, Stopping(reqs) PROVE FALSE
  BY <1>2, <1>5 DEF Stopping, HalStop
<1>6. ASSUME NEW line, NEW ended, NEW next, NEW given, NEW touched,
             Serving(line, ended, next, given, touched)
      PROVE  FALSE
  <2>1. r \in next
    BY <1>2, <1>6 DEF Serving, HalGoOn
  <2> QED BY <1>6, <2>1, PendingOf DEF Serving, ServeOk
<1>7. ASSUME NEW s, NEW line, HalBegin(s) \/ HalEnd(s, Setups) \/ Flagging \/ Enabling
                              \/ Finishing(s, line) \/ Falling(s)
      PROVE  FALSE
  BY <1>7 DEF HalBegin, HalEnd, Flagging, Enabling, Finishing, HwFinish, Falling, HalDown, ioVars
<1> QED BY <1>3, <1>4, <1>5, <1>6, <1>7 DEF DriverKinds

LEMMA OwnerStep ==
  ASSUME DriversInv, DriverKinds, family' = family
  PROVE  OwnerInv'
<1>1. \A x \in raised : x[1] \in Requests /\ LineOk(x[1], x[2])
  BY DEF DriversInv, OwnerInv, RaisedInv
<1>2. ASSUME NEW x \in raised', x \notin raised PROVE x[1] \in Requests /\ LineOk(x[1], x[2])
  <2>1. ASSUME NEW r, NEW line, Finishing(r, line) PROVE x[1] \in Requests /\ LineOk(x[1], x[2])
    BY <1>2, <2>1 DEF Finishing, HwFinish
  <2>2. ASSUME NEW r, NEW b, Launching(r, b) \/ Counting(r) \/ Stopping(r) \/ Falling(r)
                             \/ HalBegin(r) \/ HalEnd(r, Setups) \/ Flagging \/ Enabling
        PROVE  FALSE
    BY <1>2, <2>2 DEF Launching, Counting, Stopping, HalStop, Falling, HalDown, HalBegin, HalEnd,
                      Flagging, Enabling, ioVars
  <2>3. ASSUME NEW line, NEW ended, NEW next, NEW given, NEW touched,
               Serving(line, ended, next, given, touched)
        PROVE  FALSE
    BY <1>2, <2>3 DEF Serving, HalGoOn
  <2> QED BY <2>1, <2>2, <2>3 DEF DriverKinds
<1> QED BY <1>1, <1>2, OkStays DEF OwnerInv

-----------------------------------------------------------------------------
(* A quiet program: all is constructed before anything starts, and what is *)
(* being constructed was not constructed for another device.               *)
LEMMA QuietServing ==
  ASSUME DriversInv, Quiet, NEW line, NEW ended, NEW next, NEW given, NEW touched,
         Serving(line, ended, next, given, touched)
  PROVE  built' = built /\ building' = building
<1>1. touched \ built = {}
  <2> SUFFICES ASSUME NEW d \in touched PROVE d \in built
    OBVIOUS
  <2>1. PICK x \in raised : d \in SameCore(x[1][1])
    BY DEF Serving, ServeOk
  <2> QED BY <2>1, QuietRequests DEF DriversInv, RaisedInv
<1>2. WithDma(touched \ built) \ built = {}
  BY <1>1 DEF WithDma
<1> QED BY <1>2 DEF Serving, HalGoOn, HalConstruct

LEMMA QuietBuilding ==
  ASSUME DriversInv, DriverKinds, Quiet
  PROVE  /\ building' \cap built' = {}
         /\ \A d, e \in building' : board.core[d] = board.core[e] => d = e
<1>1. /\ building \cap built = {} /\ building \subseteq InUse
      /\ \A d, e \in building : board.core[d] = board.core[e] => d = e
  BY DEF DriversInv, QuietInv, HalInv
<1>2. ASSUME NEW d \in InUse, HalBegin(d)
      PROVE  /\ building' \cap built' = {}
             /\ \A a, e \in building' : board.core[a] = board.core[e] => a = e
  <2>1. \A e \in building : board.core[e] # board.core[d]
    BY <1>1, <1>2 DEF HalBegin, SameCore
  <2> QED BY <1>1, <1>2, <2>1 DEF HalBegin, setVars
<1>3. ASSUME NEW d \in InUse, HalEnd(d, Setups)
      PROVE  /\ building' \cap built' = {}
             /\ \A a, e \in building' : board.core[a] = board.core[e] => a = e
  <2>1. \A c \in WithDma({d}) : c = d \/ board.core[d] = board.core[c]
    BY DEF WithDma, SameCore
  <2>2. /\ built' = built \union {d} \union (WithDma({d}) \ built)
        /\ building' = building \ {d} /\ d \in building
    BY <1>3 DEF HalEnd, HalConstruct
  <2> QED BY <1>1, <2>1, <2>2
<1>4. ASSUME NEW r, NEW b, Launching(r, b) \/ Finishing(r, b) \/ Counting(r) \/ Stopping(r)
                           \/ Falling(r) \/ Flagging \/ Enabling
      PROVE  UNCHANGED <<built, building>>
  BY <1>4 DEF Launching, Counting, Stopping, Flagging, Enabling, Finishing, HwFinish, Falling,
              HalDown, setVars
<1> QED BY <1>1, <1>2, <1>3, <1>4, QuietServing DEF DriverKinds

LEMMA QuietStep ==
  ASSUME DriversInv, DriverKinds, family' = family
  PROVE  QuietInv'
<1>1. board' = board /\ (Quiet' <=> Quiet) /\ \A d : SameCore(d)' = SameCore(d)
  BY SetSteps, Fixed
<1>2. ASSUME board.careful, NEW r \in Requests, stage'[r] # 0, r[1] # "exti"
      PROVE  SameCore(r[1]) \subseteq built'
  <2>1. stage \in [Requests -> 0..2] /\ built \subseteq built'
    BY SetTypes DEF DriversInv, HalInv
  <2>2. CASE stage[r] # 0
    BY <1>2, <2>1, <2>2 DEF DriversInv, QuietInv
  <2>3. CASE stage[r] = 0
    <3>1. ASSUME NEW s, NEW b, Launching(s, b) PROVE SameCore(r[1]) \subseteq built
      BY <1>2, <2>1, <2>3, <3>1 DEF Launching, MayStart
    <3>2. ASSUME NEW d, Counting(d) PROVE SameCore(r[1]) \subseteq built
      BY <1>2, <2>1, <2>3, <3>2 DEF Counting, MayStart
    <3>3. ASSUME NEW reqs, Stopping(reqs) PROVE FALSE
      BY <1>2, <2>1, <2>3, <3>3 DEF Stopping, HalStop
    <3>4. ASSUME NEW line, NEW ended, NEW next, NEW given, NEW touched,
                 Serving(line, ended, next, given, touched)
          PROVE  FALSE
      <4>1. r \in next
        BY <1>2, <2>1, <2>3, <3>4 DEF Serving, HalGoOn
      <4> QED BY <2>3, <3>4, <4>1, PendingOf DEF Serving, ServeOk
    <3>5. ASSUME NEW s, NEW line, HalBegin(s) \/ HalEnd(s, Setups) \/ Flagging \/ Enabling
                                  \/ Finishing(s, line) \/ Falling(s)
          PROVE  FALSE
      BY <1>2, <2>3, <3>5 DEF HalBegin, HalEnd, Flagging, Enabling, Finishing, HwFinish, Falling,
                              HalDown, ioVars
    <3> QED BY <2>1, <3>1, <3>2, <3>3, <3>4, <3>5 DEF DriverKinds
  <2> QED BY <2>2, <2>3
<1> QED BY <1>1, <1>2, QuietBuilding DEF QuietInv

(* The buffer that is remembered is handed out with the request it is for. *)
LEMMA BufferStep ==
  ASSUME DriversInv, DriverKinds, family' = family
  PROVE  BufferInv'
<1>1. board' = board /\ Received' = Received
  BY SetSteps, Fixed
<1> SUFFICES ASSUME NEW r \in Received
             PROVE  \/ r[1] \in spoilt'
                    \/ IF stage'[r] = 0 THEN handed'[r[1]] = filled'[r]
                       ELSE rx_buf'[r[1]] = filled'[r]
  BY <1>1 DEF BufferInv
<1>2. /\ \/ r[1] \in spoilt
         \/ IF stage[r] = 0 THEN handed[r[1]] = filled[r] ELSE rx_buf[r[1]] = filled[r]
      /\ r = <<r[1], "rx">> /\ r \in Requests /\ r[1] \in Devices
  BY RequestPairs DEF DriversInv, BufferInv, Received
<1>3. /\ stage \in [Requests -> 0..2] /\ filled \in [Requests -> AnyBuffer]
      /\ rx_buf \in [Devices -> AnyBuffer] /\ handed \in [Devices -> AnyBuffer]
  BY DEF DriversInv, HalInv
<1> DEFINE Goal == \/ r[1] \in spoilt'
                   \/ IF stage'[r] = 0 THEN handed'[r[1]] = filled'[r]
                      ELSE rx_buf'[r[1]] = filled'[r]
<1>4. ASSUME NEW s, NEW b, Launching(s, b) PROVE Goal
  <2>1. handed' = handed
    BY <1>4 DEF Launching
  <2>2. CASE s = r
    <3>1. /\ rx_buf' = [rx_buf EXCEPT ![r[1]] = b]
          /\ spoilt' = IF stage[r] # 0 THEN spoilt \union {r[1]}
                       ELSE IF stage' # stage THEN spoilt \ {r[1]} ELSE spoilt
      BY <1>4, <2>2 DEF Launching
    <3>2. CASE stage[r] # 0
      BY <3>1, <3>2
    <3>3. CASE stage[r] = 0 /\ UNCHANGED <<stage, filled>>
      BY <1>2, <2>1, <3>1, <3>3
    <3>4. CASE stage' = [stage EXCEPT ![r] = 1] /\ filled' = [filled EXCEPT ![r] = b]
      BY <1>2, <1>3, <3>1, <3>4
    <3> QED BY <1>4, <2>2, <3>2, <3>3, <3>4 DEF Launching
  <2>3. CASE s # r
    <3>1. stage'[r] = stage[r] /\ filled'[r] = filled[r]
      BY <1>2, <1>3, <1>4, <2>3 DEF Launching
    <3>2. rx_buf'[r[1]] = rx_buf[r[1]] /\ (r[1] \in spoilt => r[1] \in spoilt')
      <4>1. CASE UNCHANGED <<rx_buf, spoilt>>
        BY <4>1
      <4>2. CASE /\ s = <<s[1], "rx">>
                 /\ rx_buf' = [rx_buf EXCEPT ![s[1]] = b]
                 /\ spoilt' = IF stage[s] # 0 THEN spoilt \union {s[1]}
                              ELSE IF stage' # stage THEN spoilt \ {s[1]} ELSE spoilt
        <5>1. r[1] # s[1]
          BY <1>2, <2>3, <4>2
        <5> QED BY <1>2, <1>3, <4>2, <5>1
      <4> QED BY <1>4, <4>1, <4>2 DEF Launching
    <3> QED BY <1>2, <2>1, <3>1, <3>2
  <2> QED BY <2>2, <2>3
<1>5. ASSUME NEW d, Counting(d) PROVE Goal
  <2>1. r # <<d, "count">> /\ r # <<d, "update">>
    BY <1>2
  <2>2. stage'[r] = stage[r]
    BY <1>2, <1>3, <1>5, <2>1 DEF Counting
  <2> QED BY <1>2, <1>5, <2>2 DEF Counting
<1>6. ASSUME NEW reqs, Stopping(reqs) PROVE Goal
  <2>1. r \notin reqs
    BY <1>2, <1>6 DEF Stopping
  <2> QED BY <1>2, <1>6, <2>1 DEF Stopping, HalStop
<1>7. ASSUME NEW line, NEW ended, NEW next, NEW given, NEW touched,
             Serving(line, ended, next, given, touched)
      PROVE  Goal
  <2>1. /\ r \in ended <=> r[1] \in DOMAIN given
        /\ r \in ended => stage[r] # 0
        /\ r[1] \in DOMAIN given => given[r[1]] = rx_buf[r[1]]
        /\ r \in next => stage[r] # 0
    BY <1>7, PendingOf DEF Serving, ServeOk
  <2>2. /\ stage'[r] = IF r \in ended THEN 0 ELSE IF r \in next THEN 2 ELSE stage[r]
        /\ handed'[r[1]] = IF r[1] \in DOMAIN given THEN given[r[1]] ELSE handed[r[1]]
        /\ filled' = filled /\ rx_buf' = rx_buf /\ spoilt' = spoilt
    BY <1>2, <1>7 DEF Serving, HalGoOn
  <2> QED BY <1>2, <2>1, <2>2
<1>8. ASSUME NEW s, NEW line, HalBegin(s) \/ HalEnd(s, Setups) \/ Flagging \/ Enabling
                              \/ Finishing(s, line) \/ Falling(s)
      PROVE  Goal
  <2>1. UNCHANGED <<stage, handed, filled, spoilt, rx_buf>>
    BY <1>8 DEF HalBegin, HalEnd, Flagging, Enabling, Finishing, HwFinish, Falling, HalDown, ioVars
  <2> QED BY <1>2, <2>1
<1> QED BY <1>4, <1>5, <1>6, <1>7, <1>8 DEF DriverKinds

LEMMA FaultStep ==
  ASSUME DriversInv, DriverKinds, family' = family
  PROVE  FaultsExplained'
<1>1. /\ board' = board /\ InUse' = InUse /\ (G0LinesKept' <=> G0LinesKept)
      /\ FaultsExplained
  BY SetSteps, Fixed DEF DriversInv
<1>2. hung' = hung \/ \E cause : Falling(cause)
  BY DEF DriverKinds, HalBegin, HalEnd, Launching, Counting, Stopping, Flagging, Enabling,
         Finishing, HwFinish, Serving, HalGoOn
<1>3. ASSUME NEW cause, Falling(cause) PROVE FaultsExplained'
  BY <1>1, <1>3 DEF Falling, HalDown, FaultsExplained, Quiet, Using
<1> QED BY <1>1, <1>2, <1>3 DEF FaultsExplained, Using

-----------------------------------------------------------------------------
(* The invariant, step by step. *)
LEMMA KindsPreserve ==
  ASSUME DriversInv, DriverKinds, family' = family, UNCHANGED transferVars
  PROVE  DriversInv'
<1>1. BoardInv'
  BY SetSteps, Fixed DEF DriversInv
<1>2. HalInv'
  <2>1. board' = board /\ InUse' = InUse
    BY SetSteps, Fixed
  <2>2. building' \subseteq InUse
    BY DEF DriverKinds, HalBegin, HalEnd, Launching, Counting, Stopping, Flagging, Enabling,
           Finishing, HwFinish, Serving, HalGoOn, Falling, HalDown, DriversInv, HalInv
  <2>3. hung' = hung \/ hung' \in Faults
    BY DEF DriverKinds, HalBegin, HalEnd, Launching, Counting, Stopping, Flagging, Enabling,
           Finishing, HwFinish, Serving, HalGoOn, Falling, HalDown
  <2>4. hung' \in Faults \union {"none"}
    BY <2>3 DEF DriversInv, HalInv
  <2> QED BY <2>1, <2>2, <2>4, SetTypes, IoStep DEF HalInv, IoInv
<1>3. TransfersInv'
  BY NextTransfers DEF DriversInv
<1> QED BY <1>1, <1>2, <1>3, RaisedStep, LinkStep, StageStep, OwnerStep, LinesStep, QuietStep,
           BufferStep, FaultStep, PinsStep, WiredStep, ControllersStep DEF DriversInv

(* The steps of the boot, of the notifications and of the RTOS. *)
LEMMA OthersPreserve ==
  ASSUME DriversInv, UNCHANGED <<family, halVars>>, [TransfersNext]_transferVars
  PROVE  DriversInv'
<1>1. /\ UNCHANGED <<board, building, built, clocked, lines, link, pins>>
      /\ UNCHANGED <<stage, raised, rx_buf, filled, spoilt, handed, hung>>
  BY DEF halVars, setVars, ioVars
<1>2. BoardInv' /\ InUse' = InUse /\ Received' = Received
  BY <1>1, Fixed DEF DriversInv
<1>3. HalInv' /\ RaisedInv'
  BY <1>1, <1>2 DEF DriversInv, HalInv, RaisedInv
<1>4. LinkInv' /\ FaultsExplained' /\ PinsRouted'
  BY <1>1, <1>2, Fixed DEF DriversInv, LinkInv, FaultsExplained, PinsRouted, Index, Using
<1>5. StageInv' /\ OwnerInv'
  <2>1. StageInv'
    BY <1>1, <1>2 DEF DriversInv, StageInv, StageOk, G0Channelless, Index
  <2>2. ASSUME NEW r, NEW line, Listened(r, line) PROVE Listened(r, line)'
    <3>1. H7Owned(Core(r[1]), line) => H7Owned(Core(r[1]), line)'
      BY <1>1, Fixed
         DEF H7Owned, H7DmaChannelInUseForCurrentCore, H7BdmaChannelInUseForCurrentCore
    <3> QED BY <1>1, <2>2, <3>1, Fixed DEF Listened
  <2>3. OwnerInv'
    BY <1>1, <2>2 DEF DriversInv, OwnerInv, LineOk
  <2> QED BY <2>1, <2>3
<1>6. H7LinesInv'
  BY <1>1, <1>2 DEF DriversInv, H7LinesInv, Core
<1>7. QuietInv' /\ BufferInv'
  BY <1>1, Fixed DEF DriversInv, QuietInv, BufferInv
<1>8. TransfersInv'
  BY NextTransfers DEF DriversInv
<1>9. WiredInv' /\ ControllersInv'
  BY <1>1, <1>2, Fixed DEF DriversInv, WiredInv, G0Wired, H7Wired, ControllersInv
<1> QED BY <1>2, <1>3, <1>4, <1>5, <1>6, <1>7, <1>8, <1>9 DEF DriversInv

(* A step is one of the drivers or leaves their state alone. *)
LEMMA NextIsKind ==
  ASSUME DriversInv, [DriversNext]_driverVars
  PROVE  /\ family' = family
         /\ \/ DriverKinds /\ UNCHANGED transferVars
            \/ UNCHANGED halVars /\ [TransfersNext]_transferVars
<1>1. ASSUME \/ G0(G0Program) \/ G0(G0Edges) \/ G0(G0Interrupts)
             \/ \E r \in Requests : G0(G0Finish(r))
      PROVE  DriverKinds /\ UNCHANGED <<family, transferVars>>
  BY <1>1, G0Kinds DEF G0
<1>2. ASSUME NEW c \in Cores,
             \/ H7(H7DriverStep(c)) \/ H7(H7Interrupts(c)) \/ \E r \in Requests : H7(H7Finish(r))
      PROVE  DriverKinds /\ UNCHANGED <<family, transferVars>>
  BY <1>2, H7Kinds DEF H7, H7DriverStep
<1>3. ASSUME H7Core(BootNext) \/ \E c \in Cores : H7Core(NotifyNext(c))
      PROVE  UNCHANGED <<family, halVars, transferVars>>
  BY <1>3 DEF H7Core
<1>4. ASSUME Rtos(TransfersNext) PROVE UNCHANGED <<family, halVars>> /\ TransfersNext
  BY <1>4 DEF Rtos
<1>5. ASSUME UNCHANGED driverVars PROVE UNCHANGED <<family, halVars, transferVars>>
  BY <1>5 DEF driverVars
<1>6. "cm7" \in Cores
  BY DEF Cores
<1> QED BY <1>1, <1>2, <1>3, <1>4, <1>5, <1>6 DEF DriversNext, Finish

LEMMA DriversPreserve ==
  ASSUME DriversInv, [DriversNext]_driverVars
  PROVE  DriversInv'
BY NextIsKind, KindsPreserve, OthersPreserve

LEMMA DriversStart ==
  ASSUME DriversInit
  PROVE  DriversInv
<1>1. PICK boards : HalInit(boards) /\ BoardInv
  BY DEF DriversInit, HalInit, BoardInv
<1>2. TransfersInv
  BY InitTransfers DEF DriversInit
<1>3. board.dma \in Seq(Requests)
  <2>1. CASE board = NoBoard
    BY <2>1 DEF NoBoard
  <2>2. CASE board # NoBoard
    BY <1>1, <2>2, BoardsAssumption DEF BoardInv
  <2> QED BY <2>1, <2>2
<1>4. /\ built = {} /\ building = {} /\ clocked = {} /\ lines = {} /\ raised = {} /\ hung = "none"
      /\ \A r \in Requests : link[r] = 0 /\ stage[r] = 0 /\ filled[r] = NoBuffer
      /\ \A d \in Devices : handed[d] = NoBuffer
  BY <1>1 DEF HalInit
<1>5. HalInv
  BY <1>1, <1>3 DEF HalInit, HalInv, AnyBuffer, Faults
<1>6. RaisedInv /\ LinkInv /\ StageInv /\ OwnerInv /\ H7LinesInv /\ QuietInv
  BY <1>4 DEF RaisedInv, LinkInv, StageInv, OwnerInv, H7LinesInv, QuietInv
<1>7. BufferInv
  BY <1>4, RequestPairs DEF BufferInv, Received
<1>8. FaultsExplained /\ PinsRouted /\ WiredInv /\ ControllersInv
  BY <1>4 DEF FaultsExplained, PinsRouted, WiredInv, ControllersInv
<1> QED BY <1>1, <1>2, <1>5, <1>6, <1>7, <1>8 DEF DriversInv

(* What the drivers' properties rest on, in every reachable state, of      *)
(* every board that compiles: DriversInv.                                  *)
THEOREM DriversInvariant == DriversSafe => []DriversInv
<1>1. DriversInit => DriversInv
  BY DriversStart
<1>2. DriversInv /\ [DriversNext]_driverVars => DriversInv'
  BY DriversPreserve
<1> QED BY <1>1, <1>2, PTL DEF DriversSafe

-----------------------------------------------------------------------------
(* What can bring a processor down, for every program that compiles: an    *)
(* unfinished constructor is entered only in a program that is not careful *)
(* or has pin interrupts; an empty channel is served only on the STM32G0,  *)
(* in a program that is not careful or lists an unused channel beside a    *)
(* used one, pin interrupts or not; and the default handler is reached     *)
(* only with a device in use on one of the four lines without a handler.   *)
THEOREM FaultsAreExplained == DriversSafe => []FaultsExplained
<1>1. DriversInv => FaultsExplained
  BY DEF DriversInv
<1> QED BY <1>1, DriversInvariant, PTL

(* A constructed driver has the pins that are not Neglected, unless the HAL *)
(* refused its timer: whatever else is constructed, and by whichever       *)
(* interrupt handler, for a pin has one use.                               *)
THEOREM PinsAreRouted == DriversSafe => []PinsRouted
<1>1. DriversInv => PinsRouted
  BY DEF DriversInv
<1> QED BY <1>1, DriversInvariant, PTL

(* A receive callback is handed the buffer that was filled, in every       *)
(* program, careful or not, until a Receive of the same device comes while *)
(* one is under way: that one overwrites rx_buf before the HAL refuses it. *)
THEOREM CallbacksOwnBuffer == DriversSafe => []CallbackBuffer
<1>1. DriversInv => CallbackBuffer
  BY DEF DriversInv, BufferInv, Received, CallbackBuffer
<1> QED BY <1>1, DriversInvariant, PTL

(* Nothing that a driver starts waits for ever for want of wiring: its     *)
(* peripheral and its channel have clocks, the channel is fed by the       *)
(* request that paces it, the line of its next interrupt, and of the one   *)
(* that is pending, is enabled on the core whose handler claims it.        *)
TransfersHeard ==
    /\ \A x \in raised : Listened(x[1], x[2])
    /\ \A r \in Requests :
         stage[r] # 0 =>
           /\ r[1] \in clocked
           /\ family = "g0" => /\ link[r] # 0 => G0GetDmaRequestId(r) = HwRequest(r)
                               /\ \A line \in G0Lines(r) : Listened(r, line)
           /\ family = "h7" => /\ r[1] \in H7Spis => H7ChannelClock(r) \in clocked
                               /\ H7GetDmaRequestId(r) = HwRequest(r)
                               /\ Listened(r, H7Line(r))

(* For every program that compiles, whether or not it is careful and in    *)
(* whichever order its drivers are constructed, by the program or within a *)
(* handler: what is under way is heard.  It is what RequestsComplete and   *)
(* StormsEnd need of the drivers; the rest is fairness.                    *)
THEOREM TransfersAreHeard == DriversSafe => []TransfersHeard
<1>1. DriversInv => TransfersHeard
  <2> SUFFICES ASSUME DriversInv PROVE TransfersHeard
    OBVIOUS
  <2>1. \A x \in raised : Listened(x[1], x[2])
    BY DEF DriversInv, OwnerInv, LineOk
  <2>2. ASSUME NEW r \in Requests, stage[r] # 0, family = "g0"
        PROVE  /\ r[1] \in clocked
               /\ link[r] # 0 => G0GetDmaRequestId(r) = HwRequest(r)
               /\ \A line \in G0Lines(r) : Listened(r, line)
    BY <2>2, G0Hears
  <2>3. ASSUME NEW r \in Requests, stage[r] # 0, family = "h7"
        PROVE  /\ r[1] \in clocked
               /\ r[1] \in H7Spis => H7ChannelClock(r) \in clocked
               /\ H7GetDmaRequestId(r) = HwRequest(r)
               /\ Listened(r, H7Line(r))
    BY <2>3, H7Hears
  <2>4. ASSUME NEW r \in Requests, stage[r] # 0 PROVE family \in {"g0", "h7"}
    <3>1. r[1] \in InUse
      BY <2>4 DEF DriversInv, HalInv, StageInv, StageOk
    <3> QED BY <3>1 DEF DriversInv, BoardInv, NoBoard, InUse
  <2> QED BY <2>1, <2>2, <2>3, <2>4 DEF TransfersHeard
<1> QED BY <1>1, DriversInvariant, PTL

(* Storms.  A core of the STM32H7 that takes an interrupt which is for the *)
(* other core to serve does not serve it and takes it again.  The other    *)
(* core has that interrupt pending as well, and the first one of the       *)
(* vector table that it has pending is its own: it is not stormed, too,    *)
(* and the cores do not wait for each other.  Lines without a handler      *)
(* bring a core down and are left out.                                     *)
StormsAreServed ==
    family = "h7" =>
      \A c \in Cores : \A line \in H7Pending(c) :
        H7Takes(c, line) /\ ~H7Owned(c, line) /\ line \notin H7Unhandled
          => /\ line \in H7Pending(Other(c)) /\ H7Owned(Other(c), line)
             /\ \E first \in H7Pending(Other(c)) : H7Takes(Other(c), first)
             /\ \A first \in H7Pending(Other(c)) :
                  H7Takes(Other(c), first)
                    => H7Owned(Other(c), first) \/ first \in H7Unhandled

Occurs(list, x) == \E i \in DOMAIN list : list[i] = x
LEMMA InInterval ==
  ASSUME NEW S, NEW a \in Seq(S), NEW m \in Nat, NEW n \in Nat, m <= n, n <= Len(a)
  PROVE  /\ SubSeq(a, m + 1, n) \in Seq(S) /\ Len(SubSeq(a, m + 1, n)) = n - m
         /\ \A k \in 1..(n - m) : SubSeq(a, m + 1, n)[k] = a[k + m]
OBVIOUS

LEMMA InConcatenation ==
  ASSUME NEW S, NEW a \in Seq(S), NEW b \in Seq(S), NEW x
  PROVE  Occurs(a, x) \/ Occurs(b, x) => Occurs(a \o b, x)
<1>1. /\ a \o b \in Seq(S) /\ DOMAIN (a \o b) = 1..(Len(a) + Len(b))
      /\ DOMAIN a = 1..Len(a) /\ DOMAIN b = 1..Len(b) /\ Len(a) \in Nat /\ Len(b) \in Nat
  OBVIOUS
<1>2. ASSUME NEW i \in DOMAIN a PROVE i \in DOMAIN (a \o b) /\ (a \o b)[i] = a[i]
  BY <1>1, <1>2
<1>3. ASSUME NEW i \in DOMAIN b
      PROVE  Len(a) + i \in DOMAIN (a \o b) /\ (a \o b)[Len(a) + i] = b[i]
  BY <1>1, <1>3
<1> QED BY <1>2, <1>3, Zenon DEF Occurs

(* The lines of all channels have a place in the vector table.             *)
H7Names ==
    {"DMA1_Stream0", "DMA1_Stream1", "DMA1_Stream2", "DMA1_Stream3", "DMA1_Stream4",
     "DMA1_Stream5", "DMA1_Stream6", "DMA1_Stream7", "DMA2_Stream0", "DMA2_Stream1",
     "DMA2_Stream2", "DMA2_Stream3", "DMA2_Stream4", "DMA2_Stream5", "DMA2_Stream6",
     "DMA2_Stream7", "BDMA_Channel0", "BDMA_Channel1", "BDMA_Channel2", "BDMA_Channel3",
     "BDMA_Channel4", "BDMA_Channel5", "BDMA_Channel6", "BDMA_Channel7",
     "SPI1", "SPI2", "SPI3", "SPI4", "SPI5", "SPI6", "USART1", "USART2", "USART3", "UART4",
     "UART5", "USART6", "UART7", "UART8", "LPUART1"}
LEMMA ChannelsInVector ==
  /\ H7Vector \in Seq(H7Names)
  /\ \A line \in H7ChannelIrqns : Occurs(H7Vector, line)
<1> DEFINE d1 == SubSeq(H7DmaIrqns, 1, 7)
           p1 == <<"SPI1", "SPI2", "USART1", "USART2", "USART3">>
           d2_ == <<H7DmaIrqns[8], "SPI3", "UART4", "UART5">>
           d3 == SubSeq(H7DmaIrqns, 9, 16)
           p2 == <<"USART6", "UART7", "UART8", "SPI4", "SPI5", "SPI6">>
           p3 == <<"LPUART1">>
<1>1. H7Vector = d1 \o p1 \o d2_ \o d3 \o p2 \o H7BdmaIrqns \o p3
  BY DEF H7Vector
<1>2. /\ H7DmaIrqns \in Seq(H7Names) /\ Len(H7DmaIrqns) = 16
      /\ H7BdmaIrqns \in Seq(H7Names) /\ Len(H7BdmaIrqns) = 8
      /\ DOMAIN H7DmaIrqns = 1..16 /\ DOMAIN H7BdmaIrqns = 1..8
      /\ H7DmaIrqns[8] \in H7Names
  BY DEF H7DmaIrqns, H7BdmaIrqns, H7Names
<1>3. /\ d1 \in Seq(H7Names) /\ DOMAIN d1 = 1..7
      /\ \A k \in 1..7 : d1[k] = H7DmaIrqns[k]
      /\ d3 \in Seq(H7Names) /\ DOMAIN d3 = 1..8
      /\ \A k \in 1..8 : d3[k] = H7DmaIrqns[k + 8]
  <2> DEFINE Part(m, n) == SubSeq(H7DmaIrqns, m + 1, n)
  <2>1. ASSUME NEW m \in Nat, NEW n \in Nat, m <= n, n <= 16
        PROVE  /\ Part(m, n) \in Seq(H7Names) /\ Len(Part(m, n)) = n - m
               /\ \A k \in 1..(n - m) : Part(m, n)[k] = H7DmaIrqns[k + m]
    BY <1>2, <2>1, InInterval, Zenon
  <2>2. d1 = Part(0, 7) /\ d3 = Part(8, 16)
    OBVIOUS
  <2> HIDE DEF d1, d3, Part
  <2>3. Part(0, 7) \in Seq(H7Names) /\ Len(Part(0, 7)) = 7
        /\ \A k \in 1..7 : Part(0, 7)[k] = H7DmaIrqns[k + 0]
    <3>1. 0 \in Nat /\ 7 \in Nat /\ 0 <= 7 /\ 7 <= 16 /\ 7 - 0 = 7
      OBVIOUS
    <3> QED BY <2>1, <3>1, Zenon
  <2>4. Part(8, 16) \in Seq(H7Names) /\ Len(Part(8, 16)) = 8
        /\ \A k \in 1..8 : Part(8, 16)[k] = H7DmaIrqns[k + 8]
    <3>1. 8 \in Nat /\ 16 \in Nat /\ 8 <= 16 /\ 16 <= 16 /\ 16 - 8 = 8
      OBVIOUS
    <3> QED BY <2>1, <3>1, Zenon
  <2>5. DOMAIN Part(0, 7) = 1..7 /\ DOMAIN Part(8, 16) = 1..8
    BY <2>3, <2>4
  <2> QED BY <2>2, <2>3, <2>4, <2>5
<1>4. p1 \in Seq(H7Names) /\ p2 \in Seq(H7Names) /\ p3 \in Seq(H7Names)
  BY DEF H7Names
<1>5. d2_ \in Seq(H7Names) /\ Occurs(d2_, H7DmaIrqns[8])
  <2>1. H7DmaIrqns[8] \in H7Names
    BY <1>2
  <2>2. d2_ \in Seq(H7Names)
    <3>1. "SPI3" \in H7Names /\ "UART4" \in H7Names /\ "UART5" \in H7Names
      BY DEF H7Names
    <3> QED BY <2>1, <3>1
  <2>3. 1 \in DOMAIN d2_ /\ d2_[1] = H7DmaIrqns[8]
    BY <2>1
  <2> QED BY <2>2, <2>3 DEF Occurs
<1>6. ASSUME NEW k \in 1..16
      PROVE  Occurs(d1, H7DmaIrqns[k]) \/ Occurs(d2_, H7DmaIrqns[k]) \/ Occurs(d3, H7DmaIrqns[k])
  <2>1. CASE k \in 1..7
    BY <1>3, <2>1 DEF Occurs
  <2>2. CASE k = 8
    BY <1>5, <2>2
  <2>3. CASE k \in 9..16
    <3>1. k - 8 \in 1..8 /\ (k - 8) + 8 = k
      BY <2>3
    <3>2. k - 8 \in DOMAIN d3 /\ d3[k - 8] = H7DmaIrqns[k]
      BY <1>3, <3>1
    <3> QED BY <3>2 DEF Occurs
  <2> QED BY <2>1, <2>2, <2>3
<1>7. ASSUME NEW k \in 1..8 PROVE Occurs(H7BdmaIrqns, H7BdmaIrqns[k])
  BY <1>2 DEF Occurs
<1> HIDE DEF d1, p1, d2_, d3, p2, p3
<1>8. /\ d1 \o p1 \in Seq(H7Names) /\ d1 \o p1 \o d2_ \in Seq(H7Names)
      /\ d1 \o p1 \o d2_ \o d3 \in Seq(H7Names)
      /\ d1 \o p1 \o d2_ \o d3 \o p2 \in Seq(H7Names)
      /\ d1 \o p1 \o d2_ \o d3 \o p2 \o H7BdmaIrqns \in Seq(H7Names)
      /\ H7Vector \in Seq(H7Names)
  BY <1>1, <1>2, <1>3, <1>4, <1>5
<1>9. ASSUME NEW x, Occurs(d1, x) \/ Occurs(d2_, x) \/ Occurs(d3, x) \/ Occurs(H7BdmaIrqns, x)
      PROVE  Occurs(H7Vector, x)
  <2>1. Occurs(d1, x) => Occurs(d1 \o p1, x)
    BY <1>3, <1>4, InConcatenation, Zenon
  <2>2. Occurs(d1 \o p1, x) \/ Occurs(d2_, x) => Occurs(d1 \o p1 \o d2_, x)
    BY <1>5, <1>8, InConcatenation, Zenon
  <2>3. Occurs(d1 \o p1 \o d2_, x) \/ Occurs(d3, x) => Occurs(d1 \o p1 \o d2_ \o d3, x)
    BY <1>3, <1>8, InConcatenation, Zenon
  <2>4. Occurs(d1 \o p1 \o d2_ \o d3, x) => Occurs(d1 \o p1 \o d2_ \o d3 \o p2, x)
    BY <1>4, <1>8, InConcatenation, Zenon
  <2>5. Occurs(d1 \o p1 \o d2_ \o d3 \o p2, x) \/ Occurs(H7BdmaIrqns, x)
          => Occurs(d1 \o p1 \o d2_ \o d3 \o p2 \o H7BdmaIrqns, x)
    BY <1>2, <1>8, InConcatenation, Zenon
  <2>6. Occurs(d1 \o p1 \o d2_ \o d3 \o p2 \o H7BdmaIrqns, x) => Occurs(H7Vector, x)
    BY <1>1, <1>4, <1>8, InConcatenation, Zenon
  <2> QED BY <1>9, <2>1, <2>2, <2>3, <2>4, <2>5, <2>6
<1>10. ASSUME NEW line \in H7ChannelIrqns PROVE Occurs(H7Vector, line)
  <2>1. CASE \E k \in 1..16 : line = H7DmaIrqns[k]
    <3>1. PICK k \in 1..16 : line = H7DmaIrqns[k]
      BY <2>1
    <3> QED BY <1>6, <1>9, <3>1, Zenon
  <2>2. CASE \E k \in 1..8 : line = H7BdmaIrqns[k]
    BY <1>7, <1>9, <2>2, Zenon
  <2> QED BY <2>1, <2>2, Zenon DEF H7ChannelIrqns
<1> QED BY <1>8, <1>10

(* A core with something pending takes something. *)
LEMMA TakesFirst ==
  ASSUME NEW core, hung = "none", H7Pending(core) # {}
  PROVE  \E first \in H7Pending(core) : H7Takes(core, first)
<1> DEFINE places == {Index(H7Vector, l) : l \in H7Pending(core)}
           R == OpToRel(<, Nat)
<1>1. \A l : Index(H7Vector, l) \in Nat
  <2>1. \A l : Index(H7Vector, l) \in 0..Len(H7Vector)
    BY ChannelsInVector, IndexIn
  <2>2. Len(H7Vector) \in Nat
    BY ChannelsInVector
  <2> QED BY <2>1, <2>2
<1>2. places \in SUBSET Nat /\ places # {}
  BY <1>1
<1>3. \A x, y \in Nat : <<y, x>> \in R <=> y < x
  BY DEF OpToRel
<1>4. IsWellFoundedOn(R, Nat)
  BY NatLessThanWellFounded
<1> HIDE DEF R, places
<1>5. PICK x \in places : \A y \in places : <<y, x>> \notin R
  BY <1>2, <1>4, WFMin
<1>6. \A y \in places : x <= y
  <2>1. \A y \in places : ~(y < x)
    BY <1>2, <1>3, <1>5, Zenon
  <2> QED BY <1>2, <2>1
<1>7. PICK first \in H7Pending(core) : x = Index(H7Vector, first)
  BY DEF places
<1>8. \A l \in H7Pending(core) : Index(H7Vector, first) <= Index(H7Vector, l)
  BY <1>6, <1>7 DEF places
<1> QED BY <1>7, <1>8 DEF H7Takes

(* What a core has to leave to the other is the interrupt of a channel,    *)
(* pending on the other core too, which owns it.                           *)
LEMMA LeftToOther ==
  ASSUME family = "h7", DriversInv, NEW c \in Cores, NEW line \in H7Pending(c),
         ~H7Owned(c, line), line \notin H7Unhandled
  PROVE  /\ line \in H7ChannelIrqns
         /\ line \in H7Pending(Other(c)) /\ H7Owned(Other(c), line)
<1>1. PICK x \in raised : x[2] = line
  BY DEF H7Pending
<1>2. Listened(x[1], line) /\ x[1][1] \in InUse
  BY <1>1 DEF DriversInv, OwnerInv, LineOk, RaisedInv
<1>3. Core(x[1][1]) \in Cores
  BY <1>2, H7Board DEF DriversInv, Core, InUse
<1>4. <<Core(x[1][1]), line>> \in lines /\ H7Owned(Core(x[1][1]), line)
  BY <1>2 DEF Listened
<1>5. Core(x[1][1]) = Other(c)
  BY <1>3, <1>4 DEF Cores, Other
<1>6. line \in H7Pending(Other(c)) /\ H7Owned(Other(c), line)
  BY <1>1, <1>4, <1>5 DEF H7Pending
<1>7. line \in H7ChannelIrqns
  BY <1>6, H7Board, H7ChannelLines
     DEF DriversInv, H7Owned, H7DmaChannelInUseForCurrentCore, H7BdmaChannelInUseForCurrentCore
<1> QED BY <1>6, <1>7

(* Two cores that are both stormed would both take the first channel that  *)
(* either has pending, which one of them owns.  It is the safety part of   *)
(* StormsEnd, for every program that compiles and every DMA list.          *)
THEOREM StormsFindTheOtherCore == DriversSafe => []StormsAreServed
<1>1. DriversInv => StormsAreServed
  <2> SUFFICES ASSUME DriversInv, family = "h7", NEW c \in Cores, NEW line \in H7Pending(c),
                      H7Takes(c, line), ~H7Owned(c, line), line \notin H7Unhandled
               PROVE  /\ line \in H7Pending(Other(c)) /\ H7Owned(Other(c), line)
                      /\ \E first \in H7Pending(Other(c)) : H7Takes(Other(c), first)
                      /\ \A first \in H7Pending(Other(c)) :
                           H7Takes(Other(c), first)
                             => H7Owned(Other(c), first) \/ first \in H7Unhandled
    BY DEF StormsAreServed
  <2>1. /\ line \in H7ChannelIrqns
        /\ line \in H7Pending(Other(c)) /\ H7Owned(Other(c), line)
    BY LeftToOther
  <2>2. \E first \in H7Pending(Other(c)) : H7Takes(Other(c), first)
    BY <2>1, TakesFirst DEF H7Takes
  <2>3. ASSUME NEW first \in H7Pending(Other(c)), H7Takes(Other(c), first),
               ~H7Owned(Other(c), first), first \notin H7Unhandled PROVE FALSE
    <3>1. Other(c) \in Cores /\ Other(Other(c)) = c
      BY DEF Cores, Other
    <3>2. first \in H7ChannelIrqns /\ first \in H7Pending(c)
      BY <2>3, <3>1, LeftToOther
    <3>3. /\ Index(H7Vector, line) <= Index(H7Vector, first)
          /\ Index(H7Vector, first) <= Index(H7Vector, line)
      BY <2>1, <2>3, <3>2 DEF H7Takes
    <3>4. /\ Index(H7Vector, line) \in DOMAIN H7Vector
          /\ H7Vector[Index(H7Vector, line)] = line
          /\ Index(H7Vector, first) \in DOMAIN H7Vector
          /\ H7Vector[Index(H7Vector, first)] = first
      BY <2>1, <3>2, ChannelsInVector, IndexIn DEF Occurs
    <3>5. DOMAIN H7Vector \subseteq Int
      BY ChannelsInVector
    <3>6. Index(H7Vector, line) = Index(H7Vector, first)
      BY <3>3, <3>4, <3>5
    <3> QED BY <2>1, <2>3, <3>4, <3>6
  <2> QED BY <2>1, <2>2, <2>3
<1> QED BY <1>1, DriversInvariant, PTL

(* The steps of each kind that leave a burst under way or end it. *)
LEMMA BurstEnds ==
  ASSUME DriversInv, [DriversNext]_driverVars, NEW r \in Requests, r[2] = "burst",
         stage[r] # 0, stage'[r] = 0
  PROVE  (\E line \in lines : <<r, line>> \in raised) \/ stage[<<r[1], "update">>] # 0
<1>1. stage \in [Requests -> 0..2]
  BY DEF DriversInv, HalInv
<1>2. DriverKinds
  BY NextIsKind DEF halVars, ioVars
<1>3. ASSUME NEW s, NEW b, Launching(s, b) PROVE FALSE
  BY <1>1, <1>3 DEF Launching
<1>4. ASSUME NEW d, Counting(d) PROVE FALSE
  <2>1. r # <<d, "count">> /\ r # <<d, "update">>
    OBVIOUS
  <2> QED BY <1>1, <1>4, <2>1 DEF Counting
<1>5. ASSUME NEW reqs, Stopping(reqs) PROVE FALSE
  BY <1>5 DEF Stopping, HalStop
<1>6. ASSUME NEW line, NEW ended, NEW next, NEW given, NEW touched,
             Serving(line, ended, next, given, touched)
      PROVE  (\E l \in lines : <<r, l>> \in raised) \/ stage[<<r[1], "update">>] # 0
  <2>1. r \in ended
    BY <1>6 DEF Serving, HalGoOn
  <2> QED BY <1>6, <2>1 DEF Serving, ServeOk
<1>7. ASSUME NEW s, NEW line, HalBegin(s) \/ HalEnd(s, Setups) \/ Flagging \/ Enabling
                              \/ Finishing(s, line) \/ Falling(s)
      PROVE  FALSE
  BY <1>7 DEF HalBegin, HalEnd, Flagging, Enabling, Finishing, HwFinish, Falling, HalDown, ioVars
<1> QED BY <1>2, <1>3, <1>4, <1>5, <1>6, <1>7 DEF DriverKinds

(* A burst of duty cycles under way ends with the pending interrupt of its *)
(* DMA channel, whatever the program starts, stops or sets meanwhile: for  *)
(* every program that does not have the same timer count with interrupts.  *)
(* In one that does any update may end it, and nothing is said.            *)
THEOREM BurstsRunToTheirEnd == DriversSafe => BurstIntegrity
<1>1. DriversInv /\ [DriversNext]_driverVars
        => [\A r \in {x \in Requests : x[2] = "burst"} :
              (stage[r] # 0 /\ stage'[r] = 0)
                => \/ \E line \in lines : <<r, line>> \in raised
                   \/ stage[<<r[1], "update">>] # 0]_driverVars
  BY BurstEnds
<1> QED BY <1>1, DriversInvariant, PTL DEF DriversSafe, BurstIntegrity

-----------------------------------------------------------------------------
(* A blocking call that returns OK, or an error, has its own transfer's    *)
(* answer, for any number of calls.  Nothing is said of a call that is     *)
(* stale: one that begins while an earlier transfer of its kind is under   *)
(* way, while a bit of one is with FreeRTOS's daemon, or, for Write and    *)
(* Receive, which clear none, while a bit that it will wait for is up,     *)
(* from a transfer that has ended or a reception nobody asked for.         *)
THEOREM CallsGetOwnAnswer == DriversSafe => OwnAnswer
<1>1. ASSUME DriversInv, [DriversNext]_driverVars
      PROVE  [\A op \in Ops \ stale :
                /\ Returns(op, "ok") => /\ This(op) \in done
                                        /\ op = "receive" => rx_data = call[op]
                /\ Returns(op, "error") => This(op) \in failed]_transferVars
  <2>1. TransfersInv /\ [TransfersNext]_transferVars
    BY <1>1, NextIsKind DEF DriversInv
  <2> QED BY <2>1, ReturnsOwnAnswer
<1> QED BY <1>1, DriversInvariant, PTL DEF DriversSafe, OwnAnswer

(* A call that times out has missed no answer but one that FreeRTOS's      *)
(* daemon still holds or refused, or that an error has aborted.            *)
THEOREM TimeoutsMissNothing == DriversSafe => NoAnswerMissed
<1>1. ASSUME DriversInv, [DriversNext]_driverVars
      PROVE  [\A op \in Ops :
                Returns(op, "timeout")
                  => \/ This(op) \notin done \union failed
                     \/ This(op) \in lost \/ BitsOf(op) \cap Range(daemon) # {}
                     \/ op = "receive" /\ This(op) \in failed]_transferVars
  <2>1. TransfersInv /\ [TransfersNext]_transferVars
    BY <1>1, NextIsKind DEF DriversInv
  <2> QED BY <2>1, TimeoutMissesNothing
<1> QED BY <1>1, DriversInvariant, PTL DEF DriversSafe, NoAnswerMissed

-----------------------------------------------------------------------------
(* The two cores of the STM32H7.                                           *)
(*                                                                         *)
(* The M7 finds the domain of the M4 stopped before it wakes it, and only  *)
(* its own event ends the stop, once; it does not give up unless the       *)
(* program has set a limit.  A core listens if its notification is enabled *)
(* or its handler is about to enable it again; whoever has the semaphore   *)
(* is about to release it.                                                 *)
BootInv ==
    /\ cm7 \in {"ready?", "wake", "woken?", "up", "failed"}
    /\ cm4 \in {"reset", "armed", "cleared", "stopped", "woken", "up"}
    /\ event \in BOOLEAN
    /\ use.boots = "waits" => cm7 # "failed"
    /\ d2 \in {"on", "stop"} /\ (d2 = "stop" <=> cm4 = "stopped")
    /\ cm7 \in {"ready?", "wake"} => event = FALSE
    /\ use.boots # "rushes" =>
         /\ cm7 = "ready?" => cm4 \notin {"woken", "up"}
         /\ cm7 = "wake" => cm4 = "stopped"
         /\ cm7 = "woken?" => (cm4 = "stopped" /\ event = TRUE) \/ cm4 \in {"woken", "up"}
         /\ cm7 = "up" => cm4 \in {"woken", "up"}
NotifyInv ==
    /\ isr \subseteq Cores /\ ier \subseteq Cores
    /\ listens \subseteq Cores /\ serving \subseteq Cores
    /\ posted \in [Cores -> Nat]
    /\ unseen \in [Cores -> BOOLEAN]
    /\ sender \in [Cores -> {"idle", "taken"}]
    /\ holder \in Cores \union {"none"}
    /\ holder \in Cores => sender[holder] = "taken"
    /\ listens = ier \union serving /\ ier \intersect serving = {}
    /\ \A c \in Cores : 
         unseen[c] => c \in listens /\ (c \in serving \union isr \/ holder \in Cores)
CoresInv == BootInv /\ NotifyInv

(* Where boot.h has a next step: the guards of BootNext.                   *)
BootCanStep ==
    \/ cm7 = "ready?" /\ (d2 = "stop" \/ use.boots # "waits")
    \/ cm7 = "wake"
    \/ cm7 = "woken?" /\ (d2 = "on" \/ use.boots = "limited")
    \/ cm4 \in {"reset", "armed", "cleared"}
    \/ cm4 = "stopped" /\ event
    \/ cm4 = "woken"
BootDone == cm7 = "up" /\ cm4 = "up"
(* The cores do not wait for each other: a program that waits for the M4   *)
(* before it wakes it has both cores up or a step to take, and cannot fail. *)
BootNeverStalls ==
    /\ use.boots = "waits" => cm7 # "failed" /\ (BootDone \/ BootCanStep)
    /\ use.boots = "limited" => cm7 = "failed" \/ BootDone \/ BootCanStep

(* How many steps of boot.h the M7 and the M4 have before them at most;    *)
(* every step of boot.h is one of these, and none is ever taken back.      *)
M7StepsLeft(place) ==
    CASE place = "ready?" -> 3 [] place = "wake" -> 2 [] place = "woken?" -> 1 [] OTHER -> 0
M4StepsLeft(place) ==
    CASE place = "reset" -> 5 [] place = "armed" -> 4 [] place = "cleared" -> 3
      [] place = "stopped" -> 2 [] place = "woken" -> 1 [] OTHER -> 0
BootStepsLeft == M7StepsLeft(cm7) + M4StepsLeft(cm4)
BootAdvances ==
    [][/\ BootStepsLeft' <= BootStepsLeft
       /\ H7Core(BootNext) => BootStepsLeft' < BootStepsLeft]_driverVars

(* What becomes of a notification that the callback has not followed yet:  *)
(* the callback is on its way, the interrupt is pending and enabled, or    *)
(* whoever has the semaphore has still to release it, with the             *)
(* notification enabled.                                                   *)
NotificationKept ==
    \A c \in Cores :
      unseen[c] => \/ c \in serving
                   \/ c \in isr \intersect ier
                   \/ c \in ier /\ \E s \in Cores : holder = s /\ sender[s] = "taken"

LEMMA CoresStart ==
  ASSUME NEW uses, CoresInit(uses)
  PROVE  CoresInv
BY DEF CoresInit, CoresInv, BootInv, NotifyInv, Cores

LEMMA BootSteps ==
  ASSUME CoresInv, BootNext
  PROVE  CoresInv'
<1>1. UNCHANGED <<use, hsemVars>>
  BY DEF BootNext, WaitUntilCortexM4Ready, WakeUpCortexM4, CortexM4Woken, BootNotification,
         ClearPendingEvent, EnterStopMode, D2DomainWakes, LeaveStopMode, CortexM4Boots
<1>2. NotifyInv'
  BY <1>1 DEF CoresInv, NotifyInv, hsemVars
<1>3. BootInv'
  <2>1. ASSUME WaitUntilCortexM4Ready \/ WakeUpCortexM4 \/ CortexM4Woken PROVE BootInv'
    BY <2>1 DEF CoresInv, BootInv, WaitUntilCortexM4Ready, WakeUpCortexM4, CortexM4Woken
  <2>2. ASSUME BootNotification \/ ClearPendingEvent PROVE BootInv'
    BY <2>2 DEF CoresInv, BootInv, BootNotification, ClearPendingEvent
  <2>3. ASSUME EnterStopMode \/ D2DomainWakes \/ LeaveStopMode PROVE BootInv'
    BY <2>3 DEF CoresInv, BootInv, EnterStopMode, D2DomainWakes, LeaveStopMode
  <2> QED BY <2>1, <2>2, <2>3 DEF BootNext, CortexM4Boots
<1> QED BY <1>2, <1>3 DEF CoresInv

LEMMA NotifySteps ==
  ASSUME CoresInv, NEW c \in Cores, NotifyNext(c)
  PROVE  CoresInv'
<1>1. UNCHANGED <<use, bootVars>>
  BY DEF NotifyNext, EnableNotification, FastTake, Release, HsemIrqHandler, FreeCallback
<1>2. BootInv'
  BY <1>1 DEF CoresInv, BootInv, bootVars
<1>3. ASSUME EnableNotification(c) PROVE NotifyInv'
  BY <1>3 DEF CoresInv, NotifyInv, EnableNotification
<1>4. ASSUME FastTake(c) PROVE NotifyInv'
  <2>1. posted' \in [Cores -> Nat] /\ unseen' \in [Cores -> BOOLEAN]
        /\ sender' \in [Cores -> {"idle", "taken"}]
    <3>1. posted' = [posted EXCEPT ![c] = posted[c] + 1]
      BY <1>4 DEF FastTake
    <3>2. posted \in [Cores -> Nat] /\ posted[c] + 1 \in Nat
      BY DEF CoresInv, NotifyInv
    <3>3. posted' \in [Cores -> Nat]
      BY <3>1, <3>2
    <3> QED BY <1>4, <3>3 DEF CoresInv, NotifyInv, FastTake
  <2>2. UNCHANGED <<isr, ier, listens, serving>> /\ Other(c) \in Cores
        /\ Other(c) \in listens
    BY <1>4 DEF FastTake, Cores, Other
  <2>3. holder' \in Cores /\ sender'[holder'] = "taken"
    BY <1>4 DEF CoresInv, NotifyInv, FastTake
  <2>4. \A d \in Cores : unseen'[d] => unseen[d] \/ d = Other(c)
    BY <1>4 DEF CoresInv, NotifyInv, FastTake
  <2> QED BY <2>1, <2>2, <2>3, <2>4 DEF CoresInv, NotifyInv
<1>5. ASSUME Release(c) PROVE NotifyInv'
  BY <1>5 DEF CoresInv, NotifyInv, Release, Cores
<1>6. ASSUME HsemIrqHandler(c) PROVE NotifyInv'
  BY <1>6 DEF CoresInv, NotifyInv, HsemIrqHandler
<1>7. ASSUME FreeCallback(c) PROVE NotifyInv'
  BY <1>7 DEF CoresInv, NotifyInv, FreeCallback
<1>8. NotifyInv'
  BY <1>3, <1>4, <1>5, <1>6, <1>7 DEF NotifyNext
<1> QED BY <1>2, <1>8 DEF CoresInv

LEMMA CoresSteps ==
  ASSUME CoresInv, [DriversNext]_driverVars
  PROVE  CoresInv'
<1>1. CASE UNCHANGED coreVars
  BY <1>1 DEF CoresInv, BootInv, NotifyInv, coreVars, bootVars, hsemVars
<1>2. CASE BootNext
  BY <1>2, BootSteps
<1>3. CASE \E c \in Cores : NotifyNext(c)
  BY <1>3, NotifySteps
<1>4. UNCHANGED coreVars \/ BootNext \/ \E c \in Cores : NotifyNext(c)
  <2>1. "cm7" \in Cores
    BY DEF Cores
  <2> QED BY <2>1 DEF DriversNext, driverVars, G0, H7, H7Core, Rtos, Finish
<1> QED BY <1>1, <1>2, <1>3, <1>4

THEOREM CoresInvariant == DriversSafe => []CoresInv
<1>1. DriversInit => CoresInv
  BY CoresStart DEF DriversInit
<1>2. CoresInv /\ [DriversNext]_driverVars => CoresInv'
  BY CoresSteps
<1> QED BY <1>1, <1>2, PTL DEF DriversSafe

(* For every program that compiles, on either family: the drivers, the     *)
(* cores and the transfers keep their types (not the names of clocks,      *)
(* lines and signals), and an interrupt is pending only for a request that *)
(* is under way, because whoever ends or stops one takes its flag down.    *)
THEOREM DriversTypes == DriversSafe => []DriversTypeOK
<1>1. DriversInv /\ CoresInv => DriversTypeOK
  <2> SUFFICES ASSUME DriversInv, CoresInv PROVE DriversTypeOK
    OBVIOUS
  <2>1. family \in {"g0", "h7", "rtos"}
    BY DEF DriversInv, BoardInv
  <2>2. /\ \A x \in raised : x[1] \in Requests /\ stage[x[1]] # 0
        /\ HalInv
    BY DEF DriversInv, RaisedInv
  <2>3. CoresTypeOK /\ TransfersTypeOK
    BY TransfersTyped DEF DriversInv, CoresInv, BootInv, NotifyInv, CoresTypeOK
  <2> QED BY <2>1, <2>2, <2>3 DEF DriversTypeOK, HalInv, AnyBuffer
<1> QED BY <1>1, DriversInvariant, CoresInvariant, PTL

(* In a program that has waited for the M4 to stop, the wake-up event is   *)
(* there or has had its effect, and when WakeUpCortexM4 has returned true  *)
(* the M4 runs again; it may not have come to the end of                   *)
(* WaitUntilWokenByCortexM7 yet, for the flag that the M7 looks at goes up *)
(* before.  Nothing is said of a program that does not wait.               *)
THEOREM WokenCoreRuns == DriversSafe => []WokenMeansRunning
<1>1. CoresInv => WokenMeansRunning
  BY DEF CoresInv, BootInv, WokenMeansRunning
<1> QED BY <1>1, CoresInvariant, PTL

(* The cores of a program that waits for the M4 never wait for each other: *)
(* as long as both are not up, boot.h has a step to take.                  *)
THEOREM BootGoesOn == DriversSafe => []BootNeverStalls
<1>1. CoresInv => BootNeverStalls
  BY DEF CoresInv, BootInv, BootNeverStalls, BootDone, BootCanStep
<1> QED BY <1>1, CoresInvariant, PTL

LEMMA BootPlaces ==
  /\ M7StepsLeft("ready?") = 3 /\ M7StepsLeft("wake") = 2 /\ M7StepsLeft("woken?") = 1
  /\ M7StepsLeft("up") = 0 /\ M7StepsLeft("failed") = 0
  /\ M4StepsLeft("reset") = 5 /\ M4StepsLeft("armed") = 4 /\ M4StepsLeft("cleared") = 3
  /\ M4StepsLeft("stopped") = 2 /\ M4StepsLeft("woken") = 1 /\ M4StepsLeft("up") = 0
BY DEF M7StepsLeft, M4StepsLeft

(* Each step of boot.h leaves one step less, and nothing else brings one   *)
(* back: with BootNeverStalls, fairness is all that CoresBoot needs.       *)
THEOREM BootMakesProgress == DriversSafe => BootAdvances
<1>1. ASSUME CoresInv, [DriversNext]_driverVars
      PROVE  [/\ BootStepsLeft' <= BootStepsLeft
              /\ H7Core(BootNext) => BootStepsLeft' < BootStepsLeft]_driverVars
  <2> DEFINE m7 == M7StepsLeft(cm7)
             m4 == M4StepsLeft(cm4)
             m7after == M7StepsLeft(cm7')
             m4after == M4StepsLeft(cm4')
  <2>1. /\ BootStepsLeft = m7 + m4 /\ BootStepsLeft' = m7after + m4after
        /\ m7 \in 0..3 /\ m4 \in 0..5
    BY <1>1, BootPlaces DEF BootStepsLeft, CoresInv, BootInv
  <2>2. CASE UNCHANGED coreVars \/ \E c \in Cores : NotifyNext(c)
    <3>1. cm7' = cm7 /\ cm4' = cm4
      BY <2>2 DEF coreVars, bootVars, NotifyNext, EnableNotification, FastTake, Release,
                  HsemIrqHandler, FreeCallback
    <3>2. ~BootNext
      BY <3>1, <1>1 DEF CoresInv, BootInv, BootNext, WaitUntilCortexM4Ready, WakeUpCortexM4,
         CortexM4Woken, BootNotification, ClearPendingEvent, EnterStopMode, D2DomainWakes, LeaveStopMode, CortexM4Boots
    <3>3. m7after = m7 /\ m4after = m4
      BY <3>1
    <3> HIDE DEF m7, m4, m7after, m4after
    <3>4. BootStepsLeft' <= BootStepsLeft
      BY <2>1, <3>3
    <3> QED BY <3>2, <3>4 DEF H7Core
  <2>3. CASE BootNext
    <3>1. \/ m7after < m7 /\ m7after \in 0..3 /\ m4after = m4
          \/ m4after < m4 /\ m4after \in 0..5 /\ m7after = m7
      <4>1. \/ cm7 = "ready?" /\ cm7' \in {"wake", "failed"} /\ cm4' = cm4
            \/ cm7 = "wake" /\ cm7' = "woken?" /\ cm4' = cm4
            \/ cm7 = "woken?" /\ cm7' \in {"up", "failed"} /\ cm4' = cm4
            \/ cm4 = "reset" /\ cm4' = "armed" /\ cm7' = cm7
            \/ cm4 = "armed" /\ cm4' = "cleared" /\ cm7' = cm7
            \/ cm4 = "cleared" /\ cm4' \in {"stopped", "woken"} /\ cm7' = cm7
            \/ cm4 = "stopped" /\ cm4' = "woken" /\ cm7' = cm7
            \/ cm4 = "woken" /\ cm4' = "up" /\ cm7' = cm7
        BY <2>3 DEF BootNext, WaitUntilCortexM4Ready, WakeUpCortexM4, CortexM4Woken,
           BootNotification, ClearPendingEvent, EnterStopMode, D2DomainWakes, LeaveStopMode, CortexM4Boots
      <4> QED BY <4>1, BootPlaces
    <3> HIDE DEF m7, m4, m7after, m4after
    <3> QED BY <2>1, <3>1
  <2>4. UNCHANGED coreVars \/ BootNext \/ \E c \in Cores : NotifyNext(c)
    <3>1. "cm7" \in Cores
      BY DEF Cores
    <3> QED BY <1>1, <3>1 DEF DriversNext, driverVars, G0, H7, H7Core, Rtos, Finish
  <2> QED BY <2>2, <2>3, <2>4
<1> QED BY <1>1, CoresInvariant, PTL DEF DriversSafe, BootAdvances

(* No notification is lost, though both cores use one semaphore, a         *)
(* FastTake may fail, and the handler clears the flag that a second        *)
(* notification has raised: for any number of notifications.  That the     *)
(* callback then runs needs fairness, and is NotificationSeen.             *)
THEOREM NotificationsAreKept == DriversSafe => []NotificationKept
<1>1. CoresInv => NotificationKept
  BY DEF CoresInv, NotifyInv, NotificationKept
<1> QED BY <1>1, CoresInvariant, PTL
=============================================================================
