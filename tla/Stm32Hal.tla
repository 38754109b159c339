------------------------------ MODULE Stm32Hal ------------------------------
(***************************************************************************)
(* The interrupt controller, the DMA channels and the vendor's HAL under   *)
(* the STM32 drivers.  A request is a transfer that a driver hands to the  *)
(* HAL, <<device, direction>>; it passes one stage or two, each of which   *)
(* ends with an interrupt.  Drivers are singletons: instance() constructs  *)
(* them when it is first called, by the program or by a handler.  A device *)
(* belongs to the program of one core.                                     *)
(***************************************************************************)
EXTENDS Naturals, Sequences, FiniteSets

CONSTANTS Devices, Controllers, Requests, Pins, Buffers, NoBuffer

Directions == {"tx", "rx", "count", "update", "burst", "rise", "fall"}

ASSUME RequestsAssumption ==
    /\ Controllers \subseteq Devices \cap {"dma", "dma4"}
    /\ Requests \subseteq Devices \X Directions

VARIABLES
  board,       \* the program: modes, cores and pins of its devices, its DMA list
  building,    \* the devices that a program is constructing
  built,       \* the devices that were constructed
  clocked,     \* the devices and ports whose clock is on
  lines,       \* the enabled interrupt lines
  link,        \* the DMA channel of each request, 0 for none
  pins,        \* the signal on each pin
  stage,       \* the stage a request is in, 0 when idle
  raised,      \* pending interrupts, <<request, line>>
  rx_buf,      \* the buffer a driver remembers
  filled,      \* the buffer the hardware fills
  spoilt,      \* the devices whose rx_buf a refused Receive has replaced
  handed,      \* the buffer that the last callback of a device was given
  hung         \* what brought the processor down, or "none"

setVars == <<built, clocked, lines, link, pins>>
ioVars == <<stage, raised, rx_buf, filled, spoilt, handed>>
halVars == <<board, building, setVars, ioVars, hung>>

InUse == {d \in Devices : board.mode[d] # "off"}
DmaModes == {"dma", "circular", "multi"}
SpiTransmissions == {"duplex", "half", "tx", "rx"}
Using(devices) == InUse \cap devices
Index(list, x) == IF \E i \in DOMAIN list : list[i] = x
                  THEN CHOOSE i \in DOMAIN list : list[i] = x ELSE 0
PinsOf(dev, signals) == {p \in board.pinout : p.dev = dev /\ p.signal \in signals}
Port(pin) == pin[1]

(* The request line of the hardware that paces a transfer.                 *)
HwRequest(r) ==
    IF r[2] = "burst" THEN <<r[1], "update">>
    ELSE IF r[1] = "i2s1" THEN <<"spi1", "tx">> ELSE r

HalInit(boards) ==
    /\ board \in boards
    /\ building = {} /\ hung = "none"
    /\ built = {} /\ clocked = {} /\ lines = {} /\ raised = {} /\ spoilt = {}
    /\ link = [r \in Requests |-> 0] /\ stage = [r \in Requests |-> 0]
    /\ pins = [p \in Pins |-> <<>>]
    /\ rx_buf = [d \in Devices |-> NoBuffer]
    /\ filled = [r \in Requests |-> NoBuffer]
    /\ handed = [d \in Devices |-> NoBuffer]

(* What a constructor sets up: clocks, lines, DMA channels and pins.       *)
NoSetup == [clocks |-> {}, irqs |-> {}, links |-> {}, pinned |-> {}]
Both(a, b) == [clocks |-> a.clocks \union b.clocks, irqs |-> a.irqs \union b.irqs,
               links |-> a.links \union b.links, pinned |-> a.pinned \union b.pinned]
AllOf(setups) == [clocks |-> UNION {s.clocks : s \in setups},
                  irqs |-> UNION {s.irqs : s \in setups},
                  links |-> UNION {s.links : s \in setups},
                  pinned |-> UNION {s.pinned : s \in setups}]

(* The constructors of some devices run; setup maps devices to set-ups. *)
HalConstruct(devices, setup) ==
    LET pinned == UNION {setup[d].pinned : d \in devices}
    IN /\ built' = built \union devices
       /\ clocked' = clocked \union UNION {setup[d].clocks : d \in devices}
       /\ lines' = lines \union UNION {setup[d].irqs : d \in devices}
       /\ link' = [r \in Requests |-> IF \E d \in devices : r \in setup[d].links
                                      THEN Index(board.dma, r) ELSE link[r]]
       /\ pins' = [p \in Pins |-> IF \E x \in pinned : x[1] = p
                                  THEN (CHOOSE x \in pinned : x[1] = p)[2] ELSE pins[p]]

SameCore(dev) == {d \in InUse : board.core[d] = board.core[dev]}

(* A driver in DMA mode is given the instance of its core's controller. *)
WithDma(devices) ==
    devices \union {c \in Controllers \cap InUse :
                      \E d \in SameCore(c) \cap devices : board.mode[d] \in DmaModes}

(* The program calls instance() of a device; interrupts come in between.   *)
HalBegin(dev) ==
    /\ hung = "none"
    /\ dev \in InUse \ built /\ building \cap SameCore(dev) = {}
    /\ building' = building \union {dev}
    /\ UNCHANGED <<board, setVars, ioVars, hung>>
HalEnd(dev, setup) ==
    /\ hung = "none" /\ dev \in building
    /\ HalConstruct({dev} \union (WithDma({dev}) \ built), setup)
    /\ building' = building \ {dev}
    /\ UNCHANGED <<board, ioVars, hung>>

(* A call of the program on a device: it is constructed, and a careful     *)
(* program has constructed all the others before.                          *)
HalMayCall(dev) ==
    /\ hung = "none" /\ dev \in built /\ building \cap SameCore(dev) = {}
    /\ board.careful => SameCore(dev) \subseteq built

(* A call that starts a transfer; refused while the handle is busy.        *)
HalStart(req, conflicts, buffer) ==
    IF \E r \in conflicts \union {req} : stage[r] # 0
    THEN UNCHANGED <<stage, filled>>
    ELSE /\ stage' = [stage EXCEPT ![req] = 1]
         /\ filled' = [filled EXCEPT ![req] = buffer]
(* A Receive that remembers its buffer, before it asks the HAL.            *)
HalReceive(dev, conflicts, buffer) ==
    LET req == <<dev, "rx">>
    IN /\ rx_buf' = [rx_buf EXCEPT ![dev] = buffer]
       /\ HalStart(req, conflicts, buffer)
       /\ spoilt' = IF stage[req] # 0 THEN spoilt \union {dev}
                    ELSE IF stage' # stage THEN spoilt \ {dev} ELSE spoilt
HalStop(reqs) ==
    /\ stage' = [r \in Requests |-> IF r \in reqs THEN 0 ELSE stage[r]]
    /\ raised' = {x \in raised : x[1] \notin reqs}

(* The hardware gets through a stage, if it has a clock, and asks for an   *)
(* interrupt.                                                              *)
HwFinish(req, line) ==
    /\ hung = "none"
    /\ stage[req] # 0 /\ req[1] \in clocked
    /\ \A x \in raised : x[1] # req
    /\ raised' = raised \union {<<req, line>>}
    /\ UNCHANGED <<board, building, setVars, stage, rx_buf, filled, spoilt, handed, hung>>

Pending(line) == {x[1] : x \in {y \in raised : y[2] = line}}
Takes(line) == hung = "none" /\ line \in lines /\ Pending(line) # {}

HalDown(cause) == hung' = cause /\ UNCHANGED <<board, building, setVars, ioVars>>

(* The processor takes an interrupt: "ended" requests are over, those in   *)
(* "next" go on with their second stage, the callbacks get "given", and    *)
(* instance() is called on the devices "touched".                          *)
HalGoOn(line, ended, next, given, touched, setup) ==
    /\ HalConstruct(WithDma(touched \ built) \ built, setup)
    /\ raised' = {x \in raised : x[1] \notin ended /\ x[2] # line}
    /\ stage' = [r \in Requests |-> IF r \in ended THEN 0
                                    ELSE IF r \in next THEN 2 ELSE stage[r]]
    /\ handed' = [d \in Devices |-> IF d \in DOMAIN given THEN given[d] ELSE handed[d]]
    /\ UNCHANGED <<board, building, rx_buf, filled, spoilt, hung>>

(* A device whose constructor was interrupted is constructed again, or the *)
(* guard of its static object ends the program.                            *)
HalServe(line, ended, next, given, touched, setup) ==
    \/ building \cap touched # {} /\ HalDown("reentry")
    \/ HalGoOn(line, ended, next, given, touched, setup)
=============================================================================
