----------------------------- MODULE DriversH7 -----------------------------
(***************************************************************************)
(* The drivers of the two cores of the STM32H7 (impl/stm32h7): UART, SPI,  *)
(* pins, the DMA list that both cores are built with and the interrupt     *)
(* handlers of each core.  Streams serve SPI1 to SPI5, the channels of the *)
(* BDMA serve SPI6.  A line is enabled on a core: <<core, line>>.          *)
(***************************************************************************)
EXTENDS Stm32Hal

H7Uarts == {"usart1", "usart2", "usart3", "uart4", "uart5", "usart6", "uart7", "uart8", "lpuart1"}
H7Spis == {"spi1", "spi2", "spi3", "spi4", "spi5", "spi6"}

H7UartIrqn(d) ==
    [usart1 |-> "USART1", usart2 |-> "USART2", usart3 |-> "USART3", uart4 |-> "UART4",
     uart5 |-> "UART5", usart6 |-> "USART6", uart7 |-> "UART7", uart8 |-> "UART8",
     lpuart1 |-> "LPUART1"][d]
H7SpiIrqn(d) ==
    [spi1 |-> "SPI1", spi2 |-> "SPI2", spi3 |-> "SPI3", spi4 |-> "SPI4", spi5 |-> "SPI5",
     spi6 |-> "SPI6"][d]

(* The instances whose name the macros of interrupts.h turn into a handler. *)
H7UartHandlers == {"USART1", "USART2", "USART3", "UART4", "UART5", "LPUART1"}
H7SpiHandlers == {"SPI1", "SPI2", "SPI3", "SPI4", "SPI5", "SPI6"}

H7DmaIrqns ==
    <<"DMA1_Stream0", "DMA1_Stream1", "DMA1_Stream2", "DMA1_Stream3", "DMA1_Stream4",
      "DMA1_Stream5", "DMA1_Stream6", "DMA1_Stream7", "DMA2_Stream0", "DMA2_Stream1",
      "DMA2_Stream2", "DMA2_Stream3", "DMA2_Stream4", "DMA2_Stream5", "DMA2_Stream6",
      "DMA2_Stream7">>
H7BdmaIrqns ==
    <<"BDMA_Channel0", "BDMA_Channel1", "BDMA_Channel2", "BDMA_Channel3", "BDMA_Channel4",
      "BDMA_Channel5", "BDMA_Channel6", "BDMA_Channel7">>

(* The vector table: with equal priorities, the first pending line is      *)
(* taken first.                                                            *)
H7Vector ==
    SubSeq(H7DmaIrqns, 1, 7) \o <<"SPI1", "SPI2", "USART1", "USART2", "USART3">>
    \o <<H7DmaIrqns[8], "SPI3", "UART4", "UART5">> \o SubSeq(H7DmaIrqns, 9, 16)
    \o <<"USART6", "UART7", "UART8", "SPI4", "SPI5", "SPI6">> \o H7BdmaIrqns \o <<"LPUART1">>

Core(d) == board.core[d]

-----------------------------------------------------------------------------
(* Pins.  Ports J and K have no clock to enable in EnablePortClk. *)
H7Ports == {"A", "B", "C", "D", "E", "F", "G", "H", "I"}
H7EnablePortClk(p) == [NoSetup EXCEPT !.clocks = {Port(p.pin)} \cap H7Ports]
H7HalPort(p) == [NoSetup EXCEPT !.pinned = {<<p.pin, <<p.dev, p.signal>>>>}]
H7Initialize(p) == Both(H7EnablePortClk(p), H7HalPort(p))
H7InitializeAlternate(p) == Both(H7EnablePortClk(p), H7HalPort(p))
H7Alternate(ps) == AllOf({H7InitializeAlternate(p) : p \in ps})

-----------------------------------------------------------------------------
(* DMA: the list of both cores, in two parts.                              *)
H7IsBdmaChannel(req) == req[1] = "spi6"
H7DmaChannels == {i \in DOMAIN board.dma : ~H7IsBdmaChannel(board.dma[i])}
H7BdmaChannels == {i \in DOMAIN board.dma : H7IsBdmaChannel(board.dma[i])}
H7Place(channels, i) == Cardinality({j \in channels : j <= i})

H7ChannelEnabled(b, req) == Index(b.dma, req) # 0
H7Transmits(b, d) == b.spi[d] # "rx"
H7Receives(b, d) == b.spi[d] # "tx"
(* No UART by DMA: IsBdmaPeripheral has an overload for SPIs only, and a   *)
(* list with the channel of a UART does not compile.                       *)
H7Drivers ==
    (Controllers \X {"dma"}) \union {<<"gpi", "in">>, <<"gpo", "out">>}
    \union (H7Uarts \X {"poll", "irq"}) \union (H7Spis \X {"poll", "dma"})
H7Signals(b, d) ==
    CASE d \in H7Uarts -> {"tx", "rx"}
      [] d \in H7Spis -> IF b.spi[d] = "duplex" THEN {"mosi", "miso", "sck"}
                         ELSE IF b.spi[d] = "rx" THEN {"miso", "sck"} ELSE {"mosi", "sck"}
      [] d = "gpi" -> {"in"}
      [] d = "gpo" -> {"out"}
      [] OTHER -> {}
H7Compiles(b) ==
    \A d \in Devices :
      b.mode[d] # "off" =>
        /\ <<d, b.mode[d]>> \in H7Drivers
        /\ \A p \in b.pinout : p.dev = d => p.signal \in H7Signals(b, d)
        /\ d \in H7Spis =>
             /\ b.spi[d] \in SpiTransmissions
             /\ b.mode[d] = "dma" => /\ H7Transmits(b, d) => H7ChannelEnabled(b, <<d, "tx">>)
                                     /\ H7Receives(b, d) => H7ChannelEnabled(b, <<d, "rx">>)

(* The line and the clock of a request's stream or channel: the n-th of    *)
(* its part has the n-th line.                                             *)
H7DmaIrqn(i) == H7DmaIrqns[H7Place(H7DmaChannels, i)]
H7BdmaIrqn(i) == H7BdmaIrqns[H7Place(H7BdmaChannels, i)]
H7DmaChannel(req) == H7DmaIrqn(Index(board.dma, req))
H7BdmaChannel(req) == H7BdmaIrqn(Index(board.dma, req))
H7ChannelLine(req) ==
    IF H7IsBdmaChannel(req) THEN H7BdmaChannel(req) ELSE H7DmaChannel(req)
H7ChannelClock(req) ==
    IF H7IsBdmaChannel(req) THEN "bdma"
    ELSE IF H7Place(H7DmaChannels, Index(board.dma, req)) <= 8 THEN "dma1" ELSE "dma2"

(* DmaImpl: a core enables the lines of all channels, the other core's     *)
(* included.                                                               *)
H7DmaSetup(core) ==
    [NoSetup EXCEPT
       !.clocks = (IF H7BdmaChannels # {} THEN {"bdma"} ELSE {})
                    \union (IF H7DmaChannels # {} THEN {"dma1"} ELSE {})
                    \union (IF Cardinality(H7DmaChannels) > 8 THEN {"dma2"} ELSE {}),
       !.irqs = {<<core, H7BdmaIrqn(i)>> : i \in H7BdmaChannels}
                  \union {<<core, H7DmaIrqn(i)>> : i \in H7DmaChannels}]

(* Mutant: the test is for one core.                                       *)
H7DmaChannelInUseForM7(core, line) ==
    \E i \in H7DmaChannels : H7DmaIrqn(i) = line /\ Core(board.dma[i][1]) = "cm7"

(* The handlers ask whether the channel belongs to their core. *)
H7DmaChannelInUseForCurrentCore(core, line) ==
    \E i \in H7DmaChannels : H7DmaIrqn(i) = line /\ Core(board.dma[i][1]) = core
H7BdmaChannelInUseForCurrentCore(core, line) ==
    \E i \in H7BdmaChannels : H7BdmaIrqn(i) = line /\ Core(board.dma[i][1]) = core
H7GetDmaRequestId(req) == req
H7SetupChannel(req) == [NoSetup EXCEPT !.links = {req}]

-----------------------------------------------------------------------------
(* Constructors. *)
H7UartPinout(d) == H7Alternate(PinsOf(d, {"tx", "rx"}))
H7EnableUartClk(d) == [NoSetup EXCEPT !.clocks = {d}]
H7SetupUartNoFc(d) == H7EnableUartClk(d)
H7InitializeUartForInterruptMode(d) ==
    [NoSetup EXCEPT !.irqs = {<<Core(d), H7UartIrqn(d)>>}]
H7UartSetup(d) ==
    Both(Both(H7UartPinout(d), H7SetupUartNoFc(d)),
         IF board.mode[d] = "irq" THEN H7InitializeUartForInterruptMode(d) ELSE NoSetup)

H7SpiDuplexPins(d) == H7Alternate(PinsOf(d, {"mosi", "miso", "sck"}))
H7SpiTxPins(d) == H7Alternate(PinsOf(d, {"mosi", "sck"}))
H7SpiRxPins(d) == H7Alternate(PinsOf(d, {"miso", "sck"}))
H7SetupPins(d) ==
    CASE board.spi[d] = "duplex" -> H7SpiDuplexPins(d)
      [] board.spi[d] = "rx" -> H7SpiRxPins(d)
      [] OTHER -> H7SpiTxPins(d)                        \* half duplex too
H7EnableSpiClk(d) == [NoSetup EXCEPT !.clocks = {d}]
H7SetupSpiMaster(d) == H7EnableSpiClk(d)

(* Mutant: as on the STM32G0, the interrupt of the SPI is left disabled.   *)
H7EnableNoSpiInterrupt(d) == NoSetup
H7EnableSpiInterrupt(d) == [NoSetup EXCEPT !.irqs = {<<Core(d), H7SpiIrqn(d)>>}]
H7SpiSetup(d) == Both(H7SetupPins(d), H7SetupSpiMaster(d))
H7SpiSetupDma(d) ==
    Both(Both(H7SpiSetup(d), H7EnableSpiInterrupt(d)),
         Both(IF H7Transmits(board, d) THEN H7SetupChannel(<<d, "tx">>) ELSE NoSetup,
              IF H7Receives(board, d) THEN H7SetupChannel(<<d, "rx">>) ELSE NoSetup))

H7Setups ==
    [d \in InUse |->
       CASE d \in Controllers -> H7DmaSetup(Core(d))
         [] d \in {"gpi", "gpo"} -> AllOf({H7Initialize(p) : p \in PinsOf(d, {"in", "out"})})
         [] d \in H7Uarts -> H7UartSetup(d)
         [] d \in H7Spis -> IF board.mode[d] = "dma" THEN H7SpiSetupDma(d) ELSE H7SpiSetup(d)]

-----------------------------------------------------------------------------
(* Interrupts.  A core that takes a line whose channel is not its own      *)
(* returns with the line pending, and takes it again, before the program   *)
(* or any later line, until the other core has served the channel.         *)
H7Pending(core) == {l \in {x[2] : x \in raised} : <<core, l>> \in lines}
H7Takes(core, line) ==
    /\ hung = "none" /\ line \in H7Pending(core)
    /\ \A l \in H7Pending(core) : Index(H7Vector, line) <= Index(H7Vector, l)
H7Owned(core, line) ==
    \/ line \in H7UartHandlers \union H7SpiHandlers
    \/ H7DmaChannelInUseForCurrentCore(core, line)
    \/ H7BdmaChannelInUseForCurrentCore(core, line)
H7Stormed(core) == \E line \in H7Pending(core) : H7Takes(core, line) /\ ~H7Owned(core, line)

(* The line of a request's next interrupt: the SPI's own when the DMA is   *)
(* done, at the end of the transfer.                                       *)
H7Line(r) ==
    IF r[1] \in H7Uarts THEN H7UartIrqn(r[1])
    ELSE IF stage[r] = 1 THEN H7ChannelLine(r) ELSE H7SpiIrqn(r[1])
H7Finish(r) ==
    /\ r[1] \in InUse
    /\ r[1] \in H7Spis => /\ H7ChannelClock(r) \in clocked
                          /\ H7GetDmaRequestId(r) = HwRequest(r)
    /\ HwFinish(r, H7Line(r))

(* HAL_UART_TxCpltCallback, HAL_SPI_RxCpltCallback, HAL_SPI_TxCpltCallback *)
(* call instance() of the peripherals that the core's program uses.        *)
H7UartTxCplt(core) ==
    {d \in Using(H7Uarts) : Core(d) = core /\ H7UartIrqn(d) \in H7UartHandlers}
H7SpiCplt(core) == {d \in Using(H7Spis) : Core(d) = core}
H7RxComplete(ended) ==
    [d \in {r[1] : r \in {x \in ended : x[2] = "rx"}} |-> rx_buf[d]]

H7DmaIrqHandler(core) ==
    \E line \in H7Pending(core) :
      /\ H7Takes(core, line)
      /\ H7DmaChannelInUseForCurrentCore(core, line)
      /\ HalGoOn(line, {}, Pending(line), <<>>, {}, H7Setups)
H7BdmaIrqHandler(core) ==
    \E line \in H7Pending(core) :
      /\ H7Takes(core, line)
      /\ H7BdmaChannelInUseForCurrentCore(core, line)
      /\ HalGoOn(line, {}, Pending(line), <<>>, {}, H7Setups)
H7SpiIrqHandler(core) ==
    \E line \in H7SpiHandlers :
      /\ H7Takes(core, line)
      /\ HalServe(line, Pending(line), {}, H7RxComplete(Pending(line)), H7SpiCplt(core), H7Setups)
H7UartIrqHandler(core) ==
    \E line \in H7UartHandlers :
      /\ H7Takes(core, line)
      /\ HalServe(line, Pending(line), {}, <<>>, H7UartTxCplt(core), H7Setups)

(* USART6, UART7 and UART8 have no handler. *)
H7NoHandler(core) ==
    /\ \E line \in {"USART6", "UART7", "UART8"} : H7Takes(core, line)
    /\ HalDown("no handler")

-----------------------------------------------------------------------------
(* Calls of a core's program, which runs when no interrupt is pending.     *)
H7Runs(core) == H7Pending(core) = {}
H7MayCall(d) == HalMayCall(d) /\ H7Runs(Core(d))

H7Begin(d) == H7Runs(Core(d)) /\ HalBegin(d)
H7End(d) == H7Runs(Core(d)) /\ HalEnd(d, H7Setups)
H7Write(d) ==
    /\ d \in Using(H7Uarts) /\ H7MayCall(d)
    /\ board.mode[d] = "irq"
    /\ HalStart(<<d, "tx">>, {}, NoBuffer)
    /\ UNCHANGED <<board, building, setVars, raised, rx_buf, spoilt, handed, hung>>
(* Mutant: as on the STM32G0, rx_buf is not set.                           *)
H7ReceiveUnremembered(d, into) ==
    /\ d \in Using(H7Spis) /\ H7MayCall(d)
    /\ board.mode[d] = "dma" /\ H7Receives(board, d)
    /\ HalStart(<<d, "rx">>, {<<d, "tx">>} \cap Requests, into)
    /\ UNCHANGED <<board, building, setVars, raised, rx_buf, spoilt, handed, hung>>
H7Receive(d, into) ==
    /\ d \in Using(H7Spis) /\ H7MayCall(d)
    /\ board.mode[d] = "dma" /\ H7Receives(board, d)
    /\ HalReceive(d, {<<d, "tx">>} \cap Requests, into)
    /\ UNCHANGED <<board, building, setVars, raised, handed, hung>>
H7Transmit(d) ==
    /\ d \in Using(H7Spis) /\ H7MayCall(d)
    /\ board.mode[d] = "dma" /\ H7Transmits(board, d)
    /\ HalStart(<<d, "tx">>, {<<d, "rx">>} \cap Requests, NoBuffer)
    /\ UNCHANGED <<board, building, setVars, raised, rx_buf, spoilt, handed, hung>>

H7Program(core) ==
    \E d \in InUse :
      /\ Core(d) = core
      /\ \/ H7Begin(d) \/ H7End(d) \/ H7Write(d) \/ H7Transmit(d)
         \/ \E b \in Buffers : H7Receive(d, b)
H7Interrupts(core) ==
    \/ H7DmaIrqHandler(core) \/ H7BdmaIrqHandler(core)
    \/ H7SpiIrqHandler(core) \/ H7UartIrqHandler(core) \/ H7NoHandler(core)
=============================================================================
