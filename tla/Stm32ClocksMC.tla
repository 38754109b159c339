--------------------------- MODULE Stm32ClocksMC ---------------------------
(***************************************************************************)
(* The settings that TLC configures the clocks with.                       *)
(***************************************************************************)
EXTENDS Stm32Clocks

Pll(on, m, n, div) == [enable |-> on, m |-> m, n |-> n, p |-> div, q |-> 4, r |-> 2]
Pre(core, ahb, a, b) ==
    [core |-> core, ahb |-> ahb, apb1 |-> a, apb2 |-> b, apb3 |-> a, apb4 |-> b]

(* The default, 480 MHz as m = 4, n = 60 and as m = 8, n = 120, whose      *)
(* product wraps, a slow PLL, none at all; SPI clocks from everywhere.     *)
MCH7Settings ==
    {H7Default} \union
    [hse : {25 * MHz}, pllSource : {"hsi", "hse"}, sysclk : {"hsi", "csi", "pll"},
     pll1 : {Pll(TRUE, 4, 60, 2), Pll(TRUE, 8, 120, 2), Pll(TRUE, 32, 129, 2),
             Pll(FALSE, 4, 60, 2)},
     pll2 : {Pll(TRUE, 5, 40, 8), Pll(FALSE, 5, 40, 8)},
     pre : {Pre(1, 1, 2, 2), Pre(1, 2, 2, 4), Pre(2, 1, 4, 2)}, systick : {8},
     per : {"hsi", "csi"}, vcore : {"ldo"}, scale : {0, 2, 3},
     spi : [spi123 : {"pll1q", "pll2p", "perck"}, spi45 : {"pclk2", "pll2q"},
            spi6 : {"pclk4", "hse"}]]

MCH5Settings ==
    {H5Default} \union
    [hse : {25 * MHz}, pllSource : {"hsi", "csi", "hse"},
     sysclk : {"hsi", "csi", "hse", "pll"},
     pll1 : {Pll(TRUE, 16, 125, 2), Pll(TRUE, 16, 125, 4), Pll(TRUE, 5, 50, 2),
             Pll(TRUE, 4, 290, 2), Pll(TRUE, 7, 55, 2), Pll(FALSE, 1, 1, 1)},
     pre : {Pre(1, 1, 1, 2), Pre(1, 2, 4, 1)}]

MCG0Settings ==
    {G0Default} \union
    [hse : {8 * MHz}, pllSource : {"hsi", "hse"}, hsiPre : {1, 4, 128},
     sysclk : {"hsi", "hse", "lsi", "lse", "pll"}, cortex : {1},
     pll1 : {[Pll(e, m, n, 4) EXCEPT !.r = r] :
               e \in BOOLEAN, m \in {1, 3, 9}, n \in {8, 16, 24}, r \in {2, 6}},
     pre : {Pre(1, 1, 1, 1), Pre(1, 1, 2, 1), Pre(1, 2, 1, 1)}]

(* The default; the fastest; the slowest that the search must serve, and   *)
(* slower ones: it finds a timing at 1.25 MHz and none at 1 MHz; none.     *)
MCG4Settings ==
    {G4Construct(8 * MHz, source, pll, [sysclk |-> sysclk, pre |-> pre, systick |-> 1], i2c) :
       source \in {"hsi", "hse"}, sysclk \in {"hsi", "pll"},
       pll \in {G4PllDefault, Pll(TRUE, 3, 64, 2), Pll(FALSE, 4, 85, 2)} \union
               {[Pll(TRUE, 16, n, 2) EXCEPT !.r = 8] : n \in {8, 10, 16}},
       pre \in {Pre(1, 1, 1, 1), Pre(1, 2, 2, 4)}, i2c \in {"pclk1", "sysclk", "hsi"}}

MCSpiRates == {MHz, 12 * MHz}
=============================================================================
