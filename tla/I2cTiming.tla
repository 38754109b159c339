----------------------------- MODULE I2cTiming -----------------------------
(***************************************************************************)
(* The search for the timing register of the I2C of the STM32G4            *)
(* (impl/stm32g4_old/internal/i2c_timing.h), done by the compiler: among   *)
(* the prescalers, delays and numbers of ticks that SCL is low and high,   *)
(* those that come nearest to the frequency of a speed mode.  Periods are  *)
(* in whole nanoseconds, clocks in units of 64 Hz as in Stm32Rcc.          *)
(***************************************************************************)
EXTENDS Integers, FiniteSetsExt

(* The rows of the table; rise and fall times, the least data hold time    *)
(* and the digital filter are 0 in each.  Frequencies in kHz.              *)
I2cCharacteristics ==
    [standard |-> [freq |-> 100, freq_min |-> 80, freq_max |-> 120, vddat_max |-> 3450,
                   sudat_min |-> 250, lscl_min |-> 4700, hscl_min |-> 4000],
     fast     |-> [freq |-> 400, freq_min |-> 320, freq_max |-> 480, vddat_max |-> 900,
                   sudat_min |-> 100, lscl_min |-> 1300, hscl_min |-> 600],
     fastPlus |-> [freq |-> 1000, freq_min |-> 800, freq_max |-> 1200, vddat_max |-> 450,
                   sudat_min |-> 50, lscl_min |-> 500, hscl_min |-> 260]]

I2cSpeedModes == DOMAIN I2cCharacteristics
I2cAnalogFilterDelayMin == 50
I2cAnalogFilterDelayMax == 90

(* The period of a clock and of a frequency in kHz. *)
Ti2cclk(clk) == (15625000 + clk \div 2) \div clk
PeriodOf(freq) == 1000000 \div freq

(* The result of a 32-bit subtraction.  Each that goes below 0 is divided  *)
(* by a period and compared with a number of ticks at most: Huge exceeds   *)
(* them all as the wrapped difference does.                                *)
Huge == 2^29
Unsigned(x) == IF x < 0 THEN Huge ELSE x

(* Half a period of SCL: the filter, two clocks and the ticks. *)
HalfPeriod(ti, presc, ticks) ==
    I2cAnalogFilterDelayMin + 2 * ti + (ticks + 1) * (presc + 1) * ti

(* For each prescaler that has any, the first delays long enough for data  *)
(* set-up and not too long for data valid.  With nothing to hold for, no   *)
(* SDADEL is too short.                                                    *)
ComputePrescScldelSdadel(clk, mode) ==
    LET c       == I2cCharacteristics[mode]
        ti      == Ti2cclk(clk)
        longest == Max({0, c.vddat_max - I2cAnalogFilterDelayMax - 4 * ti})
        setup(presc) == {d \in 0..15 : (d + 1) * (presc + 1) * ti >= c.sudat_min}
        hold(presc)  == {d \in 0..15 : d * (presc + 1) * ti <= longest}
    IN {[presc |-> p, scldel |-> Min(setup(p)), sdadel |-> Min(hold(p))] :
          p \in {q \in 0..15 : setup(q) # {} /\ hold(q) # {}}}

(* A time in whole ticks, and one tick less. *)
Ticks(time, tick)        == Unsigned(time) \div tick
TicksLessOne(time, tick) == Unsigned(Ticks(time, tick) - 1)

(* Mutated: the least time that SCL is high, for low. *)
ScllFromHigh(c, ti, presc) ==
    Max({Ticks(c.hscl_min - I2cAnalogFilterDelayMin - 2 * ti, (presc + 1) * ti),
         2 \div (presc + 1), 1})

(* The bounds of the numbers of ticks. *)
ScllFrom(c, ti, presc) ==
    Max({Ticks(c.lscl_min - I2cAnalogFilterDelayMin - 2 * ti, (presc + 1) * ti),
         2 \div (presc + 1), 1})

(* What remains of a period of SCL when it has been low for scll ticks. *)
Remaining(period, ti, presc, scll) ==
    LET tick == (presc + 1) * ti
    IN TicksLessOne(period - 2 * I2cAnalogFilterDelayMin - 4 * ti - (scll + 2) * tick, tick)

SclhFrom(c, ti, presc, scll) ==
    Max({Remaining(PeriodOf(c.freq_max), ti, presc, scll),
         TicksLessOne(Max({c.hscl_min, ti}) - I2cAnalogFilterDelayMin - 2 * ti, (presc + 1) * ti)})

SclhUntil(c, ti, presc, scll) == Min({256, Remaining(PeriodOf(c.freq_min), ti, presc, scll)})

(* Of tries <<error, prescaler, scll, sclh>>, the one with the lowest       *)
(* error, and of several the first in the order of the loops.              *)
Before(x, y) ==
    \E i \in 1..4 : /\ x[i] < y[i]
                    /\ \A j \in 1..(i - 1) : x[j] = y[j]
Lowest(tries) ==
    IF tries = {} THEN {}
    ELSE {CHOOSE x \in tries : \A y \in tries : x = y \/ Before(x, y)}

(* How far the period of SCL is from the one asked for. *)
ClockError(c, ti, presc, scll, sclh) ==
    LET tscl == HalfPeriod(ti, presc, scll) + HalfPeriod(ti, presc, sclh)
    IN IF tscl < PeriodOf(c.freq) THEN PeriodOf(c.freq) - tscl
       ELSE tscl - PeriodOf(c.freq)

Tries(c, ti, presc, scll) ==
    {<<ClockError(c, ti, presc, scll, sclh), presc, scll, sclh>> :
       sclh \in SclhFrom(c, ti, presc, scll)..(SclhUntil(c, ti, presc, scll) - 1)}

(* The timing with the lowest clock error; none if that is a whole period. *)
ComputeScllSclh(clk, mode, timings) ==
    LET c  == I2cCharacteristics[mode]
        ti == Ti2cclk(clk)
        lowest == Lowest(UNION {UNION {Lowest(Tries(c, ti, t.presc, scll)) :
                                         scll \in ScllFrom(c, ti, t.presc)..255} : t \in timings})
        with(t, x) == [presc |-> t.presc, scldel |-> t.scldel, sdadel |-> t.sdadel,
                       scll |-> x[3], sclh |-> x[4]]
        found == {y \in timings \X lowest : y[2][1] < PeriodOf(c.freq) /\ y[2][2] = y[1].presc}
    IN {with(y[1], y[2]) : y \in found}

(* CalculateI2cTiming: the timing, if any; the second search takes the     *)
(* first row of the table in every mode.                                   *)
CalculateI2cTiming(clk, mode) ==
    ComputeScllSclh(clk, "standard", ComputePrescScldelSdadel(clk, mode))
=============================================================================
