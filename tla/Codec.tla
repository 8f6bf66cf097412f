-------------------------------- MODULE Codec --------------------------------
(* The pure conversions of the firmware: lengths to and from hexadecimal     *)
(* text (util.c, util.h), the checksum (hal/crc.c), the arithmetic of the    *)
(* reported time (xbh.c) and of the watchdog's interval (hal/watchdog.c),    *)
(* and the gain pins (hal/hal.c).                                            *)
EXTENDS Integers, Sequences

----------------------------------------------------------------------------
(* Hexadecimal text, as ASCII codes.                                         *)

CMDLEN_SZ == 4
LenMax == 65535     \* the longest length that fits

Zero == 48          \* '0'
UpperA == 65        \* 'A'
LowerA == 97        \* 'a'

ntoa(n) == IF n <= 9 THEN Zero + n ELSE UpperA + n - 10

htoi(h) ==
    CASE h \in Zero..(Zero + 9) -> h - Zero
      [] h \in LowerA..(LowerA + 5) -> h - LowerA + 10
      [] h \in UpperA..(UpperA + 5) -> h - UpperA + 10
      [] OTHER -> 255

len2hex(len) == <<ntoa((len \div 4096) % 16), ntoa((len \div 256) % 16),
                  ntoa((len \div 16) % 16), ntoa(len % 16)>>

(* Mutation: the loop stops one digit early.                                 *)
hex2lenShort(b) == 4096 * htoi(b[1]) + 256 * htoi(b[2]) + 16 * htoi(b[3])

hex2len(b) == 4096 * htoi(b[1]) + 256 * htoi(b[2]) + 16 * htoi(b[3]) + htoi(b[4])

(* What the board says of itself: its revision, a comma, the six bytes of    *)
(* its Ethernet address in digits, and a zero.                               *)
XBH_REV_DIGITS == 7
Comma == 44
Nibble(mac_addr, k) ==
    IF k % 2 = 0 THEN mac_addr[k \div 2] \div 16 ELSE mac_addr[k \div 2] % 16

XBH_HandleRevisionRequest(revision, mac_addr) ==
    [i \in 0..(XBH_REV_DIGITS + 13) |->
        IF i < XBH_REV_DIGITS THEN revision[i]
        ELSE IF i = XBH_REV_DIGITS THEN Comma
        ELSE IF i = XBH_REV_DIGITS + 13 THEN 0
        ELSE ntoa(Nibble(mac_addr, i - XBH_REV_DIGITS - 1))]

----------------------------------------------------------------------------
(* The checksum.  A word is the set of its bits that are one.                *)

Word(bits) == SUBSET (0..(bits - 1))
a (+) b == (a \ b) \cup (b \ a)

Poly == {0, 13, 15}             \* 0xA001
ShiftRight(crc) == {i \in 0..14 : i + 1 \in crc}

ShiftStep(crc) == IF 0 \in crc THEN ShiftRight(crc) (+) Poly ELSE ShiftRight(crc)

crc16_update(crc, a) ==
    ShiftStep(ShiftStep(ShiftStep(ShiftStep(ShiftStep(ShiftStep(ShiftStep(ShiftStep(crc (+) a))))))))

(* The checksum of the first n bytes of buf.                                 *)
crc16_create(buf, len) ==
    LET crc[n \in 0..len] == IF n = 0 THEN 0..15 ELSE crc16_update(crc[n - 1], buf[n])
    IN  crc[len]

----------------------------------------------------------------------------
(* Times, in clocks of the processor.                                        *)

g_syshz == 120000000
Max32 == 65536 * 65536

(* What is reported of a time: whole seconds and the rest.                   *)
Reported(time) == [quot |-> (time \div g_syshz) % Max32, rem |-> (time % g_syshz) % Max32]

(* "Set watchdog to reset after 180 seconds"; the product has 32 bits.       *)
WATCHDOG_INTERVAL == 180000
t_wd(ms) == ((g_syshz \div 1000) * ms) % Max32

----------------------------------------------------------------------------
(* The pins that select the gain; another gain leaves them alone.            *)
power_gain_set(pins, gain) ==
    CASE gain = 25 -> [a |-> 0, b |-> 0]
      [] gain = 50 -> [a |-> 1, b |-> 0]
      [] gain = 100 -> [a |-> 0, b |-> 1]
      [] gain = 200 -> [a |-> 1, b |-> 1]
      [] OTHER -> pins
=============================================================================
