----------------------------- MODULE CodecProofs -----------------------------
(* What the conversions of Codec do for every input.                         *)
EXTENDS Codec, TLAPS

----------------------------------------------------------------------------
(* Hexadecimal text.                                                         *)

(* The digit written for a nibble is read as that nibble, and is a           *)
(* character (util.h, ntoa and htoi).                                        *)
LEMMA DigitRead ==
    ASSUME NEW n \in 0..15
    PROVE  ntoa(n) \in 0..255 /\ htoi(ntoa(n)) = n
<1>1. CASE n <= 9
  BY <1>1 DEF ntoa, htoi, Zero, UpperA, LowerA
<1>2. CASE n > 9
  BY <1>2 DEF ntoa, htoi, Zero, UpperA, LowerA
<1> QED BY <1>1, <1>2

(* A number of sixteen bits is the sum of its nibbles.                       *)
LEMMA Nibbles ==
    ASSUME NEW n \in Nat, n < 65536
    PROVE  /\ (n \div 4096) % 16 \in 0..15 /\ (n \div 256) % 16 \in 0..15
           /\ (n \div 16) % 16 \in 0..15 /\ n % 16 \in 0..15
           /\ n = 4096 * ((n \div 4096) % 16) + 256 * ((n \div 256) % 16)
                  + 16 * ((n \div 16) % 16) + (n % 16)
  BY SMTT(60)

(* A length written by len2hex is read back by hex2len as what it was, for   *)
(* every length the four digits can hold.                                    *)
THEOREM HexRoundTrip ==
    ASSUME NEW n \in Nat, n < 65536
    PROVE  hex2len(len2hex(n)) = n
<1> DEFINE a == (n \div 4096) % 16
           b == (n \div 256) % 16
           c == (n \div 16) % 16
           d == n % 16
<1>1. /\ a \in 0..15 /\ b \in 0..15 /\ c \in 0..15 /\ d \in 0..15
      /\ n = 4096 * a + 256 * b + 16 * c + d
  BY Nibbles, SMT
<1>2. len2hex(n) = <<ntoa(a), ntoa(b), ntoa(c), ntoa(d)>>
  BY SMT DEF len2hex
<1> HIDE DEF a, b, c, d
<1>3. htoi(ntoa(a)) = a /\ htoi(ntoa(b)) = b /\ htoi(ntoa(c)) = c /\ htoi(ntoa(d)) = d
  BY <1>1, DigitRead, SMT
<1>4. hex2len(len2hex(n)) = 4096 * htoi(ntoa(a)) + 256 * htoi(ntoa(b))
                            + 16 * htoi(ntoa(c)) + htoi(ntoa(d))
  BY <1>2, SMT DEF hex2len
<1> QED BY <1>1, <1>3, <1>4, SMT

(* Whatever four characters arrive, the length read from them is small       *)
(* enough for size_t, so that recv_cmd's comparison with the size of the     *)
(* buffer is of the length itself.                                           *)
THEOREM HexBounded ==
    ASSUME NEW b \in [1..CMDLEN_SZ -> 0..255]
    PROVE  hex2len(b) \in Nat /\ hex2len(b) <= 255 * 4369
<1>1. ASSUME NEW h \in Nat, h <= 255 PROVE htoi(h) \in Nat /\ htoi(h) <= 255
  BY SMTT(30) DEF htoi, Zero, UpperA, LowerA
<1> DEFINE w == htoi(b[1])
           x == htoi(b[2])
           y == htoi(b[3])
           z == htoi(b[4])
<1>2. /\ w \in Nat /\ w <= 255 /\ x \in Nat /\ x <= 255
      /\ y \in Nat /\ y <= 255 /\ z \in Nat /\ z <= 255
  <2>1. \A i \in 1..4 : htoi(b[i]) \in Nat /\ htoi(b[i]) <= 255
    <3> TAKE i \in 1..4
    <3>1. b[i] \in Nat /\ b[i] <= 255
      BY SMT DEF CMDLEN_SZ
    <3> QED BY <1>1, <3>1
  <2> QED BY <2>1, SMT
<1>3. hex2len(b) = 4096 * w + 256 * x + 16 * y + z
  BY SMT DEF hex2len
<1> HIDE DEF w, x, y, z
<1> QED BY <1>2, <1>3, SMT

(* The Ethernet address in the answer to a revision request is the board's:  *)
(* every byte can be read back from its two digits (xbh.c, srr).             *)
THEOREM AddressReadable ==
    ASSUME NEW revision, NEW mac_addr, NEW j \in 0..5,
           mac_addr[j] \in Nat, mac_addr[j] < 256
    PROVE  LET text == XBH_HandleRevisionRequest(revision, mac_addr)
           IN  16 * htoi(text[8 + 2 * j]) + htoi(text[9 + 2 * j]) = mac_addr[j]
<1> DEFINE text == XBH_HandleRevisionRequest(revision, mac_addr)
           high == mac_addr[j] \div 16
           low == mac_addr[j] % 16
<1>1. high \in 0..15 /\ low \in 0..15 /\ 16 * high + low = mac_addr[j]
  BY SMT
<1>2. /\ (2 * j) % 2 = 0 /\ (2 * j) \div 2 = j
      /\ (2 * j + 1) % 2 = 1 /\ (2 * j + 1) \div 2 = j
  BY SMT
<1>3. Nibble(mac_addr, 2 * j) = high /\ Nibble(mac_addr, 2 * j + 1) = low
  BY <1>2 DEF Nibble
<1>4. text[8 + 2 * j] = ntoa(high)
  <2>1. 8 + 2 * j \in 0..20 /\ 8 + 2 * j > 7 /\ 8 + 2 * j # 20 /\ 8 + 2 * j - 7 - 1 = 2 * j
    BY SMT
  <2> QED BY <1>3, <2>1, SMT DEF XBH_HandleRevisionRequest, XBH_REV_DIGITS
<1>5. text[9 + 2 * j] = ntoa(low)
  <2>1. /\ 9 + 2 * j \in 0..20 /\ 9 + 2 * j > 7 /\ 9 + 2 * j # 20
        /\ 9 + 2 * j - 7 - 1 = 2 * j + 1
    BY SMT
  <2> QED BY <1>3, <2>1, SMT DEF XBH_HandleRevisionRequest, XBH_REV_DIGITS
<1> HIDE DEF text, high, low
<1>6. htoi(text[8 + 2 * j]) = high /\ htoi(text[9 + 2 * j]) = low
  BY <1>1, <1>4, <1>5, DigitRead
<1> QED BY <1>1, <1>6 DEF text

----------------------------------------------------------------------------
(* The checksum.                                                             *)

(* Exclusive or with the same word loses nothing.                            *)
LEMMA XorCancels ==
    ASSUME NEW a, NEW b, NEW c, a (+) c = b (+) c
    PROVE  a = b
  BY DEF (+)

(* Exclusive or cancels on the left as well.                                 *)
LEMMA XorCancelsLeft ==
    ASSUME NEW a, NEW b, NEW c, c (+) a = c (+) b
    PROVE  a = b
  BY DEF (+)

(* The exclusive or of two words is a word.                                  *)
LEMMA XorWord ==
    ASSUME NEW a \in Word(16), NEW b \in Word(16)
    PROVE  a (+) b \in Word(16)
  BY DEF (+), Word

(* A word shifted is a word, and one step of the checksum keeps its width.   *)
LEMMA ShiftWord ==
    ASSUME NEW crc \in Word(16)
    PROVE  ShiftStep(crc) \in Word(16)
<1>1. ShiftRight(crc) \in Word(16) /\ Poly \in Word(16)
  BY DEF ShiftRight, Poly, Word
<1> QED BY <1>1, XorWord DEF ShiftStep

(* One step of crc16_update's loop maps different checksums to different     *)
(* ones: the bit shifted out is put back as bit 15.                          *)
LEMMA ShiftInjective ==
    ASSUME NEW c \in Word(16), NEW d \in Word(16), ShiftStep(c) = ShiftStep(d)
    PROVE  c = d
<1>1. 15 \notin ShiftRight(c) /\ 15 \notin ShiftRight(d) /\ 15 \in Poly
  BY DEF ShiftRight, Poly
<1>2. (15 \in ShiftStep(c) <=> 0 \in c) /\ (15 \in ShiftStep(d) <=> 0 \in d)
  BY <1>1 DEF ShiftStep, (+)
<1>3. 0 \in c <=> 0 \in d
  BY <1>2
<1>4. ShiftRight(c) = ShiftRight(d)
  <2>1. CASE 0 \in c
    BY <2>1, <1>3, XorCancels DEF ShiftStep
  <2>2. CASE 0 \notin c
    BY <2>2, <1>3 DEF ShiftStep
  <2> QED BY <2>1, <2>2
<1>5. ASSUME NEW i \in 1..15 PROVE i \in c <=> i \in d
  <2>1. i - 1 \in 0..14 /\ (i - 1) + 1 = i
    OBVIOUS
  <2>2. (i - 1 \in ShiftRight(c) <=> i \in c) /\ (i - 1 \in ShiftRight(d) <=> i \in d)
    BY <2>1 DEF ShiftRight
  <2> QED BY <2>2, <1>4
<1>6. \A i \in 0..15 : i \in c <=> i \in d
  BY <1>3, <1>5
<1>7. c \subseteq 0..15 /\ d \subseteq 0..15
  BY DEF Word
<1> QED BY <1>6, <1>7

(* Eight of them.                                                            *)
LEMMA UpdateInjective ==
    ASSUME NEW c \in Word(16), NEW d \in Word(16),
           NEW a, NEW b, c (+) a \in Word(16), d (+) b \in Word(16),
           crc16_update(c, a) = crc16_update(d, b)
    PROVE  c (+) a = d (+) b
<1> DEFINE S2(w) == ShiftStep(ShiftStep(w))
           S4(w) == S2(S2(w))
<1>1. \A w \in Word(16) : S2(w) \in Word(16) /\ S4(w) \in Word(16)
  BY ShiftWord
<1>2. \A v, w \in Word(16) : S2(v) = S2(w) => v = w
  BY ShiftWord, ShiftInjective
<1>3. crc16_update(c, a) = S4(S4(c (+) a)) /\ crc16_update(d, b) = S4(S4(d (+) b))
  BY DEF crc16_update
<1>4. \A v, w \in Word(16) : S4(v) = S4(w) => v = w
  <2> HIDE DEF S2
  <2> QED BY <1>1, <1>2
<1> HIDE DEF S2, S4
<1> QED BY <1>1, <1>3, <1>4

(* The checksum after a byte tells different bytes apart: a single damaged   *)
(* byte of a packet changes the checksum at that byte (xbh_xbdcomm.c         *)
(* compares the checksums of packets and answers).                           *)
THEOREM CrcSeesByte ==
    ASSUME NEW crc \in Word(16), NEW a \in Word(8), NEW b \in Word(8),
           crc16_update(crc, a) = crc16_update(crc, b)
    PROVE  a = b
<1>1. a \in Word(16) /\ b \in Word(16)
  BY DEF Word
<1>2. crc (+) a = crc (+) b
  BY <1>1, XorWord, UpdateInjective
<1> QED BY <1>2, XorCancelsLeft

(* And what has once made the checksum different, the bytes after it, when   *)
(* they are the same, do not make it the same again.                         *)
THEOREM CrcKeepsDifference ==
    ASSUME NEW c \in Word(16), NEW d \in Word(16), NEW a \in Word(8),
           crc16_update(c, a) = crc16_update(d, a)
    PROVE  c = d
<1>1. a \in Word(16)
  BY DEF Word
<1>2. c (+) a = d (+) a
  BY <1>1, XorWord, UpdateInjective
<1> QED BY <1>2, XorCancels

----------------------------------------------------------------------------
(* Times.                                                                    *)

(* The seconds and the rest that a timestamp report carries make up the      *)
(* time, for every time shorter than 2^32 seconds (xbh.c, rpr).              *)
THEOREM TimeRecovered ==
    ASSUME NEW time \in Nat, time < Max32 * g_syshz
    PROVE  Reported(time).quot * g_syshz + Reported(time).rem = time
<1> DEFINE q == time \div 120000000
           r == time % 120000000
<1>1. q \in Nat /\ r \in Nat /\ r < 120000000 /\ time = 120000000 * q + r
  BY SMT
<1>2. Reported(time) = [quot |-> q % 4294967296, rem |-> r % 4294967296]
  BY SMT DEF Reported, Max32, g_syshz
<1>3. time < 4294967296 * 120000000
  BY SMT DEF Max32, g_syshz
<1> HIDE DEF q, r
<1>4. q < 4294967296
  BY <1>1, <1>3, SMT
<1>5. q % 4294967296 = q /\ r % 4294967296 = r
  BY <1>1, <1>4, SMT
<1> QED BY <1>1, <1>2, <1>5, SMT DEF g_syshz

(* "Set watchdog to reset after 180 seconds": at 120 MHz the product of      *)
(* watchdog_setinterval does not fit 32 bits, and what is left of it is less *)
(* than 1.05 seconds.                                                        *)
THEOREM WatchdogInterval == t_wd(WATCHDOG_INTERVAL) = 125163520
  BY SMTT(60) DEF t_wd, WATCHDOG_INTERVAL, g_syshz, Max32

----------------------------------------------------------------------------
(* The gain.                                                                 *)

(* After a gain that is not one of the four the pins still select the last   *)
(* one that was, though the request is answered as done; and the four are    *)
(* told apart.                                                               *)
THEOREM GainsDistinct ==
    ASSUME NEW pins, NEW other, NEW gain \in {25, 50, 100, 200}, NEW next \in Nat
    PROVE  LET set == power_gain_set(pins, gain)
           IN  /\ next \notin {25, 50, 100, 200} => power_gain_set(set, next) = set
               /\ next \in {25, 50, 100, 200} => (power_gain_set(other, next) = set <=> next = gain)
  BY SMTT(60) DEF power_gain_set
=============================================================================
