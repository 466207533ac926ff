---------------------------- MODULE SensorFrame ----------------------------
(***************************************************************************)
(* The decoder of the pressure sensor's SPI frames (sensor.c).             *)
(*                                                                         *)
(* A frame is six bytes, here 48 bits, most significant first.  It is one  *)
(* bit late: the whole buffer is shifted before it is read.  The values    *)
(* that are decoded are those that reach the ANT+ pages; the temperature   *)
(* and the flags are only logged, and are data for the checksum here.      *)
(***************************************************************************)
EXTENDS PageValues

SENSOR_COMP_CONST_PRESS_OFFSET == -248   \* hPa, at a slope of 16.75 hPa
SENSOR_COMP_CONST_VOLT == 122

Bits == 0 .. 47
Buffer == [Bits -> {0, 1}]

-----------------------------------------------------------------------------
(* decode_sensor_buffer                                                    *)

\* The whole buffer shifted left by one bit.
Shifted(raw) == [i \in Bits |-> IF i < 47 THEN raw[i + 1] ELSE 0]

\* Byte n of a buffer, as an unsigned number.
ByteOf(b, n) ==
  128 * b[8 * n] + 64 * b[8 * n + 1] + 32 * b[8 * n + 2] + 16 * b[8 * n + 3]
    + 8 * b[8 * n + 4] + 4 * b[8 * n + 5] + 2 * b[8 * n + 6] + b[8 * n + 7]

\* Bit k, from the left, of the XOR of the five data bytes.
ChecksumBit(b, k) == (b[k] + b[8 + k] + b[16 + k] + b[24 + k] + b[32 + k]) % 2

\* (A slip: the mask clears a second bit.)
ChecksumFailsMasked(b) == \E k \in 0 .. 5 : ChecksumBit(b, k) # b[40 + k]

\* SENSOR_ERROR_CHK is returned.  The lowest bits are not compared: the mask
\* clears one, the shift the other.
ChecksumFails(b) == \E k \in 0 .. 6 : ChecksumBit(b, k) # b[40 + k]

\* The pressure as the sensor counts it: the first two bytes, swapped to the
\* byte order of the processor, as an int16_t.
Count(b) == Int16(256 * ByteOf(b, 0) + ByteOf(b, 1))

\* (A slip: the slope is rounded to full hPa.)
RoundedProduct(count) == 17 * count

\* The float product with the slope 16.75, truncated towards zero; every
\* int16_t times 67 is exact in a float.
Product(count) ==
  IF count >= 0 THEN (67 * count) \div 4 ELSE -((67 * (-count)) \div 4)

\* The conversion of the product to uint16_t is undefined out of its range:
\* the processor's float conversion saturates negative values at 0, and what
\* is stored is cut to 16 bits.
Converted(count) ==
  {Product(count) % 65536} \cup (IF count < 0 THEN {0} ELSE {})

pressure_hpa(b) ==
  {Int16(u + SENSOR_COMP_CONST_PRESS_OFFSET) : u \in Converted(Count(b))}

voltage_mv(b) == (ByteOf(b, 3) + SENSOR_COMP_CONST_VOLT) * 10

\* The readings of a shifted buffer; none if the checksum is wrong.
Decoded(b) ==
  IF ChecksumFails(b) THEN {}
  ELSE {[pressure_hpa |-> p, voltage_mv |-> voltage_mv(b)] :
          p \in pressure_hpa(b)}

decode_sensor_buffer(raw) == Decoded(Shifted(raw))

-----------------------------------------------------------------------------
(* The sensor, outside this repository: what it sends, as the decoder      *)
(* expects it.                                                             *)

\* What is measured: the pressure as a count, and the other bytes.
Measurement == [count : int16, temperature : 0 .. 255, voltage : 0 .. 255,
                flags : 0 .. 255]

\* Bit i, from the left, of an 8 bit number.
BitOf(byte, i) == (byte \div <<128, 64, 32, 16, 8, 4, 2, 1>>[i + 1]) % 2

DataBytes(m) ==
  [n \in 0 .. 4 |->
     CASE n = 0 -> (m.count % 65536) \div 256
       [] n = 1 -> m.count % 256
       [] n = 2 -> m.temperature
       [] n = 3 -> m.voltage
       [] n = 4 -> m.flags]

\* One bit of no meaning, the data, and seven bits of checksum.
FrameOf(m) ==
  LET data == [i \in 0 .. 39 |-> BitOf(DataBytes(m)[i \div 8], i % 8)] IN
  [i \in Bits |->
     CASE i = 0 -> 0
       [] i \in 1 .. 40 -> data[i - 1]
       [] i \in 41 .. 47 -> ChecksumBit(data, i - 41)]

\* A frame of which one bit is disturbed in the transfer.
Flipped(raw, i) == [raw EXCEPT ![i] = 1 - @]
=============================================================================
