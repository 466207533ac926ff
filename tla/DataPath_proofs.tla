-------------------------- MODULE DataPath_proofs --------------------------
(***************************************************************************)
(* Proofs about the decoder, the page codecs and DataPath.                 *)
(***************************************************************************)
EXTENDS DataPath, TLAPS

-----------------------------------------------------------------------------
(* The codecs                                                              *)

\* A number is its low byte and the rest.
LEMMA LowByte ==
  ASSUME NEW v \in Nat
  PROVE  /\ v % 256 \in Byte
         /\ v \div 256 \in Nat
         /\ (v % 256) + 256 * (v \div 256) = v
BY SMT DEF Byte

LEMMA ByteMod ==
  ASSUME NEW v \in Int, 0 <= v, v <= 255
  PROVE  v % 256 = v
BY SMT

\* Two bytes hold every uint16_t.
LEMMA Uint16RoundTrip ==
  ASSUME NEW v \in uint16
  PROVE  /\ uint16_encode(v)[1] \in Byte /\ uint16_encode(v)[2] \in Byte
         /\ uint16_encode(v)[1] + 256 * uint16_encode(v)[2] = v
<1>1. v \in Nat /\ v <= 65535
  BY DEF uint16
<1>2. 0 <= v \div 256 /\ v \div 256 <= 255 /\ v \div 256 \in Int
  BY <1>1
<1>3. (v \div 256) % 256 = v \div 256
  BY <1>2, ByteMod
<1> QED BY <1>1, <1>2, <1>3, LowByte DEF uint16_encode, Byte

\* Three bytes hold every number below 2^24.
LEMMA Uint24RoundTrip ==
  ASSUME NEW v \in uint24
  PROVE  /\ \A i \in 1 .. 3 : uint24_encode(v)[i] \in Byte
         /\ uint24_encode(v)[1] + 256 * uint24_encode(v)[2]
              + 65536 * uint24_encode(v)[3] = v
<1> DEFINE q == v \div 256
           r == v \div 65536
<1> v \in Nat
  BY DEF uint24
<1>1. q \in Nat /\ r \in Nat /\ r <= 255 /\ q \div 256 = r
  BY DEF uint24
<1>2. v % 256 \in Byte /\ (v % 256) + 256 * q = v
  BY LowByte
<1>3. q % 256 \in Byte /\ (q % 256) + 256 * r = q
  BY <1>1, LowByte
<1>4. r % 256 = r
  BY <1>1, ByteMod
<1>5. uint24_encode(v) = <<v % 256, q % 256, r>>
  BY <1>4 DEF uint24_encode
<1> HIDE DEF q, r
<1> QED BY <1>1, <1>2, <1>3, <1>5 DEF Byte

\* A page 16 survives the two codecs, with a role of four bits.
THEOREM Page16RoundTrip ==
  ASSUME NEW p \in Page16
  PROVE  ant_tpms_page_16_decode(ant_tpms_page_16_encode(p)) = p
<1> DEFINE a == uint16_encode(p.ambient_pressure)
           l == uint16_encode(p.alarm_low_pressure)
           h == uint16_encode(p.alarm_high_pressure)
           first == (p.role % 16) + 16 * (p.command % 16)
<1>1. /\ p.command \in 0 .. 15 /\ p.role \in 0 .. 15
      /\ p.ambient_pressure \in uint16 /\ p.alarm_low_pressure \in uint16
      /\ p.alarm_high_pressure \in uint16
  BY DEF Page16, Nibble
<1>2. first \div 16 = p.command /\ first % 16 = p.role
  BY <1>1, SMT
<1>3. /\ a[1] + 256 * a[2] = p.ambient_pressure
      /\ l[1] + 256 * l[2] = p.alarm_low_pressure
      /\ h[1] + 256 * h[2] = p.alarm_high_pressure
  BY <1>1, Uint16RoundTrip
<1> HIDE DEF a, l, h, first
<1>4. ant_tpms_page_16_encode(p) = <<first, a[1], a[2], l[1], l[2], h[1], h[2]>>
  BY DEF ant_tpms_page_16_encode, a, l, h, first
<1>5. ant_tpms_page_16_decode(<<first, a[1], a[2], l[1], l[2], h[1], h[2]>>)
        = [command |-> p.command, role |-> p.role,
           ambient_pressure |-> p.ambient_pressure,
           alarm_low_pressure |-> p.alarm_low_pressure,
           alarm_high_pressure |-> p.alarm_high_pressure]
  BY <1>2, <1>3 DEF ant_tpms_page_16_decode, uint16_decode
<1> QED BY <1>4, <1>5 DEF Page16

\* A page 1 survives the two codecs.
THEOREM Page1RoundTrip ==
  ASSUME NEW p \in Page1
  PROVE  ant_tpms_page_1_decode(ant_tpms_page_1_encode(p)) = p
<1> DEFINE a == uint16_encode(p.pressure)
           alarms == AlarmByte(p.alarms)
<1>1. /\ p.role \in Byte /\ p.alarms \subseteq Alarms
      /\ p.pressure \in uint16
      /\ p = [role |-> p.role, alarms |-> p.alarms, pressure |-> p.pressure]
  BY DEF Page1
<1>2. a[1] + 256 * a[2] = p.pressure
  BY <1>1, Uint16RoundTrip
<1>3. AlarmsOfByte(alarms) = p.alarms
  <2>1. /\ alarms \in 0 .. 3
        /\ alarms % 2 = 1 <=> "LOW_OK" \in p.alarms
        /\ (alarms \div 2) % 2 = 1 <=> "HIGH_OK" \in p.alarms
    BY DEF AlarmByte
  <2> HIDE DEF alarms
  <2>2. \A bit : bit \in AlarmsOfByte(alarms) <=> bit \in p.alarms
    BY <1>1, <2>1 DEF AlarmsOfByte, Alarms
  <2> QED BY <2>2
<1> HIDE DEF a, alarms
<1>4. ant_tpms_page_1_encode(p)
        = <<p.role, alarms, 255, 255, 255, a[1], a[2]>>
  BY DEF ant_tpms_page_1_encode, a, alarms
<1>5. ant_tpms_page_1_decode(<<p.role, alarms, 255, 255, 255, a[1], a[2]>>)
        = [role |-> p.role, alarms |-> p.alarms, pressure |-> p.pressure]
  BY <1>2, <1>3 DEF ant_tpms_page_1_decode, uint16_decode
<1> QED BY <1>1, <1>4, <1>5

\* The fraction of a volt loses at most 4 mV in 256ths.
LEMMA FractionOfVolt ==
  ASSUME NEW r \in 0 .. 999
  PROVE  /\ (r * 256) \div 1000 \in Byte
         /\ r - (((r * 256) \div 1000) * 1000) \div 256 \in 0 .. 4
BY SMT DEF Byte

\* Half the seconds, rounded down.
LEMMA Halved ==
  ASSUME NEW n \in Nat
  PROVE  n \div 2 \in Nat /\ n - 2 * (n \div 2) \in {0, 1}
<1>1. n \div 2 \in Nat /\ (n - 2 * (n \div 2) = 0 \/ n - 2 * (n \div 2) = 1)
  BY SMT
<1> QED BY <1>1

\* Volts, battery status and resolution share the last byte.
LEMMA DescriptiveField ==
  ASSUME NEW v \in 0 .. 15, NEW s \in 0 .. 7
  PROVE  /\ (v + 16 * s + 128) % 16 = v
         /\ ((v + 16 * s + 128) \div 16) % 8 = s
         /\ (v + 16 * s + 128) \div 128 = 1
<1>1. (v + 16 * s + 128) % 16 = v /\ (v + 16 * s + 128) \div 128 = 1
  BY SMT
<1>2. (v + 16 * s + 128) \div 16 = s + 8 /\ (s + 8) % 8 = s
  BY SMT
<1> QED BY <1>1, <1>2

\* Volts and what is left of a volt.
LEMMA Volts ==
  ASSUME NEW mv \in Nat, mv < 16000
  PROVE  /\ mv \div 1000 \in 0 .. 15
         /\ mv % 1000 \in 0 .. 999
         /\ mv - 1000 * (mv \div 1000) = mv % 1000
<1>1. mv \div 1000 \in 0 .. 15
  BY SMT
<1>2. mv % 1000 \in 0 .. 999
  BY SMT
<1>3. mv - 1000 * (mv \div 1000) = mv % 1000
  BY SMT
<1> QED BY <1>1, <1>2, <1>3

\* Page 82 with a valid battery: the status is exact, the voltage at most
\* 4 mV too low, the operating time even.
THEOREM Page82RoundTrip ==
  ASSUME NEW p \in Page82, p.battery_status # STATE_INVALID,
         p.battery_voltage_mv < 16000
  PROVE  LET shown == ant_common_page_82_decode(ant_common_page_82_encode(p)) IN
         /\ shown.battery_status = p.battery_status
         /\ shown.battery_voltage_mv \in Nat
         /\ p.battery_voltage_mv - shown.battery_voltage_mv \in 0 .. 4
         /\ p.operating_time \div 2 \in uint24 =>
              p.operating_time - shown.operating_time \in {0, 1}
         /\ shown.battery_count = p.battery_count
         /\ shown.battery_id = p.battery_id
<1> DEFINE time == p.operating_time
           mv == p.battery_voltage_mv
           s == p.battery_status
           n == p.battery_count
           id == p.battery_id
<1>1. /\ n \in 0 .. 15 /\ id \in 0 .. 15 /\ time \in Nat
      /\ mv \in uint16 /\ mv < 16000 /\ s \in 0 .. 7 /\ s # STATE_INVALID
  BY DEF Page82, Nibble
<1>2. ant_common_page_82_encode(p) =
        LET t == uint24_encode(time \div 2)
            f == FractionalVoltage(mv)
            field == ((mv \div 1000) % 16) + 16 * (s % 8) + 128
            battery == (n % 16) + 16 * (id % 16) IN
        <<255, battery, t[1], t[2], t[3], f, field>>
  BY <1>1 DEF ant_common_page_82_encode
<1> HIDE DEF time, mv, s, n, id
<1>3. mv \in Nat
  BY <1>1 DEF uint16
<1> DEFINE half == time \div 2
           t == uint24_encode(half)
           volts == mv \div 1000
           r == mv % 1000
           f == FractionalVoltage(mv)
           g == (f * 1000) \div 256
           field == (volts % 16) + 16 * (s % 8) + 128
           battery == (n % 16) + 16 * (id % 16)
<1>4. ASSUME half \in uint24
      PROVE  time - (t[1] + 256 * t[2] + 65536 * t[3]) * 2 \in {0, 1}
  <2>1. half \in Nat /\ half \in uint24 /\ time - 2 * half \in {0, 1}
    BY <1>1, <1>4, Halved
  <2>2. t[1] + 256 * t[2] + 65536 * t[3] = half
    BY <2>1, Uint24RoundTrip
  <2> HIDE DEF half, t
  <2> QED BY <1>1, <2>1, <2>2
<1>5. volts \in 0 .. 15 /\ r \in 0 .. 999 /\ mv - 1000 * volts = r
  BY <1>1, <1>3, Volts
<1>6. field % 16 = volts /\ (field \div 16) % 8 = s /\ field \div 128 = 1
  <2>1. volts % 16 = volts
    <3> HIDE DEF volts
    <3> QED BY <1>5
  <2>2. s % 8 = s
    BY <1>1
  <2>3. field = volts + 16 * s + 128
    BY <2>1, <2>2
  <2> HIDE DEF field, volts
  <2> QED BY <1>1, <1>5, <2>3, DescriptiveField
<1>7. (field % 16) * 1000 + g \in Nat /\ mv - ((field % 16) * 1000 + g) \in 0 .. 4
  <2>1. f \in Byte /\ r - g \in 0 .. 4
    BY <1>5, FractionOfVolt DEF FractionalVoltage
  <2>2. g \in Nat
    <3> HIDE DEF f
    <3> QED BY <2>1 DEF Byte
  <2> HIDE DEF field, volts, g, r
  <2>3. volts * 1000 + g \in Nat /\ mv - (volts * 1000 + g) \in 0 .. 4
    BY <1>3, <1>5, <2>1, <2>2
  <2> QED BY <1>6, <2>3
<1>8. battery % 16 = n /\ (battery \div 16) % 16 = id
  BY <1>1
<1>9. ant_common_page_82_decode(<<255, battery, t[1], t[2], t[3], f, field>>)
        = [battery_count |-> n, battery_id |-> id,
           operating_time |-> (t[1] + 256 * t[2] + 65536 * t[3]) * 2,
           battery_voltage_mv |-> (field % 16) * 1000 + g,
           battery_status |-> s]
  <2> HIDE DEF t, f, battery, field
  <2> QED BY <1>6, <1>8 DEF ant_common_page_82_decode, uint24_decode
<1>10. ant_common_page_82_encode(p)
         = <<255, battery, t[1], t[2], t[3], f, field>>
  BY <1>2
<1> HIDE DEF half, t, f, g, battery, field
<1> QED BY <1>4, <1>6, <1>7, <1>9, <1>10 DEF half, time, mv, s, n, id

\* Page 82 shows every battery status, the invalid one among them.
LEMMA StatusShown ==
  ASSUME NEW p \in Page82
  PROVE  ant_common_page_82_decode(ant_common_page_82_encode(p)).battery_status
           = p.battery_status
<1> DEFINE s == p.battery_status
           v == IF s # STATE_INVALID
                THEN (p.battery_voltage_mv \div 1000) % 16 ELSE 15
           field == v + 16 * (s % 8) + 128
<1>1. s \in 0 .. 7 /\ p.battery_voltage_mv \in Nat
  <2>1. s \in 0 .. 7 /\ p.battery_voltage_mv \in uint16
    BY DEF Page82
  <2> QED BY <2>1 DEF uint16
<1>2. v \in 0 .. 15
  <2>1. \A x \in Nat : (x \div 1000) % 16 \in 0 .. 15
    OBVIOUS
  <2> QED BY <1>1, <2>1
<1>3. ant_common_page_82_encode(p)[7] = field
  BY DEF ant_common_page_82_encode
<1> HIDE DEF s, v
<1>4. s % 8 = s
  BY <1>1
<1>5. (field \div 16) % 8 = s
  BY <1>1, <1>2, <1>4, DescriptiveField
<1> HIDE DEF field
<1>6. ant_common_page_82_decode(ant_common_page_82_encode(p)).battery_status
        = (field \div 16) % 8
  BY <1>3 DEF ant_common_page_82_decode
<1> QED BY <1>5, <1>6 DEF s

-----------------------------------------------------------------------------
(* The decoder                                                             *)

\* In the shifted buffer a disturbed bit is inverted, and no other.
LEMMA FlipShifted ==
  ASSUME NEW raw \in Buffer, NEW j \in 0 .. 46
  PROVE  /\ Shifted(Flipped(raw, j + 1))[j] = 1 - Shifted(raw)[j]
         /\ \A i \in Bits \ {j} :
              Shifted(Flipped(raw, j + 1))[i] = Shifted(raw)[i]
<1>1. /\ Flipped(raw, j + 1)[j + 1] = 1 - raw[j + 1]
      /\ \A i \in Bits : i # j + 1 => Flipped(raw, j + 1)[i] = raw[i]
  BY DEF Flipped, Buffer, Bits
<1>2. \A i \in Bits : i < 47 => i + 1 \in Bits
  BY DEF Bits
<1> QED BY <1>1, <1>2 DEF Shifted, Bits

LEMMA ShiftedBits ==
  ASSUME NEW raw \in Buffer
  PROVE  Shifted(raw) \in Buffer
BY DEF Shifted, Buffer, Bits

\* A frame in which one bit is disturbed, other than the lowest of a byte,
\* is dropped (decode_sensor_buffer).
THEOREM DisturbanceDetected ==
  ASSUME NEW raw \in Buffer, NEW n \in 0 .. 5, NEW k \in 0 .. 6,
         ~ChecksumFails(Shifted(raw))
  PROVE  ChecksumFails(Shifted(Flipped(raw, 8 * n + k + 1)))
<1> DEFINE b == Shifted(raw)
           j == 8 * n + k
           c == Shifted(Flipped(raw, j + 1))
<1>1. j \in 0 .. 46
  OBVIOUS
<1>2. c[j] = 1 - b[j] /\ \A i \in Bits : i # j => c[i] = b[i]
  BY <1>1, FlipShifted
<1>3. \A i \in Bits : b[i] \in {0, 1}
  BY ShiftedBits DEF Buffer
<1>4. ChecksumBit(b, k) = b[40 + k]
  BY DEF ChecksumFails
<1>5. {k, 8 + k, 16 + k, 24 + k, 32 + k, 40 + k} \subseteq Bits
  BY DEF Bits
<1> HIDE DEF b, c
<1>6. ChecksumBit(c, k) # c[40 + k]
  <2>1. CASE n = 0
    BY <1>2, <1>3, <1>4, <1>5, <2>1 DEF ChecksumBit
  <2>2. CASE n = 1
    BY <1>2, <1>3, <1>4, <1>5, <2>2 DEF ChecksumBit
  <2>3. CASE n = 2
    BY <1>2, <1>3, <1>4, <1>5, <2>3 DEF ChecksumBit
  <2>4. CASE n = 3
    BY <1>2, <1>3, <1>4, <1>5, <2>4 DEF ChecksumBit
  <2>5. CASE n = 4
    BY <1>2, <1>3, <1>4, <1>5, <2>5 DEF ChecksumBit
  <2>6. CASE n = 5
    BY <1>2, <1>3, <1>4, <1>5, <2>6 DEF ChecksumBit
  <2> QED BY <2>1, <2>2, <2>3, <2>4, <2>5, <2>6
<1> QED BY <1>6 DEF ChecksumFails, c

\* The bits of a byte make up the byte.
LEMMA BitsOfByte ==
  ASSUME NEW v \in Byte
  PROVE  /\ \A i \in 0 .. 7 : BitOf(v, i) \in {0, 1}
         /\ 128 * BitOf(v, 0) + 64 * BitOf(v, 1) + 32 * BitOf(v, 2)
              + 16 * BitOf(v, 3) + 8 * BitOf(v, 4) + 4 * BitOf(v, 5)
              + 2 * BitOf(v, 6) + BitOf(v, 7) = v
<1>1. /\ BitOf(v, 0) = (v \div 128) % 2 /\ BitOf(v, 1) = (v \div 64) % 2
      /\ BitOf(v, 2) = (v \div 32) % 2 /\ BitOf(v, 3) = (v \div 16) % 2
      /\ BitOf(v, 4) = (v \div 8) % 2 /\ BitOf(v, 5) = (v \div 4) % 2
      /\ BitOf(v, 6) = (v \div 2) % 2 /\ BitOf(v, 7) = (v \div 1) % 2
  BY DEF BitOf
<1>2. /\ (v \div 128) % 2 = v \div 128
      /\ (v \div 64) % 2 = (v \div 64) - 2 * (v \div 128)
      /\ (v \div 32) % 2 = (v \div 32) - 2 * (v \div 64)
      /\ (v \div 16) % 2 = (v \div 16) - 2 * (v \div 32)
      /\ (v \div 8) % 2 = (v \div 8) - 2 * (v \div 16)
      /\ (v \div 4) % 2 = (v \div 4) - 2 * (v \div 8)
      /\ (v \div 2) % 2 = (v \div 2) - 2 * (v \div 4)
      /\ (v \div 1) % 2 = v - 2 * (v \div 2)
  BY SMT DEF Byte
<1>3. \A i \in 0 .. 7 : BitOf(v, i) \in {0, 1}
  <2>1. \A x \in Nat : x % 2 \in {0, 1}
    OBVIOUS
  <2>2. /\ v \div 128 \in Nat /\ v \div 64 \in Nat /\ v \div 32 \in Nat
        /\ v \div 16 \in Nat /\ v \div 8 \in Nat /\ v \div 4 \in Nat
        /\ v \div 2 \in Nat /\ v \div 1 \in Nat
    BY DEF Byte
  <2>3. \A i \in 0 .. 7 : i \in {0, 1, 2, 3, 4, 5, 6, 7}
    OBVIOUS
  <2> QED BY <1>1, <2>1, <2>2, <2>3
<1>4. v \in Int /\ v \div 128 \in Int /\ v \div 64 \in Int /\ v \div 32 \in Int
      /\ v \div 16 \in Int /\ v \div 8 \in Int /\ v \div 4 \in Int /\ v \div 2 \in Int
  BY DEF Byte
<1>5. 128 * BitOf(v, 0) + 64 * BitOf(v, 1) + 32 * BitOf(v, 2)
        + 16 * BitOf(v, 3) + 8 * BitOf(v, 4) + 4 * BitOf(v, 5)
        + 2 * BitOf(v, 6) + BitOf(v, 7) = v
  <2> DEFINE a == v \div 128
             b == v \div 64
             c == v \div 32
             d == v \div 16
             e == v \div 8
             f == v \div 4
             g == v \div 2
  <2>1. /\ BitOf(v, 0) = a /\ BitOf(v, 1) = b - 2 * a
        /\ BitOf(v, 2) = c - 2 * b /\ BitOf(v, 3) = d - 2 * c
        /\ BitOf(v, 4) = e - 2 * d /\ BitOf(v, 5) = f - 2 * e
        /\ BitOf(v, 6) = g - 2 * f /\ BitOf(v, 7) = v - 2 * g
    BY <1>1, <1>2
  <2> HIDE DEF a, b, c, d, e, f, g
  <2> QED BY <1>4, <2>1 DEF a, b, c, d, e, f, g
<1> QED BY <1>3, <1>5

LEMMA Int16Range ==
  ASSUME NEW c \in int16
  PROVE  c \in Int /\ c >= -32768 /\ c <= 32767
BY DEF int16

LEMMA HighByte ==
  ASSUME NEW u \in Int, 0 <= u, u <= 65535
  PROVE  u \div 256 \in Byte
BY SMT DEF Byte

LEMMA ModRange ==
  ASSUME NEW c \in Int
  PROVE  /\ c % 256 \in Byte
         /\ c % 65536 \in Nat /\ c % 65536 <= 65535
         /\ (c % 65536) % 256 = c % 256
BY SMT DEF Byte

LEMMA DataBytesTyped ==
  ASSUME NEW m \in Measurement, NEW n \in 0 .. 4
  PROVE  DataBytes(m)[n] \in Byte
<1>1. /\ m.count \in int16
      /\ m.temperature \in Byte /\ m.voltage \in Byte /\ m.flags \in Byte
  BY DEF Measurement, Byte
<1>2. /\ m.count % 256 \in Byte
      /\ m.count % 65536 \in Nat /\ m.count % 65536 <= 65535
  BY <1>1, Int16Range, ModRange
<1>3. (m.count % 65536) \div 256 \in Byte
  <2>1. \A u \in Nat : u <= 65535 => u \div 256 \in Byte
    BY HighByte
  <2> QED BY <1>2, <2>1
<1> QED BY <1>1, <1>2, <1>3 DEF DataBytes

\* The bits of an undisturbed frame, after the shift.
LEMMA SentBits ==
  ASSUME NEW m \in Measurement
  PROVE  /\ FrameOf(m) \in Buffer
         /\ \A n \in 0 .. 4, i \in 0 .. 7 :
              Shifted(FrameOf(m))[8 * n + i] = BitOf(DataBytes(m)[n], i)
<1> DEFINE data == [i \in 0 .. 39 |-> BitOf(DataBytes(m)[i \div 8], i % 8)]
<1>1. \A i \in 0 .. 39 : i \div 8 \in 0 .. 4 /\ i % 8 \in 0 .. 7
  OBVIOUS
<1>2. \A i \in 0 .. 39 : data[i] \in {0, 1}
  BY <1>1, DataBytesTyped, BitsOfByte
<1>3. \A n \in 0 .. 4, i \in 0 .. 7 : data[8 * n + i] = BitOf(DataBytes(m)[n], i)
  <2> SUFFICES ASSUME NEW n \in 0 .. 4, NEW i \in 0 .. 7
               PROVE  data[8 * n + i] = BitOf(DataBytes(m)[n], i)
    OBVIOUS
  <2>1. 8 * n + i \in 0 .. 39 /\ (8 * n + i) \div 8 = n /\ (8 * n + i) % 8 = i
    OBVIOUS
  <2> QED BY <2>1
<1> HIDE DEF data
<1>4. FrameOf(m) = [i \in Bits |->
                      CASE i = 0 -> 0
                        [] i \in 1 .. 40 -> data[i - 1]
                        [] i \in 41 .. 47 -> ChecksumBit(data, i - 41)]
  BY DEF FrameOf, data
<1>5. \A k \in 0 .. 6 : ChecksumBit(data, k) \in {0, 1}
  <2> SUFFICES ASSUME NEW k \in 0 .. 6
               PROVE  ChecksumBit(data, k) \in {0, 1}
    OBVIOUS
  <2>1. /\ data[k] \in {0, 1} /\ data[8 + k] \in {0, 1}
        /\ data[16 + k] \in {0, 1} /\ data[24 + k] \in {0, 1}
        /\ data[32 + k] \in {0, 1}
    BY <1>2
  <2> QED BY <2>1 DEF ChecksumBit
<1>6. FrameOf(m) \in Buffer
  <2>1. \A i \in Bits : FrameOf(m)[i] \in {0, 1}
    BY <1>2, <1>4, <1>5 DEF Bits
  <2> QED BY <1>4, <2>1 DEF Buffer
<1>7. \A i \in 0 .. 39 : Shifted(FrameOf(m))[i] = data[i]
  <2> SUFFICES ASSUME NEW i \in 0 .. 39
               PROVE  Shifted(FrameOf(m))[i] = data[i]
    OBVIOUS
  <2>1. i \in Bits /\ i + 1 \in Bits /\ i < 47 /\ i + 1 \in 1 .. 40
        /\ i + 1 # 0 /\ (i + 1) - 1 = i
    BY DEF Bits
  <2>2. FrameOf(m)[i + 1] = data[(i + 1) - 1]
    BY <1>4, <2>1
  <2> QED BY <2>1, <2>2 DEF Shifted
<1>8. \A n \in 0 .. 4, i \in 0 .. 7 : 8 * n + i \in 0 .. 39
  OBVIOUS
<1> QED BY <1>3, <1>6, <1>7, <1>8

\* The decoder finds the bytes the sensor has sent.
LEMMA SentByte ==
  ASSUME NEW m \in Measurement, NEW n \in 0 .. 4
  PROVE  ByteOf(Shifted(FrameOf(m)), n) = DataBytes(m)[n]
<1> DEFINE b == Shifted(FrameOf(m))
           v == DataBytes(m)[n]
<1>1. /\ b[8 * n] = BitOf(v, 0) /\ b[8 * n + 1] = BitOf(v, 1)
      /\ b[8 * n + 2] = BitOf(v, 2) /\ b[8 * n + 3] = BitOf(v, 3)
      /\ b[8 * n + 4] = BitOf(v, 4) /\ b[8 * n + 5] = BitOf(v, 5)
      /\ b[8 * n + 6] = BitOf(v, 6) /\ b[8 * n + 7] = BitOf(v, 7)
  <2>1. 8 * n + 0 = 8 * n
    OBVIOUS
  <2> QED BY <2>1, SentBits
<1>2. v \in Byte
  BY DataBytesTyped
<1> HIDE DEF b, v
<1>3. ByteOf(b, n) = v
  BY <1>1, <1>2, BitsOfByte DEF ByteOf
<1> QED BY <1>3 DEF b, v

\* An undisturbed frame is decoded to what has been measured.
LEMMA SentCount ==
  ASSUME NEW m \in Measurement
  PROVE  /\ Count(Shifted(FrameOf(m))) = m.count
         /\ voltage_mv(Shifted(FrameOf(m)))
              = (m.voltage + SENSOR_COMP_CONST_VOLT) * 10
<1>1. m.count \in int16
  BY DEF Measurement
<1>2. /\ ByteOf(Shifted(FrameOf(m)), 0) = (m.count % 65536) \div 256
      /\ ByteOf(Shifted(FrameOf(m)), 1) = m.count % 256
      /\ ByteOf(Shifted(FrameOf(m)), 3) = m.voltage
  BY SentByte DEF DataBytes
<1>3. ASSUME NEW c \in int16
      PROVE  Int16(256 * ((c % 65536) \div 256) + (c % 256)) = c
  <2> DEFINE u == c % 65536
  <2>1. c \in Int /\ c >= -32768 /\ c <= 32767
    BY Int16Range
  <2>2. u \in Nat /\ u % 256 = c % 256
    BY <2>1, ModRange
  <2>3. ((u + 32768) % 65536) - 32768 = c
    BY <2>1, SMT
  <2> HIDE DEF u
  <2>4. (u % 256) + 256 * (u \div 256) = u
    BY <2>2, LowByte
  <2>5. 256 * (u \div 256) + (c % 256) = u
    <3>1. u \div 256 \in Nat /\ u % 256 \in Nat
      BY <2>2, LowByte DEF Byte
    <3> QED BY <2>2, <2>4, <3>1
  <2> QED BY <2>3, <2>5 DEF Int16, u
<1> QED BY <1>1, <1>2, <1>3 DEF Count, voltage_mv

\* The checksum of an undisturbed frame is right.
LEMMA SentChecksum ==
  ASSUME NEW m \in Measurement
  PROVE  ~ChecksumFails(Shifted(FrameOf(m)))
<1> DEFINE data == [i \in 0 .. 39 |-> BitOf(DataBytes(m)[i \div 8], i % 8)]
           b == Shifted(FrameOf(m))
<1> HIDE DEF data
<1>1. FrameOf(m) = [i \in Bits |->
                      CASE i = 0 -> 0
                        [] i \in 1 .. 40 -> data[i - 1]
                        [] i \in 41 .. 47 -> ChecksumBit(data, i - 41)]
  BY DEF FrameOf, data
<1>2. ASSUME NEW i \in 0 .. 46
      PROVE  b[i] = IF i < 40 THEN data[i] ELSE ChecksumBit(data, i - 40)
  <2>1. i \in Bits /\ i < 47 /\ i + 1 \in Bits /\ i + 1 # 0
    BY DEF Bits
  <2>2. b[i] = FrameOf(m)[i + 1]
    BY <2>1 DEF Shifted
  <2>3. CASE i < 40
    <3>1. /\ i + 1 \in 1 .. 40 /\ (i + 1) - 1 = i
          /\ i + 1 # 0 /\ ~(i + 1 \in 41 .. 47)
      BY <2>3
    <3>2. FrameOf(m)[i + 1] = data[(i + 1) - 1]
      BY <1>1, <2>1, <3>1
    <3> QED BY <2>2, <2>3, <3>1, <3>2
  <2>4. CASE ~(i < 40)
    <3>1. i + 1 \in 41 .. 47 /\ ~(i + 1 \in 1 .. 40) /\ (i + 1) - 41 = i - 40
      BY <2>4
    <3> QED BY <1>1, <2>1, <2>2, <2>4, <3>1
  <2> QED BY <2>3, <2>4
<1> HIDE DEF b
<1>3. ASSUME NEW k \in 0 .. 6
      PROVE  ChecksumBit(b, k) = b[40 + k]
  <2>1. /\ b[k] = data[k] /\ b[8 + k] = data[8 + k]
        /\ b[16 + k] = data[16 + k] /\ b[24 + k] = data[24 + k]
        /\ b[32 + k] = data[32 + k]
    BY <1>2
  <2>2. 40 + k \in 0 .. 46 /\ ~(40 + k < 40) /\ (40 + k) - 40 = k
    OBVIOUS
  <2>3. b[40 + k] = ChecksumBit(data, k)
    BY <1>2, <2>2
  <2> QED BY <2>1, <2>3 DEF ChecksumBit
<1> QED BY <1>3 DEF ChecksumFails, b

\* The bits of a disturbed frame that the checksum does not cover: the first
\* one, which means nothing, and the lowest of each data byte.
LEMMA Undetected ==
  ASSUME NEW m \in Measurement, NEW bit \in Bits,
         ~ChecksumFails(Shifted(Flipped(FrameOf(m), bit)))
  PROVE  bit = 0 \/ \E n \in 0 .. 4 : bit = 8 * n + 7 + 1
<1>1. FrameOf(m) \in Buffer /\ ~ChecksumFails(Shifted(FrameOf(m)))
  BY SentBits, SentChecksum
<1>2. ~ \E n \in 0 .. 5, k \in 0 .. 6 : bit = 8 * n + k + 1
  BY <1>1, DisturbanceDetected
<1>3. bit \in 0 .. 47
  BY DEF Bits
<1>4. ASSUME bit # 0
      PROVE  \E n \in 0 .. 5, k \in 0 .. 7 : bit = 8 * n + k + 1
  <2>1. \A x \in 0 .. 46 : /\ x \div 8 \in 0 .. 5 /\ x % 8 \in 0 .. 7
                           /\ x = 8 * (x \div 8) + (x % 8)
    OBVIOUS
  <2>2. bit - 1 \in 0 .. 46 /\ bit = (bit - 1) + 1
    BY <1>3, <1>4
  <2>3. PICK n \in 0 .. 5, k \in 0 .. 7 : bit - 1 = 8 * n + k
    BY <2>1, <2>2
  <2> QED BY <2>2, <2>3
<1>5. ASSUME NEW n \in 0 .. 5, NEW k \in 0 .. 7, bit = 8 * n + k + 1
      PROVE  k = 7 /\ n \in 0 .. 4
  <2>1. k = 7
    BY <1>2, <1>5
  <2> QED BY <1>3, <1>5, <2>1
<1> QED BY <1>4, <1>5

\* Byte n of c is that of b with its lowest bit inverted.
LowestInverted(b, c, n) ==
  /\ \A i \in 0 .. 7 : b[8 * n + i] \in {0, 1}
  /\ c[8 * n + 7] = 1 - b[8 * n + 7]
  /\ \A i \in 0 .. 6 : c[8 * n + i] = b[8 * n + i]

LEMMA LowestBit ==
  ASSUME NEW b, NEW c, NEW n \in 0 .. 4, LowestInverted(b, c, n)
  PROVE  \E q \in Nat, r \in {0, 1} :
           ByteOf(b, n) = 2 * q + r /\ ByteOf(c, n) = 2 * q + 1 - r
<1> DEFINE q == 64 * b[8 * n] + 32 * b[8 * n + 1] + 16 * b[8 * n + 2]
                  + 8 * b[8 * n + 3] + 4 * b[8 * n + 4] + 2 * b[8 * n + 5]
                  + b[8 * n + 6]
           r == b[8 * n + 7]
<1>1. /\ b[8 * n] \in {0, 1} /\ b[8 * n + 1] \in {0, 1}
      /\ b[8 * n + 2] \in {0, 1} /\ b[8 * n + 3] \in {0, 1}
      /\ b[8 * n + 4] \in {0, 1} /\ b[8 * n + 5] \in {0, 1}
      /\ b[8 * n + 6] \in {0, 1} /\ r \in {0, 1}
      /\ c[8 * n] = b[8 * n] /\ c[8 * n + 1] = b[8 * n + 1]
      /\ c[8 * n + 2] = b[8 * n + 2] /\ c[8 * n + 3] = b[8 * n + 3]
      /\ c[8 * n + 4] = b[8 * n + 4] /\ c[8 * n + 5] = b[8 * n + 5]
      /\ c[8 * n + 6] = b[8 * n + 6] /\ c[8 * n + 7] = 1 - r
  <2>1. 8 * n + 0 = 8 * n
    OBVIOUS
  <2> QED BY <2>1 DEF LowestInverted
<1>2. q \in Nat
  BY <1>1
<1>3. ByteOf(b, n) = 2 * q + r /\ ByteOf(c, n) = 2 * q + 1 - r
  BY <1>1 DEF ByteOf
<1> HIDE DEF q, r
<1> QED BY <1>1, <1>2, <1>3

LEMMA Int16Typed ==
  ASSUME NEW x \in Int
  PROVE  Int16(x) \in int16
<1>1. (x + 32768) % 65536 \in Nat /\ (x + 32768) % 65536 <= 65535
  BY ModRange
<1> QED BY <1>1 DEF Int16, int16

\* Two bytes, the high one first, as an int16_t.
Word(high, low) == Int16(256 * high + low)

\* Inverting the lowest bit of the high byte changes the number by 256, that
\* of the low byte by one; neither changes its sign.
LEMMA HighByteDisturbed ==
  \A high \in Byte, low \in Byte, other \in Byte :
    (other = high - 1 \/ other = high + 1) /\ (other < 128 <=> high < 128) =>
      /\ Word(other, low) \in {Word(high, low) - 256, Word(high, low) + 256}
      /\ Word(high, low) >= 0 => Word(other, low) >= 0
BY SMT DEF Word, Int16, Byte

LEMMA LowByteDisturbed ==
  \A high \in Byte, low \in Byte, other \in Byte :
    other = low - 1 \/ other = low + 1 =>
      /\ Word(high, other) \in {Word(high, low) - 1, Word(high, low) + 1}
      /\ Word(high, low) >= 0 => Word(high, other) >= 0
BY SMT DEF Word, Int16, Byte

\* What the decoder makes of a disturbed frame that it accepts: at most one
\* value is wrong, by the lowest bit of its byte.
LEMMA AcceptedReading ==
  ASSUME NEW m \in Measurement, NEW bit \in Bits,
         ~ChecksumFails(Shifted(Flipped(FrameOf(m), bit)))
  PROVE  LET c == Shifted(Flipped(FrameOf(m), bit))
             error == IF bit = 8 THEN 256 ELSE 1
             voltage == (m.voltage + SENSOR_COMP_CONST_VOLT) * 10 IN
         /\ Count(c) \in {m.count - error, m.count, m.count + error}
         /\ m.count >= 0 => Count(c) >= 0
         /\ Count(c) \in int16
         /\ voltage_mv(c) \in {voltage - 10, voltage, voltage + 10}
<1> DEFINE b == Shifted(FrameOf(m))
           c == Shifted(Flipped(FrameOf(m), bit))
           error == IF bit = 8 THEN 256 ELSE 1
           V == (m.voltage + SENSOR_COMP_CONST_VOLT) * 10
<1>1. /\ Count(b) = m.count /\ voltage_mv(b) = V
      /\ m.count \in int16 /\ m.voltage \in 0 .. 255
  BY SentCount DEF Measurement
<1>2. \A n \in 0 .. 4 : ByteOf(b, n) \in 0 .. 255
  BY SentByte, DataBytesTyped DEF Byte
<1>3. \A n \in 0 .. 4, i \in 0 .. 7 : 8 * n + i \in 0 .. 39 /\ b[8 * n + i] \in {0, 1}
  <2>1. \A n \in 0 .. 4, i \in 0 .. 7 : 8 * n + i \in 0 .. 39 /\ 8 * n + i \in Bits
    BY DEF Bits
  <2>2. b \in Buffer
    BY SentBits, ShiftedBits
  <2> QED BY <2>1, <2>2 DEF Buffer
<1>4. CASE bit = 0
  <2>1. \A i \in Bits : i + 1 # 0 /\ (i < 47 => i + 1 \in Bits)
    BY DEF Bits
  <2>2. \A i \in Bits : i # 0 => Flipped(FrameOf(m), bit)[i] = FrameOf(m)[i]
    BY <1>4, SentBits DEF Flipped, Buffer
  <2>3. c = b
    BY <2>1, <2>2 DEF Shifted
  <2>4. m.count \in Int
    BY <1>1, Int16Range
  <2> HIDE DEF b, c
  <2> QED BY <1>1, <2>3, <2>4 DEF b, c
<1>5. ASSUME NEW n \in 0 .. 4, bit = 8 * n + 7 + 1
      PROVE  /\ Count(c) \in {m.count - error, m.count, m.count + error}
             /\ m.count >= 0 => Count(c) >= 0
             /\ Count(c) \in int16
             /\ voltage_mv(c) \in {V - 10, V, V + 10}
  <2>1. /\ c[8 * n + 7] = 1 - b[8 * n + 7]
        /\ \A i \in 0 .. 39 : i # 8 * n + 7 => c[i] = b[i]
    <3>1. 8 * n + 7 \in 0 .. 46 /\ 0 .. 39 \subseteq Bits
      BY DEF Bits
    <3> QED BY <1>5, <3>1, SentBits, FlipShifted
  <2> HIDE DEF b, c
  <2>2. PICK q \in Nat, r \in {0, 1} :
          ByteOf(b, n) = 2 * q + r /\ ByteOf(c, n) = 2 * q + 1 - r
    <3>1. \A i \in 0 .. 6 : c[8 * n + i] = b[8 * n + i]
      BY <1>3, <2>1
    <3>2. LowestInverted(b, c, n)
      BY <1>3, <2>1, <3>1 DEF LowestInverted
    <3> QED BY <3>2, LowestBit
  <2>3. \A k \in 0 .. 4 : k # n => ByteOf(c, k) = ByteOf(b, k)
    <3> SUFFICES ASSUME NEW k \in 0 .. 4, k # n
                 PROVE  ByteOf(c, k) = ByteOf(b, k)
      OBVIOUS
    <3>1. \A i \in 0 .. 7 : 8 * k + i # 8 * n + 7
      <4>1. k <= n - 1 \/ k >= n + 1
        OBVIOUS
      <4> QED BY <4>1
    <3>2. \A i \in 0 .. 7 : c[8 * k + i] = b[8 * k + i]
      BY <1>3, <2>1, <3>1
    <3>3. /\ c[8 * k] = b[8 * k] /\ c[8 * k + 1] = b[8 * k + 1]
          /\ c[8 * k + 2] = b[8 * k + 2] /\ c[8 * k + 3] = b[8 * k + 3]
          /\ c[8 * k + 4] = b[8 * k + 4] /\ c[8 * k + 5] = b[8 * k + 5]
          /\ c[8 * k + 6] = b[8 * k + 6] /\ c[8 * k + 7] = b[8 * k + 7]
      <4>1. 8 * k + 0 = 8 * k
        OBVIOUS
      <4> QED BY <3>2, <4>1
    <3> QED BY <3>3 DEF ByteOf
  <2>4. m.count \in Int
    BY <1>1, Int16Range
  <2> DEFINE high == ByteOf(b, 0)
             low == ByteOf(b, 1)
  <2>5. high \in 0 .. 255 /\ low \in 0 .. 255 /\ m.count = Word(high, low)
    BY <1>1, <1>2 DEF Count, Word
  <2>6. /\ Count(c) \in {m.count - error, m.count, m.count + error}
        /\ m.count >= 0 => Count(c) >= 0
    <3>1. CASE n = 0
      <4> DEFINE other == ByteOf(c, 0)
      <4>1. /\ other = high - 1 \/ other = high + 1
            /\ other < 128 <=> high < 128
            /\ other \in 0 .. 255
        <5>1. high = 2 * q + r /\ other = 2 * q + 1 - r /\ high \in 0 .. 255
          BY <2>2, <2>5, <3>1
        <5> HIDE DEF high, other
        <5>2. CASE r = 0
          BY <2>2, <5>1, <5>2
        <5>3. CASE r = 1
          BY <2>2, <5>1, <5>3
        <5> QED BY <2>2, <5>2, <5>3
      <4>2. Count(c) = Word(other, low) /\ error = 256
        BY <1>5, <2>3, <3>1 DEF Count, Word
      <4> HIDE DEF high, low, error, other
      <4>3. /\ Word(other, low) \in {Word(high, low) - 256, Word(high, low) + 256}
            /\ Word(high, low) >= 0 => Word(other, low) >= 0
        <5>1. high \in Byte /\ low \in Byte /\ other \in Byte
          BY <2>5, <4>1 DEF Byte
        <5> QED BY <4>1, <5>1, Zenon, HighByteDisturbed
      <4> QED BY <2>5, <4>2, <4>3
    <3>2. CASE n = 1
      <4> DEFINE other == ByteOf(c, 1)
      <4>1. /\ other = low - 1 \/ other = low + 1
            /\ other \in 0 .. 255
        <5>1. low = 2 * q + r /\ other = 2 * q + 1 - r /\ low \in 0 .. 255
          BY <2>2, <2>5, <3>2
        <5> HIDE DEF low, other
        <5> QED BY <2>2, <5>1
      <4>2. Count(c) = Word(high, other) /\ error = 1
        BY <1>5, <2>3, <3>2 DEF Count, Word
      <4> HIDE DEF high, low, error, other
      <4>3. /\ Word(high, other) \in {Word(high, low) - 1, Word(high, low) + 1}
            /\ Word(high, low) >= 0 => Word(high, other) >= 0
        <5>1. high \in Byte /\ low \in Byte /\ other \in Byte
          BY <2>5, <4>1 DEF Byte
        <5> QED BY <4>1, <5>1, Zenon, LowByteDisturbed
      <4> QED BY <2>5, <4>2, <4>3
    <3>3. CASE n \in 2 .. 4
      <4>1. ByteOf(c, 0) = high /\ ByteOf(c, 1) = low
        BY <2>3, <3>3
      <4>2. Count(c) = m.count
        BY <2>5, <4>1 DEF Count, Word
      <4> QED BY <2>4, <4>2
    <3> QED BY <3>1, <3>2, <3>3
  <2>7. Count(c) \in int16
    <3>1. ByteOf(c, 0) \in Int /\ ByteOf(c, 1) \in Int
      <4>1. \A k \in 0 .. 4 : ByteOf(c, k) \in Int
        BY <1>2, <2>2, <2>3
      <4> QED BY <4>1
    <3> QED BY <3>1, Int16Typed DEF Count
  <2>8. voltage_mv(c) \in {V - 10, V, V + 10}
    <3>1. V = (ByteOf(b, 3) + 122) * 10 /\ ByteOf(b, 3) \in 0 .. 255
      BY <1>1, <1>2 DEF voltage_mv, SENSOR_COMP_CONST_VOLT
    <3>2. \/ ByteOf(c, 3) = ByteOf(b, 3) \/ ByteOf(c, 3) = ByteOf(b, 3) + 1
          \/ ByteOf(c, 3) = ByteOf(b, 3) - 1
      BY <2>2, <2>3
    <3>3. voltage_mv(c) = (ByteOf(c, 3) + 122) * 10
      BY DEF voltage_mv, SENSOR_COMP_CONST_VOLT
    <3> HIDE DEF V
    <3> QED BY <3>1, <3>2, <3>3
  <2> QED BY <2>6, <2>7, <2>8
<1>6. bit = 0 \/ \E n \in 0 .. 4 : bit = 8 * n + 7 + 1
  BY Undetected
<1> QED BY <1>4, <1>5, <1>6

-----------------------------------------------------------------------------
(* The values on the pages                                                 *)

\* What the decoder hands on is an int16_t and a voltage of up to 3770 mV.
LEMMA DecodedTyped ==
  ASSUME NEW b \in Buffer, NEW r \in Decoded(b)
  PROVE  /\ r.pressure_hpa \in int16
         /\ r.voltage_mv = voltage_mv(b)
         /\ r.voltage_mv \in Nat /\ r.voltage_mv <= 3770
<1>1. \A n \in 0 .. 5 : ByteOf(b, n) \in 0 .. 255
  <2> SUFFICES ASSUME NEW n \in 0 .. 5 PROVE ByteOf(b, n) \in 0 .. 255
    OBVIOUS
  <2>1. \A i \in 0 .. 7 : 8 * n + i \in Bits
    BY DEF Bits
  <2>2. /\ b[8 * n] \in {0, 1} /\ b[8 * n + 1] \in {0, 1}
        /\ b[8 * n + 2] \in {0, 1} /\ b[8 * n + 3] \in {0, 1}
        /\ b[8 * n + 4] \in {0, 1} /\ b[8 * n + 5] \in {0, 1}
        /\ b[8 * n + 6] \in {0, 1} /\ b[8 * n + 7] \in {0, 1}
    <3>1. 8 * n + 0 = 8 * n
      OBVIOUS
    <3> QED BY <2>1, <3>1 DEF Buffer
  <2> QED BY <2>2 DEF ByteOf
<1>2. voltage_mv(b) \in Nat /\ voltage_mv(b) <= 3770
  BY <1>1 DEF voltage_mv, SENSOR_COMP_CONST_VOLT
<1>3. \A u \in Converted(Count(b)) : u \in Int
  <2>1. Count(b) \in Int
    <3> DEFINE high == ByteOf(b, 0)
               low == ByteOf(b, 1)
    <3>1. high \in 0 .. 255 /\ low \in 0 .. 255
      BY <1>1
    <3> HIDE DEF high, low
    <3>2. 256 * high + low \in Int
      BY <3>1
    <3>3. Int16(256 * high + low) \in Int
      BY <3>2, Int16Typed, Int16Range
    <3> QED BY <3>3 DEF Count, high, low
  <2>2. Product(Count(b)) \in Int
    BY <2>1 DEF Product
  <2> QED BY <2>2 DEF Converted
<1>4. \A u \in Int : Int16(u + SENSOR_COMP_CONST_PRESS_OFFSET) \in int16
  <2>1. \A u \in Int : u + SENSOR_COMP_CONST_PRESS_OFFSET \in Int
    BY DEF SENSOR_COMP_CONST_PRESS_OFFSET
  <2> QED BY <2>1, Int16Typed
<1>5. r \in {[pressure_hpa |-> p, voltage_mv |-> voltage_mv(b)] :
                p \in pressure_hpa(b)}
  BY DEF Decoded
<1>6. PICK p \in pressure_hpa(b) :
        r = [pressure_hpa |-> p, voltage_mv |-> voltage_mv(b)]
  BY <1>5
<1>7. p \in int16
  BY <1>3, <1>4 DEF pressure_hpa
<1> QED BY <1>2, <1>6, <1>7

\* What the decoder may take for the count and the voltage of a measurement.
Error(bit) == IF bit = 8 THEN 256 ELSE 1

CountsOf(m, bit) ==
  {k \in int16 :
     /\ m.count >= 0 => k >= 0
     /\ k \in IF bit = NoBit THEN {m.count}
              ELSE {m.count - Error(bit), m.count, m.count + Error(bit)}}

VoltageOf(m) == (m.voltage + SENSOR_COMP_CONST_VOLT) * 10

VoltagesOf(m, bit) ==
  IF bit = NoBit THEN {VoltageOf(m)}
  ELSE {VoltageOf(m) - 10, VoltageOf(m), VoltageOf(m) + 10}

\* Bits of a frame may be disturbed; it is a frame all the same, and what is
\* accepted is what was sent to within the lowest bit of a byte.
LEMMA ReceivedTyped ==
  ASSUME NEW m \in Measurements, NEW bit \in Disturbed,
         NEW r \in Received[m][bit]
  PROVE  /\ r.pressure_hpa \in int16
         /\ r.voltage_mv \in Nat /\ r.voltage_mv <= 3770
         /\ r.voltage_mv \in VoltagesOf(m, bit)
         /\ \E k \in CountsOf(m, bit) : \E u \in Converted(k) :
              r.pressure_hpa = Int16(u + SENSOR_COMP_CONST_PRESS_OFFSET)
<1> DEFINE raw == IF bit = NoBit THEN FrameOf(m) ELSE Flipped(FrameOf(m), bit)
<1>1. m \in Measurement /\ bit \in Bits \cup {NoBit}
  BY DataAssumption
<1>2. FrameOf(m) \in Buffer
  BY <1>1, SentBits
<1>3. raw \in Buffer
  <2>1. CASE bit = NoBit
    BY <1>2, <2>1
  <2>2. CASE bit # NoBit
    <3>1. bit \in Bits /\ FrameOf(m)[bit] \in {0, 1}
      BY <1>1, <1>2, <2>2 DEF Buffer
    <3>2. 1 - FrameOf(m)[bit] \in {0, 1}
      BY <3>1
    <3>3. Flipped(FrameOf(m), bit) \in Buffer
      BY <1>2, <3>1, <3>2 DEF Flipped, Buffer
    <3> QED BY <2>2, <3>3
  <2> QED BY <2>1, <2>2
<1>4. Received[m][bit] = Decoded(Shifted(raw))
  BY DEF Received, decode_sensor_buffer
<1>5. Shifted(raw) \in Buffer
  BY <1>3, ShiftedBits
<1>6. /\ r.pressure_hpa \in int16 /\ r.voltage_mv = voltage_mv(Shifted(raw))
      /\ r.voltage_mv \in Nat /\ r.voltage_mv <= 3770
  BY <1>4, <1>5, DecodedTyped
<1>7. ~ChecksumFails(Shifted(raw)) /\ r.pressure_hpa \in pressure_hpa(Shifted(raw))
  BY <1>4 DEF Decoded
<1>8. Count(Shifted(raw)) \in CountsOf(m, bit)
      /\ voltage_mv(Shifted(raw)) \in VoltagesOf(m, bit)
  <2>1. CASE bit = NoBit
    <3>1. raw = FrameOf(m)
      BY <2>1
    <3>2. m.count \in int16
      BY <1>1 DEF Measurement
    <3> QED BY <1>1, <2>1, <3>1, <3>2, SentCount DEF CountsOf, VoltagesOf, VoltageOf
  <2>2. CASE bit # NoBit
    <3>1. raw = Flipped(FrameOf(m), bit) /\ bit \in Bits
      BY <1>1, <2>2
    <3> HIDE DEF raw
    <3> QED BY <1>1, <1>7, <2>2, <3>1, AcceptedReading
            DEF CountsOf, VoltagesOf, VoltageOf, Error
  <2> QED BY <2>1, <2>2
<1> HIDE DEF raw
<1>9. PICK u \in Converted(Count(Shifted(raw))) :
        r.pressure_hpa = Int16(u + SENSOR_COMP_CONST_PRESS_OFFSET)
  BY <1>7 DEF pressure_hpa
<1> QED BY <1>6, <1>8, <1>9

\* What a reading leaves on the pages.
ReadingOnPages ==
  IF reading = NoReading
  THEN /\ page_1.pressure = Unset
       /\ page_82.battery_status = STATE_INVALID
       /\ page_82.battery_voltage_mv = 0
  ELSE /\ page_1.pressure <= 32767
       /\ page_82.battery_status \in 1 .. 5
       /\ page_82.battery_status
            = BatteryState(battery_level_percent(page_82.battery_voltage_mv))
       /\ page_82.operating_time = reading.time
       /\ page_82.battery_voltage_mv <= 3770
       /\ page_82.battery_voltage_mv \in VoltagesOf(reading.measured, reading.bit)
       /\ \E k \in CountsOf(reading.measured, reading.bit) : \E u \in Converted(k) :
            page_1.pressure
              = CompensatedPressure([ambient_pressure |-> reading.ambient],
                                    Int16(u + SENSOR_COMP_CONST_PRESS_OFFSET))

\* The configuration on the pages is what has been asked for; the command
\* field of page 16 stays zero.
ConfigurationOnPages ==
  /\ wanted = page_16
  /\ page_16.command = 0
  /\ page_1.role = page_16.role

IInv == TypeOK /\ ReadingOnPages /\ ConfigurationOnPages

\* The pressure of page 1 is a positive int16_t.
LEMMA CompensatedTyped ==
  ASSUME NEW p \in Page16, NEW h \in int16
  PROVE  /\ CompensatedPressure(p, h) \in Nat
         /\ CompensatedPressure(p, h) <= 32767
<1>1. AmbientOffset(p) \in Int
  <2> DEFINE ambient == p.ambient_pressure
  <2>1. ambient \in uint16
    BY DEF Page16
  <2> HIDE DEF ambient
  <2>2. ambient \in Int
    BY <2>1 DEF uint16
  <2>3. AmbientOffset(p) = IF ambient = Unset THEN 0
                           ELSE ANT_TPMS_AMBIENT_DEFAULT - ambient
    BY DEF AmbientOffset, ambient
  <2> QED BY <2>2, <2>3 DEF ANT_TPMS_AMBIENT_DEFAULT
<1>2. h \in Int
  BY Int16Range
<1> DEFINE sum == AmbientOffset(p) + h
           compensated == Int16(sum)
<1>3. sum \in Int
  BY <1>1, <1>2
<1> HIDE DEF sum
<1>4. compensated \in Int /\ compensated <= 32767
  BY <1>3, Int16Typed, Int16Range
<1> HIDE DEF compensated
<1>5. CompensatedPressure(p, h) = IF compensated <= 75 THEN 0 ELSE compensated
  BY DEF CompensatedPressure, compensated, sum
<1> QED BY <1>4, <1>5

\* Every voltage has a battery state, never the invalid one.
LEMMA BatteryTyped ==
  ASSUME NEW mv \in Nat
  PROVE  BatteryState(battery_level_percent(mv)) \in 1 .. 5
<1> DEFINE percent == battery_level_percent(mv)
<1>1. percent \in Int
  BY DEF battery_level_percent
<1> HIDE DEF percent
<1>2. BatteryState(percent) \in 1 .. 5
  BY <1>1 DEF BatteryState, STATE_NEW, STATE_GOOD, STATE_OK, STATE_LOW,
              STATE_CRITICAL
<1> QED BY <1>2 DEF percent

\* What profile_setup leaves on the pages.
LEMMA ProfileSetupPages ==
  ASSUME NEW stored \in Stored
  PROVE  LET pages == ProfileSetup(stored) IN
         /\ pages.page_1 \in Page1
         /\ pages.page_1.pressure = Unset /\ pages.page_1.role = stored.role
         /\ pages.page_16 = stored
         /\ stored \in Page16 /\ stored.command = 0
         /\ pages.page_82 \in Page82
         /\ pages.page_82.battery_status = STATE_INVALID
         /\ pages.page_82.battery_voltage_mv = 0
<1>1. /\ stored \in Page16 /\ stored.command = 0
      /\ stored.ambient_pressure = ANT_TPMS_AMBIENT_DEFAULT
  BY DataAssumption
<1>2. ProfileSetup(stored).page_1
        = [role |-> stored.role, alarms |-> Alarms, pressure |-> Unset]
  BY DEF ProfileSetup, DEFAULT_ANT_TPMS_page1
<1>3. ProfileSetup(stored).page_16
        = [command |-> 0, role |-> stored.role,
           ambient_pressure |-> ANT_TPMS_AMBIENT_DEFAULT,
           alarm_low_pressure |-> stored.alarm_low_pressure,
           alarm_high_pressure |-> stored.alarm_high_pressure]
  BY DEF ProfileSetup, DEFAULT_ANT_TPMS_page16
<1>4. ProfileSetup(stored).page_82
        = [battery_count |-> 15, battery_id |-> 15, operating_time |-> 0,
           battery_voltage_mv |-> 0, battery_status |-> STATE_INVALID]
  BY DEF ProfileSetup, DEFAULT_ANT_COMMON_page82
<1>5. ProfileSetup(stored).page_16 = stored
  BY <1>1, <1>3 DEF Page16
<1>6. stored.role \in Byte
  BY <1>1 DEF Page16, Nibble, Byte
<1>7. ProfileSetup(stored).page_1 \in Page1
  BY <1>2, <1>6 DEF Page1, uint16, Unset
<1>8. ProfileSetup(stored).page_82 \in Page82
  BY <1>4 DEF Page82, Nibble, uint16, STATE_INVALID
<1> QED BY <1>1, <1>2, <1>4, <1>5, <1>7, <1>8

LEMMA InitInvariant ==
  ASSUME Init
  PROVE  IInv
BY ProfileSetupPages
   DEF Init, IInv, TypeOK, ReadingOnPages, ConfigurationOnPages

LEMMA RestartInvariant ==
  ASSUME NEW stored \in Stored, Restart(stored)
  PROVE  IInv'
BY ProfileSetupPages
   DEF Restart, IInv, TypeOK, ReadingOnPages, ConfigurationOnPages

LEMMA SensorDataInvariant ==
  ASSUME IInv, NEW m \in Measurements, NEW bit \in Disturbed,
         NEW time \in Times, SensorData(m, bit, time)
  PROVE  IInv'
<1>1. PICK r \in Received[m][bit] :
        /\ page_1' = [page_1 EXCEPT
                        !.pressure = CompensatedPressure(page_16, r.pressure_hpa),
                        !.alarms = AlarmsOf(page_16,
                          CompensatedPressure(page_16, r.pressure_hpa))]
        /\ page_82' = [page_82 EXCEPT
                         !.operating_time = time,
                         !.battery_voltage_mv = r.voltage_mv,
                         !.battery_status =
                           BatteryState(battery_level_percent(r.voltage_mv))]
  BY DEF SensorData
<1>2. /\ reading' = [measured |-> m, bit |-> bit, time |-> time,
                     ambient |-> page_16.ambient_pressure]
      /\ page_16' = page_16 /\ wanted' = wanted
  BY DEF SensorData
<1> DEFINE pressure == CompensatedPressure(page_16, r.pressure_hpa)
           alarms == AlarmsOf(page_16, pressure)
           status == BatteryState(battery_level_percent(r.voltage_mv))
<1>3. page_1 \in Page1 /\ page_16 \in Page16 /\ page_82 \in Page82
      /\ wanted \in Page16
  BY DEF IInv, TypeOK
<1>4. /\ r.pressure_hpa \in int16
      /\ r.voltage_mv \in Nat /\ r.voltage_mv <= 3770
      /\ r.voltage_mv \in VoltagesOf(m, bit)
      /\ \E k \in CountsOf(m, bit) : \E u \in Converted(k) :
           r.pressure_hpa = Int16(u + SENSOR_COMP_CONST_PRESS_OFFSET)
  BY <1>1, ReceivedTyped
<1>5. pressure \in Nat /\ pressure <= 32767 /\ pressure \in uint16
  <2>1. pressure \in Nat /\ pressure <= 32767
    BY <1>3, <1>4, CompensatedTyped
  <2> HIDE DEF pressure
  <2> QED BY <2>1 DEF uint16
<1>6. status \in 1 .. 5
  BY <1>4, BatteryTyped
<1>7. alarms \subseteq Alarms
  BY DEF AlarmsOf, AlarmBits
<1>8. reading' \in Reading /\ time \in Nat
  BY <1>2, <1>3, DataAssumption DEF Reading, Page16
<1>9. reading' # NoReading
  BY <1>8, DataAssumption
<1>10. pressure = CompensatedPressure([ambient_pressure |-> page_16.ambient_pressure],
                                      r.pressure_hpa)
  BY DEF CompensatedPressure, AmbientOffset
<1>11. PICK k \in CountsOf(m, bit) : \E u \in Converted(k) :
         pressure
           = CompensatedPressure([ambient_pressure |-> page_16.ambient_pressure],
                                 Int16(u + SENSOR_COMP_CONST_PRESS_OFFSET))
  BY <1>4, <1>10
<1> HIDE DEF pressure, alarms, status
<1>12. /\ page_1' = [page_1 EXCEPT !.pressure = pressure, !.alarms = alarms]
       /\ page_82' = [page_82 EXCEPT !.operating_time = time,
                                     !.battery_voltage_mv = r.voltage_mv,
                                     !.battery_status = status]
  BY <1>1 DEF pressure, alarms, status
<1>13. TypeOK'
  <2>1. page_1' \in Page1
    <3>1. page_1' = [role |-> page_1.role, alarms |-> alarms,
                     pressure |-> pressure]
      BY <1>3, <1>12 DEF Page1
    <3>2. page_1.role \in Byte
      BY <1>3 DEF Page1
    <3> QED BY <1>5, <1>7, <3>1, <3>2 DEF Page1
  <2>2. page_82' \in Page82
    <3> DEFINE mv == r.voltage_mv
    <3>1. mv \in Nat /\ mv <= 3770
      BY <1>4
    <3> HIDE DEF mv
    <3>2. mv \in uint16 /\ status \in 0 .. 7
      BY <1>6, <3>1 DEF uint16
    <3> QED BY <1>3, <1>8, <1>12, <3>2 DEF Page82, mv
  <2> QED BY <1>2, <1>3, <1>8, <2>1, <2>2 DEF TypeOK
<1>14. ReadingOnPages'
  <2>1. page_1'.pressure = pressure
    BY <1>3, <1>12 DEF Page1
  <2>2. /\ page_82'.operating_time = time /\ page_82'.battery_status = status
        /\ page_82'.battery_voltage_mv = r.voltage_mv
    BY <1>3, <1>12 DEF Page82
  <2>3. /\ reading'.time = time /\ reading'.bit = bit /\ reading'.measured = m
        /\ reading'.ambient = page_16.ambient_pressure
    BY <1>2
  <2>4. \E count \in CountsOf(reading'.measured, reading'.bit) :
          \E u \in Converted(count) :
            page_1'.pressure
              = CompensatedPressure([ambient_pressure |-> reading'.ambient],
                                    Int16(u + SENSOR_COMP_CONST_PRESS_OFFSET))
    BY <1>11, <2>1, <2>3
  <2>5. page_82'.battery_status
          = BatteryState(battery_level_percent(page_82'.battery_voltage_mv))
    BY <2>2 DEF status
  <2> QED BY <1>4, <1>5, <1>6, <1>9, <2>1, <2>2, <2>3, <2>4, <2>5
          DEF ReadingOnPages
<1>15. ConfigurationOnPages'
  <2>1. page_1'.role = page_1.role
    BY <1>3, <1>12 DEF Page1
  <2> QED BY <1>2, <2>1 DEF IInv, ConfigurationOnPages
<1> QED BY <1>13, <1>14, <1>15 DEF IInv

\* A command changes what its bits ask for, and the reset all of it.
LEMMA CommandApplied ==
  ASSUME page_16 \in Page16, wanted = page_16, page_16.command = 0,
         NEW c \in Page16
  PROVE  /\ Configured(c) = Asked(c)
         /\ Configured(c) \in Page16 /\ Configured(c).command = 0
<1>1. DEFAULT_ANT_TPMS_page16 \in Page16 /\ DEFAULT_ANT_TPMS_page16.command = 0
  BY DEF DEFAULT_ANT_TPMS_page16, Page16, Nibble, uint16, Unset,
         ANT_TPMS_AMBIENT_DEFAULT
<1>2. CASE IsReset(c)
  <2>1. c.command = 0
    BY <1>2 DEF IsReset
  <2>2. /\ ~Has(c.command, SET_ROLE) /\ ~Has(c.command, SET_AMBIENT)
        /\ ~Has(c.command, SET_ALARM_LOW) /\ ~Has(c.command, SET_ALARM_HIGH)
    BY <2>1 DEF Has, SET_ROLE, SET_AMBIENT, SET_ALARM_LOW, SET_ALARM_HIGH
  <2>3. Configured(c) = DEFAULT_ANT_TPMS_page16
    BY <1>1, <1>2, <2>2 DEF Configured, Page16
  <2> QED BY <1>1, <1>2, <2>3 DEF Asked
<1>3. CASE ~IsReset(c)
  <2> DEFINE role == IF Has(c.command, SET_ROLE) THEN c.role ELSE page_16.role
             ambient == IF Has(c.command, SET_AMBIENT)
                        THEN c.ambient_pressure ELSE page_16.ambient_pressure
             low == IF Has(c.command, SET_ALARM_LOW)
                    THEN c.alarm_low_pressure ELSE page_16.alarm_low_pressure
             high == IF Has(c.command, SET_ALARM_HIGH)
                     THEN c.alarm_high_pressure ELSE page_16.alarm_high_pressure
  <2>1. role \in Nibble /\ ambient \in uint16 /\ low \in uint16 /\ high \in uint16
    BY DEF Page16
  <2>2. Configured(c) = [page_16 EXCEPT !.role = role,
                           !.ambient_pressure = ambient,
                           !.alarm_low_pressure = low,
                           !.alarm_high_pressure = high]
    BY <1>3 DEF Configured, Page16
  <2>3. Asked(c) = [field \in DOMAIN wanted |->
                      IF field # "command" /\ Has(c.command, FlagOf[field])
                      THEN c[field] ELSE wanted[field]]
    BY <1>3 DEF Asked
  <2>4. DOMAIN wanted = {"command", "role", "ambient_pressure",
                         "alarm_low_pressure", "alarm_high_pressure"}
    BY DEF Page16
  <2>5. /\ Asked(c)["command"] = 0
        /\ Asked(c)["role"] = role
        /\ Asked(c)["ambient_pressure"] = ambient
        /\ Asked(c)["alarm_low_pressure"] = low
        /\ Asked(c)["alarm_high_pressure"] = high
    BY <2>3, <2>4 DEF FlagOf
  <2> HIDE DEF role, ambient, low, high
  <2>6. Configured(c) = [command |-> 0, role |-> role,
                         ambient_pressure |-> ambient,
                         alarm_low_pressure |-> low,
                         alarm_high_pressure |-> high]
    BY <2>2 DEF Page16
  <2>7. Configured(c) = Asked(c)
    BY <2>3, <2>4, <2>5, <2>6
  <2>8. 0 \in Nibble
    BY DEF Nibble
  <2> QED BY <2>1, <2>6, <2>7, <2>8 DEF Page16
<1> QED BY <1>2, <1>3

LEMMA ReceiveCommandInvariant ==
  ASSUME IInv, NEW command \in Commands, ReceiveCommand(command)
  PROVE  IInv'
<1>1. command \in Page16
  BY DataAssumption
<1>2. ant_tpms_page_16_decode(ant_tpms_page_16_encode(command)) = command
  BY <1>1, Page16RoundTrip
<1>3. /\ page_16' = Configured(command)
      /\ page_1' = [page_1 EXCEPT !.role = Configured(command).role]
      /\ wanted' = Asked(command)
      /\ page_82' = page_82 /\ reading' = reading
  BY <1>2 DEF ReceiveCommand
<1>4. /\ page_16' = wanted' /\ page_16' \in Page16 /\ page_16'.command = 0
  BY <1>1, <1>3, CommandApplied DEF IInv, TypeOK, ConfigurationOnPages
<1>5. page_1 \in Page1 /\ page_82 \in Page82
      /\ reading \in Reading \cup {NoReading}
  BY DEF IInv, TypeOK
<1>6. page_16'.role \in Byte
  BY <1>4 DEF Page16, Nibble, Byte
<1>7. page_1' \in Page1 /\ page_1'.role = page_16'.role
      /\ page_1'.pressure = page_1.pressure
  BY <1>3, <1>5, <1>6 DEF Page1
<1> QED BY <1>3, <1>4, <1>5, <1>7
        DEF IInv, TypeOK, ReadingOnPages, ConfigurationOnPages

\* The invariant holds in every reachable state.
LEMMA Invariant == Spec => []IInv
<1>1. Init => IInv
  BY InitInvariant
<1>2. IInv /\ [Next]_vars => IInv'
  <2> SUFFICES ASSUME IInv, [Next]_vars PROVE IInv'
    OBVIOUS
  <2>1. CASE UNCHANGED vars
    BY <2>1 DEF vars, IInv, TypeOK, ReadingOnPages, ConfigurationOnPages
  <2>2. ASSUME NEW m \in Measurements, NEW bit \in Disturbed,
               NEW time \in Times, SensorData(m, bit, time)
        PROVE  IInv'
    BY <2>2, SensorDataInvariant
  <2>3. ASSUME NEW command \in Commands, ReceiveCommand(command)
        PROVE  IInv'
    BY <2>3, ReceiveCommandInvariant
  <2>4. ASSUME NEW stored \in Stored, Restart(stored)
        PROVE  IInv'
    BY <2>4, RestartInvariant
  <2> QED BY <2>1, <2>2, <2>3, <2>4 DEF Next
<1> QED BY <1>1, <1>2, PTL DEF Spec

\* Each page keeps the types of its fields (ant.c, sensor.c, pages/*.c).
THEOREM TypeTheorem == Spec => []TypeOK
<1>1. IInv => TypeOK
  BY DEF IInv
<1> QED BY <1>1, Invariant, PTL

\* A display is shown what the displays have commanded.
THEOREM ConfigurationTheorem == Spec => []ConfigurationShown
<1>1. IInv => ConfigurationShown
  BY Page16RoundTrip, Page1RoundTrip
     DEF IInv, TypeOK, ConfigurationOnPages, ConfigurationShown, Shown16, Shown1
<1> QED BY <1>1, Invariant, PTL

\* A display can tell from page 1 and page 82 that nothing has been read.
THEOREM UnreadTheorem == Spec => []InvalidUntilRead
<1>1. IInv => InvalidUntilRead
  <2> SUFFICES ASSUME IInv PROVE InvalidUntilRead
    OBVIOUS
  <2>1. page_1 \in Page1 /\ page_82 \in Page82
    BY DEF IInv, TypeOK
  <2>2. Shown1.pressure = page_1.pressure
    BY <2>1, Page1RoundTrip DEF Shown1
  <2>3. reading = NoReading <=> page_1.pressure = Unset
    BY <2>1 DEF IInv, ReadingOnPages, Unset, Page1, uint16
  <2>4. Shown82.battery_status = page_82.battery_status
    BY <2>1, StatusShown DEF Shown82
  <2>5. reading = NoReading <=> page_82.battery_status = STATE_INVALID
    BY DEF IInv, ReadingOnPages, STATE_INVALID
  <2> QED BY <2>2, <2>3, <2>4, <2>5 DEF InvalidUntilRead
<1> QED BY <1>1, Invariant, PTL

\* What a display is shown of a reading, through the encodings.
LEMMA ReadingShown ==
  ASSUME IInv, reading # NoReading
  PROVE  /\ Shown1.pressure = page_1.pressure
         /\ page_82.battery_voltage_mv \in Nat /\ Shown82.battery_voltage_mv \in Nat
         /\ page_82.battery_voltage_mv - Shown82.battery_voltage_mv \in 0 .. 4
         /\ page_82.operating_time \div 2 \in uint24 =>
              page_82.operating_time - Shown82.operating_time \in {0, 1}
<1>1. /\ page_82 \in Page82 /\ page_82.battery_status \in 1 .. 5
      /\ page_82.battery_voltage_mv <= 3770
  BY DEF IInv, TypeOK, ReadingOnPages
<1>2. page_82.battery_status # STATE_INVALID
  BY <1>1 DEF STATE_INVALID
<1>3. page_82.battery_voltage_mv < 16000 /\ page_82.battery_voltage_mv \in Nat
  <2> DEFINE mv == page_82.battery_voltage_mv
  <2>1. mv \in uint16 /\ mv <= 3770
    BY <1>1 DEF Page82
  <2> HIDE DEF mv
  <2>2. mv < 16000 /\ mv \in Nat
    BY <2>1 DEF uint16
  <2> QED BY <2>2 DEF mv
<1>4. Shown1.pressure = page_1.pressure
  BY Page1RoundTrip DEF Shown1, IInv, TypeOK
<1> QED BY <1>1, <1>2, <1>3, <1>4, Page82RoundTrip DEF Shown82

\* A display is shown the voltage and the operating time to within what
\* page 82 can hold.
THEOREM Page82Theorem == Spec => []Page82Shown
<1>1. IInv => Page82Shown
  <2> SUFFICES ASSUME IInv, reading # NoReading PROVE Page82Shown
    BY DEF Page82Shown
  <2>1. /\ page_82.operating_time = reading.time
        /\ reading.bit = NoBit =>
             page_82.battery_voltage_mv
               = (reading.measured.voltage + SENSOR_COMP_CONST_VOLT) * 10
    BY DEF IInv, ReadingOnPages, VoltagesOf, VoltageOf
  <2> QED BY <2>1, ReadingShown DEF Page82Shown
<1> QED BY <1>1, Invariant, PTL

LEMMA Int16Same ==
  ASSUME NEW v \in Int, -32768 <= v, v <= 32767
  PROVE  Int16(v) = v
BY SMT DEF Int16

\* What is stored as uint16_t and read as int16_t is the value again.
LEMMA Int16AfterUint16 ==
  ASSUME NEW v \in Int, NEW w \in Int,
         -32768 <= v + w, v + w <= 32767, -65536 <= v, v <= 65535
  PROVE  Int16((v % 65536) + w) = v + w
<1>1. CASE v >= 0
  <2>1. v % 65536 = v
    BY <1>1, SMT
  <2> QED BY <2>1, Int16Same
<1>2. CASE v < 0
  <2>1. v % 65536 = v + 65536
    BY <1>2, SMT
  <2>2. ((v + 65536 + w + 32768) % 65536) - 32768 = v + w
    BY SMT
  <2> QED BY <2>1, <2>2 DEF Int16
<1> QED BY <1>1, <1>2

LEMMA ConvertedTo ==
  ASSUME NEW c \in Int, NEW u \in Converted(c)
  PROVE  IF c >= 0 THEN u = ((67 * c) \div 4) % 65536
         ELSE u = (-((67 * (-c)) \div 4)) % 65536 \/ u = 0
<1>1. CASE c >= 0
  <2>1. Product(c) = (67 * c) \div 4 /\ ~(c < 0)
    BY <1>1 DEF Product
  <2>2. Converted(c) = {Product(c) % 65536}
    BY <2>1 DEF Converted
  <2> QED BY <1>1, <2>1, <2>2
<1>2. CASE ~(c >= 0)
  <2>1. Product(c) = -((67 * (-c)) \div 4)
    BY <1>2 DEF Product
  <2>2. u = Product(c) % 65536 \/ u = 0
    BY DEF Converted
  <2> QED BY <1>2, <2>1, <2>2
<1> QED BY <1>1, <1>2

\* What page 1 holds after a reading of count c, in exact arithmetic.
LEMMA ExactPressure ==
  ASSUME reading.ambient \in uint16, NEW c \in int16, Fits(c), NEW u \in Converted(c),
         NEW pressure,
         pressure = CompensatedPressure([ambient_pressure |-> reading.ambient],
                                        Int16(u + SENSOR_COMP_CONST_PRESS_OFFSET))
  PROVE  IF c >= 0 THEN pressure = Shows(c) ELSE pressure \in Shows(c) .. Shows(0)
<1> DEFINE slope == (67 * c) \div 4
           offset == AmbientOffset([ambient_pressure |-> reading.ambient])
           Clamp(x) == IF x <= 75 THEN 0 ELSE x
<1>1. c \in Int /\ c >= -32768 /\ c <= 32767
  BY Int16Range
<1>2. offset \in Int /\ offset <= 1013
  <2> DEFINE ambient == reading.ambient
  <2>1. ambient \in Nat
    BY DEF uint16
  <2>2. offset = IF ambient = Unset THEN 0
                 ELSE ANT_TPMS_AMBIENT_DEFAULT - ambient
    BY DEF AmbientOffset
  <2> HIDE DEF ambient, offset
  <2> QED BY <2>1, <2>2 DEF ANT_TPMS_AMBIENT_DEFAULT
<1>3. \A x \in int16 : Exact(x) = (67 * x) \div 4 - 248 + offset
  BY DEF Exact, AmbientOffset
<1>4. pressure = Clamp(Int16(offset + Int16(u + SENSOR_COMP_CONST_PRESS_OFFSET)))
  BY DEF CompensatedPressure
<1>5. /\ slope - 248 >= -32768 /\ slope - 248 <= 32767
      /\ Exact(c) = slope - 248 + offset
      /\ slope - 248 + offset >= -32768 /\ slope - 248 + offset <= 32767
  BY <1>3 DEF Fits, int16
<1>6. \A x : Shows(x) = Clamp(Exact(x))
  BY DEF Shows
<1>7. slope \in Int
  BY <1>1
<1>8. CASE c >= 0
  <2>1. slope >= 0
    BY <1>1, <1>8
  <2>2. u = slope % 65536
    BY <1>1, <1>8, ConvertedTo
  <2> HIDE DEF slope, offset
  <2>3. Int16(u + SENSOR_COMP_CONST_PRESS_OFFSET) = slope - 248
    <3>1. Int16((slope % 65536) + (-248)) = slope + (-248)
      BY <1>5, <1>7, <2>1, Int16AfterUint16
    <3> QED BY <1>7, <2>2, <3>1 DEF SENSOR_COMP_CONST_PRESS_OFFSET
  <2>4. Int16(offset + (slope - 248)) = offset + (slope - 248)
    BY <1>2, <1>5, <1>7, Int16Same
  <2>5. pressure = Clamp(Exact(c))
    BY <1>2, <1>4, <1>5, <1>7, <2>3, <2>4
  <2> QED BY <1>6, <1>8, <2>5
<1>9. CASE c < 0
  <2> DEFINE product == -((67 * (-c)) \div 4)
  <2>1. product \in Int /\ slope <= product /\ product <= 0 /\ slope <= 0
    BY <1>1, <1>9
  <2>2. u = product % 65536 \/ u = 0
    BY <1>1, <1>9, ConvertedTo
  <2>3. Exact(0) = offset - 248
    BY <1>2, <1>3 DEF int16
  <2> HIDE DEF slope, offset, product
  <2>4. PICK v \in Int : /\ slope <= v /\ v <= 0
                         /\ Int16(u + SENSOR_COMP_CONST_PRESS_OFFSET) = v - 248
    <3>1. Int16((product % 65536) + (-248)) = product + (-248)
      BY <1>5, <1>7, <2>1, Int16AfterUint16
    <3>2. Int16(0 + (-248)) = -248
      BY Int16Same
    <3> QED BY <1>7, <2>1, <2>2, <3>1, <3>2 DEF SENSOR_COMP_CONST_PRESS_OFFSET
  <2>5. Int16(offset + (v - 248)) = offset + (v - 248)
    BY <1>2, <1>5, <1>7, <2>4, Int16Same
  <2>6. pressure = Clamp(offset + (v - 248))
    BY <1>4, <2>4, <2>5
  <2>7. Exact(c) <= offset + (v - 248) /\ offset + (v - 248) <= Exact(0)
        /\ Exact(c) \in Int /\ Exact(0) \in Int
    BY <1>2, <1>5, <1>7, <2>3, <2>4
  <2>8. pressure \in Clamp(Exact(c)) .. Clamp(Exact(0))
    <3> DEFINE x == Exact(c)
               y == offset + (v - 248)
               z == Exact(0)
    <3>1. x \in Int /\ y \in Int /\ z \in Int /\ x <= y /\ y <= z
      BY <1>2, <2>4, <2>7
    <3> HIDE DEF x, y, z
    <3>2. Clamp(y) \in Clamp(x) .. Clamp(z)
      BY <3>1
    <3> QED BY <2>6, <3>2 DEF x, y, z
  <2>9. ~(c >= 0)
    BY <1>1, <1>9
  <2> QED BY <1>6, <2>8, <2>9
<1> QED BY <1>1, <1>8, <1>9

\* An undisturbed measurement is shown as exact arithmetic has it.
THEOREM PressureTheorem == Spec => []PressureShown
<1>1. IInv => PressureShown
  <2> SUFFICES ASSUME IInv, reading # NoReading, reading.bit = NoBit,
                      Fits(reading.measured.count)
               PROVE  LET count == reading.measured.count IN
                      IF count >= 0 THEN Shown1.pressure = Shows(count)
                      ELSE Shown1.pressure \in Shows(count) .. Shows(0)
    BY DEF PressureShown
  <2>1. Shown1.pressure = page_1.pressure
    BY ReadingShown
  <2>2. reading.measured.count \in int16 /\ reading.ambient \in uint16
    BY DataAssumption DEF IInv, TypeOK, Reading, Measurement
  <2>3. PICK u \in Converted(reading.measured.count) :
          page_1.pressure
            = CompensatedPressure([ambient_pressure |-> reading.ambient],
                                  Int16(u + SENSOR_COMP_CONST_PRESS_OFFSET))
    BY DEF IInv, ReadingOnPages, CountsOf
  <2> QED BY <2>1, <2>2, <2>3, ExactPressure
<1> QED BY <1>1, Invariant, PTL

\* Between two counts that fit, every count fits.
LEMMA FitsBetween ==
  ASSUME reading.ambient \in uint16,
         NEW low \in Int, NEW c \in Int, NEW high \in Int,
         low <= c, c <= high, Fits(low), Fits(high)
  PROVE  Fits(c)
<1> DEFINE offset == AmbientOffset([ambient_pressure |-> reading.ambient])
<1>1. \A x : Exact(x) = (67 * x) \div 4 - 248 + offset
  BY DEF Exact, AmbientOffset
<1>2. offset \in Int
  <2> DEFINE ambient == reading.ambient
  <2>1. ambient \in Nat
    BY DEF uint16
  <2>2. offset = IF ambient = Unset THEN 0 ELSE ANT_TPMS_AMBIENT_DEFAULT - ambient
    BY DEF AmbientOffset
  <2> HIDE DEF ambient, offset
  <2> QED BY <2>1, <2>2 DEF ANT_TPMS_AMBIENT_DEFAULT
<1>3. /\ (67 * low) \div 4 <= (67 * c) \div 4
      /\ (67 * c) \div 4 <= (67 * high) \div 4
  OBVIOUS
<1> HIDE DEF offset
<1> QED BY <1>1, <1>2, <1>3 DEF Fits, int16

\* A disturbed frame that is accepted is shown as the measurement of a
\* neighbouring count and voltage.
THEOREM DisturbanceTheorem == Spec => []DisturbanceContained
<1>1. IInv => DisturbanceContained
  <2> SUFFICES ASSUME IInv, reading # NoReading, reading.bit # NoBit
               PROVE  DisturbanceContained
    BY DEF DisturbanceContained
  <2> DEFINE m == reading.measured
             error == Error(reading.bit)
             count == m.count
             voltage == VoltageOf(m)
  <2>1. count \in int16 /\ reading.ambient \in uint16 /\ m.voltage \in 0 .. 255
    <3>1. reading \in Reading
      BY DEF IInv, TypeOK
    <3> QED BY <3>1, DataAssumption DEF Reading, Measurement
  <2>2. Shown82.battery_voltage_mv \in voltage - 14 .. voltage + 10
    <3> DEFINE v == m.voltage
               mv == page_82.battery_voltage_mv
               shown == Shown82.battery_voltage_mv
    <3>1. mv \in {voltage - 10, voltage, voltage + 10}
      BY DEF IInv, ReadingOnPages, VoltagesOf
    <3>2. mv \in Nat /\ shown \in Nat /\ mv - shown \in 0 .. 4
      BY ReadingShown
    <3>3. voltage \in Int
      BY <2>1 DEF VoltageOf, SENSOR_COMP_CONST_VOLT
    <3> HIDE DEF mv, shown, voltage
    <3>4. shown \in voltage - 14 .. voltage + 10
      BY <3>1, <3>2, <3>3
    <3> QED BY <3>4 DEF shown
  <2>3. ASSUME count >= 0, Fits(count - error), Fits(count + error)
        PROVE  Shown1.pressure
                 \in {Shows(count - error), Shows(count), Shows(count + error)}
    <3>1. PICK k \in CountsOf(m, reading.bit) : \E u \in Converted(k) :
            page_1.pressure
              = CompensatedPressure([ambient_pressure |-> reading.ambient],
                                    Int16(u + SENSOR_COMP_CONST_PRESS_OFFSET))
      BY DEF IInv, ReadingOnPages
    <3>2. k \in int16 /\ k >= 0 /\ k \in {count - error, count, count + error}
      BY <2>3, <3>1 DEF CountsOf
    <3>3. Fits(k)
      <4>1. /\ count \in Int /\ k \in Int /\ error \in Nat
            /\ count - error \in Int /\ count + error \in Int
        <5>1. error \in Nat
          BY DEF Error
        <5> HIDE DEF count, error
        <5>2. count \in Int /\ k \in Int
          BY <2>1, <3>2 DEF int16
        <5> QED BY <5>1, <5>2
      <4>2. count - error <= k /\ k <= count + error
        <5> HIDE DEF count, error
        <5> QED BY <3>2, <4>1
      <4> HIDE DEF count, error
      <4> QED BY <2>1, <2>3, <4>1, <4>2, FitsBetween
    <3>4. page_1.pressure = Shows(k)
      BY <2>1, <3>1, <3>2, <3>3, ExactPressure
    <3> QED BY <3>2, <3>4, ReadingShown
  <2> QED BY <2>2, <2>3 DEF DisturbanceContained, Error, VoltageOf
<1> QED BY <1>1, Invariant, PTL

\* The sections of battery_level_percent, and where they meet.
LEMMA LevelBySection ==
  ASSUME NEW mv \in Nat
  PROVE  LET level == battery_level_percent(mv) IN
         /\ level \in Int
         /\ mv >= 3000 => level = 100
         /\ mv > 2900 /\ mv < 3000 =>
              /\ level = 100 - ((3000 - mv) * 58) \div 100
              /\ 42 <= level /\ level <= 100
         /\ mv > 2740 /\ mv <= 2900 =>
              /\ level = 42 - ((2900 - mv) * 24) \div 160
              /\ 18 <= level /\ level <= 42
         /\ mv > 2440 /\ mv <= 2740 =>
              /\ level = 18 - ((2740 - mv) * 12) \div 300
              /\ 6 <= level /\ level <= 18
         /\ mv > 2100 /\ mv <= 2440 =>
              /\ level = 6 - ((2440 - mv) * 6) \div 340
              /\ 0 <= level /\ level <= 6
         /\ mv <= 2100 => level = 0
<1>1. CASE mv >= 3000
  BY <1>1 DEF battery_level_percent
<1>2. CASE mv > 2900 /\ mv < 3000
  BY <1>2 DEF battery_level_percent
<1>3. CASE mv > 2740 /\ mv <= 2900
  BY <1>3 DEF battery_level_percent
<1>4. CASE mv > 2440 /\ mv <= 2740
  BY <1>4 DEF battery_level_percent
<1>5. CASE mv > 2100 /\ mv <= 2440
  BY <1>5 DEF battery_level_percent
<1>6. CASE mv <= 2100
  BY <1>6 DEF battery_level_percent
<1> QED BY <1>1, <1>2, <1>3, <1>4, <1>5, <1>6

\* The level never rises while the voltage falls.
LEMMA LevelMonotone ==
  ASSUME NEW v \in Nat, NEW w \in Nat, v <= w
  PROVE  battery_level_percent(v) <= battery_level_percent(w)
<1>1. CASE v > 2900 /\ w < 3000
  <2>1. (3000 - w) * 58 <= (3000 - v) * 58
    OBVIOUS
  <2> QED BY <1>1, <2>1, LevelBySection
<1>2. CASE v > 2740 /\ w <= 2900
  BY <1>2, LevelBySection
<1>3. CASE v > 2440 /\ w <= 2740
  BY <1>3, LevelBySection
<1>4. CASE v > 2100 /\ w <= 2440
  BY <1>4, LevelBySection
<1>5. CASE v <= 2100 \/ w >= 3000
  BY <1>5, LevelBySection
<1>6. CASE \E m \in {2900, 2740, 2440} : v <= m /\ m < w
  BY <1>6, LevelBySection
<1> QED BY <1>1, <1>2, <1>3, <1>4, <1>5, <1>6

\* A lower level is no better a state.
LEMMA StateMonotone ==
  ASSUME NEW x \in Int, NEW y \in Int, x <= y
  PROVE  BatteryState(x) >= BatteryState(y)
BY DEF BatteryState, STATE_NEW, STATE_GOOD, STATE_OK, STATE_LOW, STATE_CRITICAL

\* From one reading to the next, a display never shows a better battery at
\* a lower voltage.
THEOREM BatteryTheorem == Spec => NeverBetterAtLowerVoltage
<1> DEFINE Step ==
      /\ reading # NoReading /\ reading' # NoReading
      /\ page_82'.battery_voltage_mv <= page_82.battery_voltage_mv
      => Shown82'.battery_status >= Shown82.battery_status
<1>1. IInv /\ IInv' => Step
  <2> SUFFICES ASSUME IInv, IInv', reading # NoReading, reading' # NoReading,
                      page_82'.battery_voltage_mv <= page_82.battery_voltage_mv
               PROVE  Shown82'.battery_status >= Shown82.battery_status
    OBVIOUS
  <2> DEFINE v == page_82'.battery_voltage_mv
             w == page_82.battery_voltage_mv
  <2>1. /\ page_82 \in Page82 /\ page_82' \in Page82
        /\ page_82.battery_status = BatteryState(battery_level_percent(w))
        /\ page_82'.battery_status = BatteryState(battery_level_percent(v))
    BY DEF IInv, TypeOK, ReadingOnPages
  <2>2. Shown82.battery_status = page_82.battery_status
        /\ Shown82'.battery_status = page_82'.battery_status
    BY <2>1, StatusShown DEF Shown82
  <2>3. v \in Nat /\ w \in Nat /\ v <= w
    BY <2>1 DEF Page82, uint16
  <2> HIDE DEF v, w
  <2>4. /\ battery_level_percent(v) <= battery_level_percent(w)
        /\ battery_level_percent(v) \in Int /\ battery_level_percent(w) \in Int
    BY <2>3, LevelMonotone, LevelBySection
  <2>5. BatteryState(battery_level_percent(v))
          >= BatteryState(battery_level_percent(w))
    BY <2>4, StateMonotone
  <2> QED BY <2>1, <2>2, <2>5
<1>2. Spec => [][Step]_vars
  BY <1>1, Invariant, PTL DEF Spec
<1> QED BY <1>2 DEF NeverBetterAtLowerVoltage
=============================================================================
