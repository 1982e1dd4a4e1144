------------------------------ MODULE Settings ------------------------------
(***************************************************************************)
(* The settings record and its validation (settings.c).                    *)
(*                                                                         *)
(* A field is one byte: of an address the upper half stands for u8[0] and  *)
(* the lower for u8[3]; the reference frequency is a number from 0 to 255, *)
(* of the MAC address only its first byte is kept.  CRC32 is a hash of one *)
(* byte; no mixture of the records checked happens to have the right one.  *)
(***************************************************************************)
EXTENDS Integers, Sequences

CONSTANTS BITS,
          Defaults,                   \* the record of Settings_defaults, but for the checksum
          REFERENCE_FREQ_MIN, REFERENCE_FREQ_MAX

crc32(s) == (73 + 3 * s.IP_addr + 7 * s.IP_mask + 29 * s.IP_gateway + 83 * s.MAC_ADDR
                + 131 * s.DHCP + 151 * s.ReferenceFrequency) % 256

settings_update_crc32(s) == [s EXCEPT !.CRC32 = crc32(s)]
verify_settings_crc32_Late(s) == settings_update_crc32(s).CRC32 = crc32(s)
verify_settings_crc32(s) == s.CRC32 = crc32(s)

Settings_defaults == settings_update_crc32(Defaults)

\* as it lies in memory, and back
Bytes(s) == <<s.IP_addr, s.IP_mask, s.IP_gateway, s.MAC_ADDR, s.DHCP, s.ReferenceFrequency, s.CRC32>>
Record(b) == [IP_addr |-> b[1], IP_mask |-> b[2], IP_gateway |-> b[3], MAC_ADDR |-> b[4], DHCP |-> b[5],
              ReferenceFrequency |-> b[6], CRC32 |-> b[7]]
Zeroed == Record([i \in 1..7 |-> 0])

Bits(v) == {k \in 0..BITS - 1 : (v \div 2^k) % 2 = 1}
isIPInvalid(ip) == ip \div 16 \in {0, 15} \/ ip % 16 \in {0, 15}
MaskInvalid(mask) == \E i, j \in 0..BITS - 1 : i < j /\ i \in Bits(mask) /\ j \notin Bits(mask)
SameSubnet(a, b, mask) == Bits(a) \cap Bits(mask) = Bits(b) \cap Bits(mask)

\* each field is restored by itself; the gateway is compared with an address already restored
Settings_validate(s, restorer) ==
  LET r == IF verify_settings_crc32(restorer) THEN restorer ELSE Settings_defaults
      ip == IF isIPInvalid(s.IP_addr) THEN r.IP_addr ELSE s.IP_addr
      mask == IF MaskInvalid(s.IP_mask) THEN r.IP_mask ELSE s.IP_mask
      checked == [s EXCEPT
        !.IP_addr = ip,
        !.IP_mask = mask,
        !.IP_gateway = IF isIPInvalid(@) \/ ~SameSubnet(ip, @, mask) THEN r.IP_gateway ELSE @,
        !.MAC_ADDR = IF @ % 4 # 0 THEN r.MAC_ADDR ELSE @,
        !.DHCP = IF @ > 1 THEN r.DHCP ELSE @,
        !.ReferenceFrequency = IF @ < REFERENCE_FREQ_MIN \/ @ > REFERENCE_FREQ_MAX
                               THEN r.ReferenceFrequency ELSE @]
  IN IF ~verify_settings_crc32(s) THEN r ELSE settings_update_crc32(checked)
=============================================================================
