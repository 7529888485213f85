------------------------------- MODULE Address -------------------------------
(***************************************************************************)
(* The target of a Shadowsocks connection as the protocol writes it        *)
(* (src/src/outbound/shadowsocks/address.rs): a byte for the type, a byte  *)
(* for the length of a name, the bytes of the host, the port.              *)
(***************************************************************************)
EXTENDS Integers, Sequences

Byte == 0 .. 255
Port == 0 .. 2^16 - 1
Types == {"ipv4", "domain", "ipv6"}

ATYP == [ipv4 |-> 1, domain |-> 3, ipv6 |-> 4]
MAX_DOMAIN_LEN == 255

\* The bytes of the host; those of a name are UTF-8, and at least one.
Addresses ==
  {a \in [type : Types, host : Seq(Byte), port : Port] :
     \/ a.type = "ipv4" /\ Len(a.host) = 4
     \/ a.type = "ipv6" /\ Len(a.host) = 16
     \/ a.type = "domain" /\ Len(a.host) \in 1 .. MAX_DOMAIN_LEN}

\* Only a name says how long it is.
LengthByte(a) == IF a.type = "domain" THEN <<Len(a.host) % 256>> ELSE <<>>

\* Mutant: the low byte of the port comes first.
LittleEndian(port) == <<port % 256, port \div 256>>

\* to_be_bytes, from_be_bytes
BigEndian(port) == <<port \div 256, port % 256>>
FromBigEndian(b) == 256 * b[1] + b[2]

Encode(a) == <<ATYP[a.type]>> \o LengthByte(a) \o a.host \o BigEndian(a.port)

Invalid == [address |-> <<>>, used |-> 0]

\* The host is the n bytes behind the first m, the port the two behind them.
DecodeHost(type, data, m, n) ==
  IF Len(data) < m + n + 2 THEN Invalid
  ELSE [address |-> [type |-> type, host |-> SubSeq(data, m + 1, m + n),
                     port |-> FromBigEndian(SubSeq(data, m + n + 1, m + n + 2))],
        used |-> m + n + 2]

\* The address at the beginning of data and the number of its bytes.
Decode(data) ==
  IF data = <<>> THEN Invalid
  ELSE IF data[1] = ATYP.ipv4 THEN DecodeHost("ipv4", data, 1, 4)
  ELSE IF data[1] = ATYP.ipv6 THEN DecodeHost("ipv6", data, 1, 16)
  ELSE IF data[1] = ATYP.domain /\ Len(data) > 1 /\ data[2] # 0
       THEN DecodeHost("domain", data, 2, data[2])
  ELSE Invalid
=============================================================================
