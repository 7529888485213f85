-------------------------- MODULE ShadowsocksProofs --------------------------
(***************************************************************************)
(* The target, the nonces and the bytes of both directions of a            *)
(* Shadowsocks connection, for any target, any sizes of chunks, writes and *)
(* buffers, any number of bytes and any place where the connection breaks. *)
(***************************************************************************)
EXTENDS ShadowsocksStream, SequenceLemmas, SequenceTheorems, TLAPS

-----------------------------------------------------------------------------
(* The bytes of the target. *)

\* h stands in e behind the first m elements; r begins with e.
StandsAt(e, m, h) == \A i \in 1..Len(h) : e[m + i] = h[i]
Begins(r, e) == Len(r) >= Len(e) /\ \A i \in 1..Len(e) : r[i] = e[i]

LEMMA BeginsAt ==
  ASSUME NEW e \in Seq(Nat), NEW r \in Seq(Nat), NEW k \in Nat,
         Begins(r, e), 0 < k, k <= Len(e)
  PROVE  r[k] = e[k]
BY DEF Begins

LEMMA BeginsStandsAt ==
  ASSUME NEW e \in Seq(Nat), NEW r \in Seq(Nat), NEW h \in Seq(Nat), NEW m \in Nat,
         Begins(r, e), StandsAt(e, m, h), m + Len(h) <= Len(e)
  PROVE  StandsAt(r, m, h)
<1> SUFFICES ASSUME NEW i \in 1..Len(h) PROVE r[m + i] = h[i]
  BY DEF StandsAt
<1>1. Len(h) \in Nat /\ i \in Nat /\ 0 < i /\ i <= Len(h)
  OBVIOUS
<1>2. PICK k \in Nat : k = m + i /\ 0 < k /\ k <= Len(e)
  BY <1>1
<1>3. r[k] = e[k]
  BY <1>2, BeginsAt
<1>4. e[m + i] = h[i]
  BY DEF StandsAt
<1> QED
  BY <1>2, <1>3, <1>4

(* A segment of a sequence, element by element. *)
LEMMA SubSeqIs ==
  ASSUME NEW s \in Seq(Nat), NEW t \in Seq(Nat), NEW m \in Nat,
         Len(s) >= m + Len(t), StandsAt(s, m, t)
  PROVE  SubSeq(s, m + 1, m + Len(t)) = t
<1>1. Len(t) \in Nat /\ Len(s) \in Nat
  OBVIOUS
<1>2. PICK n \in Nat : n = Len(t)
  BY <1>1
<1>3. SubSeq(s, m + 1, m + n) \in Seq(Nat) /\ Len(SubSeq(s, m + 1, m + n)) = n
  BY <1>1, <1>2
<1>4. \A i \in 1..n : SubSeq(s, m + 1, m + n)[i] = t[i]
  BY <1>1, <1>2 DEF StandsAt
<1> QED
  BY <1>2, <1>3, <1>4, SeqEqual

(* Three sequences in a row, the last of two elements. *)
LEMMA InARow ==
  ASSUME NEW x \in Seq(Nat), NEW y \in Seq(Nat), NEW z \in Seq(Nat), Len(z) = 2
  PROVE  /\ x \o y \o z \in Seq(Nat)
         /\ Len(x \o y \o z) = Len(x) + Len(y) + 2
         /\ Begins(x \o y \o z, x) /\ StandsAt(x \o y \o z, Len(x), y)
         /\ (x \o y \o z)[Len(x) + Len(y) + 1] = z[1]
         /\ (x \o y \o z)[Len(x) + Len(y) + 2] = z[2]
<1>1. Len(x) \in Nat /\ Len(y) \in Nat
  OBVIOUS
<1>2. /\ x \o y \in Seq(Nat) /\ Len(x \o y) = Len(x) + Len(y)
      /\ \A i \in 1..(Len(x) + Len(y)) : (x \o y)[i] = IF i <= Len(x) THEN x[i] ELSE y[i - Len(x)]
  BY ConcatProperties
<1>3. PICK w \in Seq(Nat) : w = x \o y
  BY <1>2
<1>4. /\ w \o z \in Seq(Nat) /\ Len(w \o z) = Len(w) + Len(z)
      /\ \A i \in 1..(Len(w) + Len(z)) : (w \o z)[i] = IF i <= Len(w) THEN w[i] ELSE z[i - Len(w)]
  BY ConcatProperties
<1>5. /\ Len(w) = Len(x) + Len(y)
      /\ \A i \in 1..Len(x) : w[i] = x[i]
      /\ \A i \in 1..Len(y) : w[Len(x) + i] = y[i]
  BY <1>1, <1>2, <1>3
<1>6. /\ \A i \in 1..Len(x) : (w \o z)[i] = w[i]
      /\ \A i \in 1..Len(y) : (w \o z)[Len(x) + i] = w[Len(x) + i]
      /\ (w \o z)[Len(x) + Len(y) + 1] = z[1]
      /\ (w \o z)[Len(x) + Len(y) + 2] = z[2]
  <2>1. \A i \in 1..Len(w) : (w \o z)[i] = w[i]
    BY <1>4
  <2>2. /\ \A i \in 1..Len(x) : i \in 1..Len(w)
        /\ \A i \in 1..Len(y) : Len(x) + i \in 1..Len(w)
    BY <1>1, <1>5
  <2>3. (w \o z)[Len(w) + 1] = z[1] /\ (w \o z)[Len(w) + 2] = z[2]
    BY <1>4
  <2> QED
    BY <1>5, <2>1, <2>2, <2>3, Zenon
<1> QED
  BY <1>1, <1>3, <1>4, <1>5, <1>6 DEF Begins, StandsAt

(* A length that fits its byte. *)
LEMMA FitsByte ==
  ASSUME NEW n \in Nat, n < 256
  PROVE  n % 256 = n
BY SMT

(* A port is a number. *)
LEMMA PortIsNat == \A n \in Port : n \in Nat
BY DEF Port

(* A port is given by its two bytes. *)
LEMMA PortFacts ==
  ASSUME NEW port \in Nat
  PROVE  /\ BigEndian(port) \in Seq(Nat) /\ Len(BigEndian(port)) = 2
         /\ FromBigEndian(BigEndian(port)) = port
<1>1. port \div 256 \in Nat /\ port % 256 \in Nat
  OBVIOUS
<1>2. port % 256 = port - 256 * (port \div 256)
  OBVIOUS
<1>3. PICK high \in Nat, low \in Nat : high = port \div 256 /\ low = port % 256
  BY <1>1
<1>4. BigEndian(port) = <<high, low>>
  BY <1>3 DEF BigEndian
<1>5. 256 * high + low = port
  BY <1>2, <1>3
<1>6. FromBigEndian(<<high, low>>) = port
  BY <1>5 DEF FromBigEndian
<1> QED
  BY <1>4, <1>6

\* An address by its parts, for the provers cannot look into one well.
Parts(t, h, port) == [type |-> t, host |-> h, port |-> port]
FitsType(t, n) ==
  \/ t = "ipv4" /\ n = 4
  \/ t = "ipv6" /\ n = 16
  \/ t = "domain" /\ n \in Nat /\ 0 < n /\ n < 256

LEMMA AddressFacts ==
  ASSUME NEW a \in Addresses
  PROVE  \E t \in Types, h \in Seq(Nat), port \in Nat :
           a = Parts(t, h, port) /\ FitsType(t, Len(h))
<1>1. a \in [type : Types, host : Seq(Byte), port : Port]
  BY DEF Addresses
<1>2. \/ a.type = "ipv4" /\ Len(a.host) = 4
      \/ a.type = "ipv6" /\ Len(a.host) = 16
      \/ a.type = "domain" /\ Len(a.host) \in 1 .. MAX_DOMAIN_LEN
  BY DEF Addresses
<1>3. PICK t \in Types, h \in Seq(Byte), port \in Port : a = Parts(t, h, port)
  <2>1. /\ a = [type |-> a.type, host |-> a.host, port |-> a.port]
        /\ a.type \in Types /\ a.host \in Seq(Byte) /\ a.port \in Port
    BY <1>1
  <2> QED
    BY <2>1, Zenon DEF Parts
<1>4. a.type = t /\ a.host = h
  BY <1>3 DEF Parts
<1>5. h \in Seq(Nat) /\ port \in Nat
  <2>1. \A b \in Byte : b \in Nat
    BY DEF Byte
  <2>5. port \in Nat
    BY PortIsNat, Zenon
  <2>2. Len(h) \in Nat /\ \A i \in 1..Len(h) : h[i] \in Nat
    BY <2>1
  <2>3. h = [i \in 1..Len(h) |-> h[i]]
    OBVIOUS
  <2>4. [i \in 1..Len(h) |-> h[i]] \in Seq(Nat)
    BY <2>2
  <2> QED
    BY <2>3, <2>4, <2>5, Zenon
<1>6. \A n : n \in 1 .. MAX_DOMAIN_LEN => n \in Nat /\ 0 < n /\ n < 256
  BY DEF MAX_DOMAIN_LEN
<1>7. FitsType(t, Len(h))
  BY <1>2, <1>4, <1>6, Zenon DEF FitsType
<1> QED
  BY <1>3, <1>5, <1>7

\* The bytes in front of the host.
FirstBytes(t, n) == IF t = "domain" THEN <<ATYP[t], n>> ELSE <<ATYP[t]>>
FrontLength(t) == IF t = "domain" THEN 2 ELSE 1

LEMMA FirstBytesFacts ==
  ASSUME NEW t \in Types, NEW n \in Nat
  PROVE  /\ FirstBytes(t, n) \in Seq(Nat)
         /\ Len(FirstBytes(t, n)) = FrontLength(t) /\ FrontLength(t) \in 1..2
         /\ FirstBytes(t, n)[1] = ATYP[t]
         /\ t = "domain" => FirstBytes(t, n)[2] = n
<1>1. ATYP[t] \in Nat
  BY DEF ATYP, Types
<1>2. CASE t = "domain"
  BY <1>1, <1>2 DEF FirstBytes, FrontLength
<1>3. CASE t # "domain"
  BY <1>1, <1>3 DEF FirstBytes, FrontLength
<1> QED
  BY <1>2, <1>3

LEMMA OneAndOne ==
  ASSUME NEW x \in Nat, NEW y \in Nat
  PROVE  <<x>> \o <<y>> = <<x, y>> /\ <<x>> \o <<>> = <<x>>
<1>1. <<x>> \in Seq(Nat) /\ <<y>> \in Seq(Nat) /\ <<x, y>> \in Seq(Nat)
  OBVIOUS
<1>2. /\ <<x>> \o <<y>> \in Seq(Nat) /\ Len(<<x>> \o <<y>>) = 2
      /\ \A i \in 1..2 : (<<x>> \o <<y>>)[i] = IF i <= 1 THEN <<x>>[i] ELSE <<y>>[i - 1]
  BY <1>1, ConcatProperties
<1>3. \A i \in 1..2 : (<<x>> \o <<y>>)[i] = <<x, y>>[i]
  BY <1>2
<1>4. <<x>> \o <<y>> = <<x, y>>
  BY <1>1, <1>2, <1>3, SeqEqual
<1>5. <<x>> \o <<>> = <<x>>
  BY <1>1, ConcatEmptySeq
<1> QED
  BY <1>4, <1>5

(* What is written: three sequences in a row. *)
LEMMA EncodeParts ==
  ASSUME NEW t \in Types, NEW h, NEW port, NEW n \in Nat, n = Len(h), n < 256
  PROVE  Encode(Parts(t, h, port)) = FirstBytes(t, n) \o h \o BigEndian(port)
<1>1. Len(h) % 256 = n
  BY FitsByte
<1>2. ATYP[t] \in Nat
  BY DEF ATYP, Types
<1>3. FirstBytes(t, n) = <<ATYP[t]>> \o (IF t = "domain" THEN <<n>> ELSE <<>>)
  BY <1>2, OneAndOne DEF FirstBytes
<1> QED
  BY <1>1, <1>3, Zenon DEF Encode, LengthByte, Parts

LEMMA LengthFacts ==
  ASSUME NEW t \in Types, NEW n \in Nat, FitsType(t, n)
  PROVE  0 < n /\ n < 256
BY DEF FitsType

\* The n bytes of the host stand in e behind the first m, and two more behind them.
HasHost(e, h, m, n) ==
  n = Len(h) /\ m > 0 /\ Len(e) >= m + n + 2 /\ StandsAt(e, m, h)
PortAt(e, m, n) == FromBigEndian(<<e[m + n + 1], e[m + n + 2]>>)

(* The host and the port of what stands behind the first m bytes. *)
LEMMA DecodeHostFacts ==
  ASSUME NEW t \in Types, NEW h \in Seq(Nat), NEW n \in Nat, NEW m \in Nat,
         NEW r \in Seq(Nat), HasHost(r, h, m, n)
  PROVE  DecodeHost(t, r, m, n)
           = [address |-> Parts(t, h, PortAt(r, m, n)), used |-> m + n + 2]
<1>0. n = Len(h) /\ Len(r) >= m + n + 2 /\ StandsAt(r, m, h)
  BY DEF HasHost
<1>1. SubSeq(r, m + 1, m + n) = h
  <2>1. Len(r) >= m + Len(h)
    BY <1>0
  <2> QED
    BY <2>1, <1>0, SubSeqIs
<1>2. SubSeq(r, m + n + 1, m + n + 2) = <<r[m + n + 1], r[m + n + 2]>>
  <2>1. PICK k \in Nat : k = m + n
    OBVIOUS
  <2>2. PICK t2 : t2 = <<r[k + 1], r[k + 2]>>
    OBVIOUS
  <2>3. r[k + 1] \in Nat /\ r[k + 2] \in Nat
    BY <1>0, <2>1
  <2>4. t2 \in Seq(Nat) /\ Len(t2) = 2 /\ t2[1] = r[k + 1] /\ t2[2] = r[k + 2]
    BY <2>2, <2>3
  <2>5. Len(r) >= k + 2
    BY <1>0, <2>1
  <2>6. SubSeq(r, k + 1, k + 2) = t2
    <3>1. StandsAt(r, k, t2)
      BY <2>4 DEF StandsAt
    <3>2. SubSeq(r, k + 1, k + Len(t2)) = t2
      BY <2>4, <2>5, <3>1, SubSeqIs
    <3> QED
      BY <2>4, <3>2
  <2> QED
    BY <2>1, <2>2, <2>6
<1>3. FromBigEndian(SubSeq(r, m + n + 1, m + n + 2)) = PortAt(r, m, n)
  BY <1>2, Zenon DEF PortAt
<1>4. ~(Len(r) < m + n + 2)
  BY <1>0
<1> QED
  BY <1>1, <1>3, <1>4, Zenon DEF DecodeHost, Parts

(* Which of them is decoded. *)
LEMMA DecodeCases ==
  ASSUME NEW t \in Types, NEW n \in Nat, FitsType(t, n),
         NEW r \in Seq(Nat), Len(r) > 1, r[1] = ATYP[t], t = "domain" => r[2] = n
  PROVE  Decode(r) = DecodeHost(t, r, FrontLength(t), n)
<1>1. ATYP["ipv4"] = 1 /\ ATYP["ipv6"] = 4 /\ ATYP["domain"] = 3
  BY DEF ATYP
<1>2. r # <<>>
  OBVIOUS
<1>3. CASE t = "ipv4"
  <2>1. r[1] = 1 /\ n = 4
    BY <1>1, <1>3 DEF FitsType
  <2> QED
    BY <1>1, <1>2, <1>3, <2>1 DEF Decode, FrontLength
<1>4. CASE t = "ipv6"
  <2>1. r[1] = 4 /\ n = 16
    BY <1>1, <1>4 DEF FitsType
  <2> QED
    BY <1>1, <1>2, <1>4, <2>1 DEF Decode, FrontLength
<1>5. CASE t = "domain"
  <2>1. r[1] = 3 /\ r[2] = n /\ n # 0
    BY <1>1, <1>5 DEF FitsType
  <2> QED
    BY <1>1, <1>2, <1>5, <2>1 DEF Decode, FrontLength
<1> QED
  BY <1>3, <1>4, <1>5 DEF Types

\* The first bytes and the port of r are those of e.
SameFrame(r, e, m, n) == r[1] = e[1] /\ r[2] = e[2] /\ PortAt(r, m, n) = PortAt(e, m, n)

(* What begins with a host in its frame has both. *)
LEMMA PrefixFacts ==
  ASSUME NEW e \in Seq(Nat), NEW h \in Seq(Nat), NEW r \in Seq(Nat),
         NEW m \in Nat, NEW n \in Nat, HasHost(e, h, m, n), Begins(r, e)
  PROVE  HasHost(r, h, m, n) /\ SameFrame(r, e, m, n) /\ Len(r) > 1
<1>1. n = Len(h) /\ m > 0 /\ Len(e) >= m + n + 2 /\ StandsAt(e, m, h)
  BY DEF HasHost
<1>2. Len(r) >= m + n + 2 /\ Len(r) > 1
  BY <1>1 DEF Begins
<1>3. \A k \in 1..(m + n + 2) : r[k] = e[k]
  BY <1>1 DEF Begins
<1>4. StandsAt(r, m, h)
  BY <1>1, BeginsStandsAt
<1>5. /\ 1 \in 1..(m + n + 2) /\ 2 \in 1..(m + n + 2)
      /\ m + n + 1 \in 1..(m + n + 2) /\ m + n + 2 \in 1..(m + n + 2)
  <2>1. \A p \in Nat, q \in Nat : p > 0 =>
          /\ 1 \in 1..(p + q + 2) /\ 2 \in 1..(p + q + 2)
          /\ p + q + 1 \in 1..(p + q + 2) /\ p + q + 2 \in 1..(p + q + 2)
    OBVIOUS
  <2> QED
    BY <1>1, <2>1, Zenon
<1>6. SameFrame(r, e, m, n)
  BY <1>3, <1>5, Zenon DEF SameFrame, PortAt
<1> QED
  BY <1>1, <1>2, <1>4, <1>6, Zenon DEF HasHost

\* The type, the host and the port are what e says.
Says(e, t, h, port, m, n) ==
  /\ HasHost(e, h, m, n) /\ m = FrontLength(t) /\ Len(e) = m + n + 2
  /\ e[1] = ATYP[t] /\ (t = "domain" => e[2] = n)
  /\ PortAt(e, m, n) = port

LEMMA EncodeSays ==
  ASSUME NEW t \in Types, NEW h \in Seq(Nat), NEW port \in Nat, NEW n \in Nat, n = Len(h)
  PROVE  /\ FirstBytes(t, n) \o h \o BigEndian(port) \in Seq(Nat)
         /\ Says(FirstBytes(t, n) \o h \o BigEndian(port), t, h, port, FrontLength(t), n)
<1>1. PICK x \in Seq(Nat) : x = FirstBytes(t, n) /\ Len(x) = FrontLength(t)
        /\ x[1] = ATYP[t] /\ (t = "domain" => x[2] = n)
  BY FirstBytesFacts, Zenon
<1>2. PICK z \in Seq(Nat) : z = BigEndian(port) /\ Len(z) = 2 /\ FromBigEndian(z) = port
  BY PortFacts, Zenon
<1>3. PICK m \in Nat : m = FrontLength(t) /\ m > 0 /\ (t = "domain" => m = 2)
  BY DEF FrontLength
<1>4. m = Len(x)
  BY <1>1, <1>3, Zenon
<1>5. /\ x \o h \o z \in Seq(Nat)
      /\ Len(x \o h \o z) = Len(x) + Len(h) + 2
      /\ Begins(x \o h \o z, x) /\ StandsAt(x \o h \o z, Len(x), h)
      /\ (x \o h \o z)[Len(x) + Len(h) + 1] = z[1]
      /\ (x \o h \o z)[Len(x) + Len(h) + 2] = z[2]
  BY <1>2, InARow, Zenon
<1>6. PICK e \in Seq(Nat) : /\ e = x \o h \o z
        /\ Len(e) = m + n + 2 /\ Begins(e, x) /\ StandsAt(e, m, h)
        /\ e[m + n + 1] = z[1] /\ e[m + n + 2] = z[2]
  BY <1>4, <1>5, Zenon
<1>7. e[1] = x[1] /\ (t = "domain" => e[2] = x[2])
  <2>1. \A i \in 1..m : e[i] = x[i]
    BY <1>4, <1>6, Zenon DEF Begins
  <2>2. 1 \in 1..m /\ (m = 2 => 2 \in 1..m)
    BY <1>3
  <2> QED
    BY <1>3, <2>1, <2>2, Zenon
<1>8. PortAt(e, m, n) = port
  <2>1. FromBigEndian(<<z[1], z[2]>>) = FromBigEndian(z)
    BY DEF FromBigEndian
  <2> QED
    BY <2>1, <1>2, <1>6, Zenon DEF PortAt
<1>9. HasHost(e, h, m, n)
  <2>1. Len(e) >= m + n + 2
    BY <1>6
  <2> QED
    BY <2>1, <1>3, <1>6, Zenon DEF HasHost
<1>10. Says(e, t, h, port, m, n)
  BY <1>1, <1>3, <1>6, <1>7, <1>8, <1>9, Zenon DEF Says
<1>11. e = FirstBytes(t, n) \o h \o BigEndian(port)
  BY <1>1, <1>2, <1>6, Zenon
<1> QED
  BY <1>3, <1>10, <1>11, Zenon

LEMMA DecodeParts ==
  ASSUME NEW t \in Types, NEW h \in Seq(Nat), NEW port \in Nat, NEW m \in Nat,
         NEW n \in Nat, FitsType(t, n),
         NEW e \in Seq(Nat), Says(e, t, h, port, m, n),
         NEW r \in Seq(Nat), Begins(r, e)
  PROVE  Decode(r) = [address |-> Parts(t, h, port), used |-> Len(e)]
<1>1. HasHost(e, h, m, n) /\ m = FrontLength(t) /\ Len(e) = m + n + 2
  BY Zenon DEF Says
<1>2. HasHost(r, h, m, n) /\ SameFrame(r, e, m, n) /\ Len(r) > 1
  BY <1>1, PrefixFacts
<1>3. PortAt(r, m, n) = port
  BY <1>2, Zenon DEF Says, SameFrame
<1>4. DecodeHost(t, r, m, n) = [address |-> Parts(t, h, port), used |-> m + n + 2]
  <2>1. DecodeHost(t, r, m, n)
          = [address |-> Parts(t, h, PortAt(r, m, n)), used |-> m + n + 2]
    BY <1>2, DecodeHostFacts
  <2> QED
    BY <2>1, <1>3, Zenon
<1>5. Decode(r) = DecodeHost(t, r, FrontLength(t), n)
  <2>1. r[1] = ATYP[t] /\ (t = "domain" => r[2] = n)
    BY <1>2, Zenon DEF Says, SameFrame
  <2> QED
    BY <2>1, <1>2, DecodeCases, Zenon
<1> QED
  BY <1>1, <1>4, <1>5, Zenon

(* address.rs, encode and decode: what was encoded is decoded again, and its  *)
(* end is found, whatever bytes follow.                                       *)
THEOREM DecodeFindsWhatWasEncoded ==
  ASSUME NEW a \in Addresses
  PROVE  /\ Encode(a) \in Seq(Nat) /\ Len(Encode(a)) > 0
         /\ \A r \in Seq(Nat) :
              Begins(r, Encode(a)) => Decode(r) = [address |-> a, used |-> Len(Encode(a))]
<1>1. PICK t \in Types, h \in Seq(Nat), port \in Nat :
        a = Parts(t, h, port) /\ FitsType(t, Len(h))
  BY AddressFacts
<1>2. PICK n \in Nat : Len(h) = n /\ FitsType(t, n)
  BY <1>1
<1>3. PICK e \in Seq(Nat), m \in Nat :
        e = FirstBytes(t, n) \o h \o BigEndian(port) /\ Says(e, t, h, port, m, n)
  <2>1. FrontLength(t) \in Nat
    BY DEF FrontLength
  <2> QED
    BY <2>1, <1>2, EncodeSays, Zenon
<1>4. Len(e) > 0
  <2>1. Len(e) = m + n + 2
    BY <1>3, Zenon DEF Says
  <2> QED
    BY <2>1
<1>5. \A r \in Seq(Nat) :
        Begins(r, e) => Decode(r) = [address |-> Parts(t, h, port), used |-> Len(e)]
  <2>1. SUFFICES ASSUME NEW r \in Seq(Nat), Begins(r, e)
                 PROVE  Decode(r) = [address |-> Parts(t, h, port), used |-> Len(e)]
    OBVIOUS
  <2>2. FitsType(t, n) /\ Says(e, t, h, port, m, n)
    BY <1>2, <1>3, Zenon
  <2> QED
    BY <2>1, <2>2, DecodeParts
<1>6. Encode(a) = e
  <2>1. n < 256
    BY <1>2, LengthFacts
  <2>2. Encode(Parts(t, h, port)) = FirstBytes(t, n) \o h \o BigEndian(port)
    BY <2>1, <1>2, EncodeParts
  <2> QED
    BY <2>2, <1>1, <1>3, Zenon
<1> QED
  BY <1>1, <1>3, <1>4, <1>5, <1>6, Zenon

-----------------------------------------------------------------------------
(* The nonces. *)

Units == [nonce : Nat, length : Nat, data : Seq(Nat)]

(* A sealed chunk is two units with the next two nonces, in order. *)
LEMMA SealedUnits ==
  ASSUME NEW n \in Nat, NEW payload \in Seq(Nat)
  PROVE  /\ Sealed(n, payload) \in Seq(Units)
         /\ Len(Sealed(n, payload)) = 2
         /\ Sealed(n, payload)[1].nonce = n
         /\ Sealed(n, payload)[2].nonce = n + 1
<1>1. Len(payload) \in Nat /\ <<>> \in Seq(Nat)
  OBVIOUS
<1> QED
  BY <1>1 DEF Sealed, Units

(* Two units behind a sequence. *)
LEMMA AppendTwo ==
  ASSUME NEW S, NEW s \in Seq(S), NEW t \in Seq(S), Len(t) = 2
  PROVE  /\ s \o t \in Seq(S) /\ Len(s \o t) = Len(s) + 2
         /\ \A i \in 1..Len(s) : (s \o t)[i] = s[i]
         /\ (s \o t)[Len(s) + 1] = t[1]
         /\ (s \o t)[Len(s) + 2] = t[2]
<1>1. Len(s) \in Nat
  OBVIOUS
<1>2. s \o t \in Seq(S) /\ Len(s \o t) = Len(s) + Len(t)
  BY ConcatProperties
<1>3. \A i \in 1..(Len(s) + Len(t)) :
        (s \o t)[i] = IF i <= Len(s) THEN s[i] ELSE t[i - Len(s)]
  BY ConcatProperties
<1> QED
  BY <1>1, <1>2, <1>3

(* What the chunks of a write are made of. *)
LEMMA ChunkTypes ==
  ASSUME unsent \in Seq(Nat)
  PROVE  /\ ChunkOf \in Seq(Nat)
         /\ SubSeq(unsent, Len(ChunkOf) + 1, Len(unsent)) \in Seq(Nat)
<1>1. Len(unsent) \in Nat /\ MaxChunk \in Nat
  BY StreamAssumption
<1>2. ChunkOf \in Seq(Nat) /\ Len(ChunkOf) \in Nat
  BY <1>1 DEF ChunkOf
<1> QED
  BY <1>1, <1>2

(* The invariant in the parts that a proof about the units uses. *)
LEMMA NonceFacts ==
  ASSUME NonceInv
  PROVE  /\ unsent \in Seq(Nat) /\ encNonce \in Nat /\ srvNonce \in Nat
         /\ srvNonce <= encNonce
         /\ toServer \in Seq(Units) /\ Len(toServer) \in Nat
         /\ \A i \in 1..Len(toServer) :
              toServer[i].nonce \in Nat /\ srvNonce <= toServer[i].nonce /\ toServer[i].nonce < encNonce
         /\ \A i, j \in 1..Len(toServer) : i < j => toServer[i].nonce < toServer[j].nonce
<1>1. unsent \in Seq(Nat) /\ encNonce \in Nat /\ srvNonce \in 0..encNonce
  BY DEF NonceInv
<1>2. toServer \in Seq(Units)
  BY DEF NonceInv, Units
<1>3. \A i \in 1..Len(toServer) : toServer[i].nonce \in srvNonce..(encNonce - 1)
  BY DEF NonceInv
<1>4. \A i, j \in 1..Len(toServer) : i < j => toServer[i].nonce < toServer[j].nonce
  BY DEF NonceInv
<1> QED
  BY <1>1, <1>2, <1>3, <1>4

LEMMA InitNonceInv == Init => NonceInv
<1> SUFFICES ASSUME Init PROVE NonceInv
  OBVIOUS
<1>1. Encode(Target) \in Seq(Nat)
  BY StreamAssumption, DecodeFindsWhatWasEncoded
<1>2. /\ toServer \in Seq(Units) /\ Len(toServer) = 2
      /\ toServer[1].nonce = 0 /\ toServer[2].nonce = 1
  BY <1>1, SealedUnits DEF Init
<1>3. /\ accepted \in Seq(Nat) /\ unsent \in Seq(Nat)
      /\ encNonce = 2 /\ srvNonce = 0
  BY DEF Init
<1> QED
  BY <1>2, <1>3 DEF NonceInv, Units

(* A chunk is sealed behind everything under way. *)
LEMMA WriteChunkKeeps ==
  ASSUME NonceInv, WriteChunk
  PROVE  NonceInv'
<1> DEFINE sealed == Sealed(encNonce, ChunkOf)
<1>1. /\ toServer' = toServer \o sealed
      /\ encNonce' = encNonce + 2
      /\ accepted' = accepted /\ srvNonce' = srvNonce
  BY DEF WriteChunk, NextNonce
<1>2. ChunkOf \in Seq(Nat) /\ unsent' \in Seq(Nat)
  <2>1. ChunkOf \in Seq(Nat) /\ SubSeq(unsent, Len(ChunkOf) + 1, Len(unsent)) \in Seq(Nat)
    BY NonceFacts, ChunkTypes
  <2> QED
    BY <2>1 DEF WriteChunk
<1>3. /\ sealed \in Seq(Units) /\ Len(sealed) = 2
      /\ sealed[1].nonce = encNonce /\ sealed[2].nonce = encNonce + 1
  BY <1>2, SealedUnits, NonceFacts
<1> HIDE DEF sealed
<1>4. toServer \in Seq(Units) /\ Len(toServer) \in Nat
  BY NonceFacts
<1>5. /\ toServer' \in Seq(Units) /\ Len(toServer') = Len(toServer) + 2
      /\ \A i \in 1..Len(toServer) : toServer'[i] = toServer[i]
      /\ toServer'[Len(toServer) + 1] = sealed[1]
      /\ toServer'[Len(toServer) + 2] = sealed[2]
  BY <1>1, <1>3, <1>4, AppendTwo
<1>6. \A i \in 1..Len(toServer') : toServer'[i].nonce \in srvNonce'..(encNonce' - 1)
  <2> SUFFICES ASSUME NEW i \in 1..Len(toServer')
      PROVE  toServer'[i].nonce \in srvNonce'..(encNonce' - 1)
    OBVIOUS
  <2>1. CASE i \in 1..Len(toServer)
    BY <2>1, <1>1, <1>5, NonceFacts
  <2>2. CASE i = Len(toServer) + 1
    BY <2>2, <1>1, <1>3, <1>5, NonceFacts
  <2>3. CASE i = Len(toServer) + 2
    BY <2>3, <1>1, <1>3, <1>5, NonceFacts
  <2> QED
    BY <2>1, <2>2, <2>3, <1>4, <1>5
<1>7. \A i, j \in 1..Len(toServer') : i < j => toServer'[i].nonce < toServer'[j].nonce
  <2> SUFFICES ASSUME NEW i \in 1..Len(toServer'), NEW j \in 1..Len(toServer'), i < j
      PROVE  toServer'[i].nonce < toServer'[j].nonce
    OBVIOUS
  <2>1. CASE j \in 1..Len(toServer)
    <3>1. i \in 1..Len(toServer)
      BY <2>1, <1>4
    <3> QED
      BY <2>1, <3>1, <1>5, NonceFacts
  <2>2. CASE j = Len(toServer) + 1
    <3>1. i \in 1..Len(toServer)
      BY <2>2, <1>4
    <3> QED
      BY <2>2, <3>1, <1>3, <1>5, NonceFacts
  <2>3. CASE j = Len(toServer) + 2
    <3>1. i \in 1..Len(toServer) \/ i = Len(toServer) + 1
      BY <2>3, <1>4
    <3>2. CASE i \in 1..Len(toServer)
      <4>1. toServer[i].nonce \in Nat /\ toServer[i].nonce < encNonce /\ encNonce \in Nat
        BY <3>2, NonceFacts
      <4> QED
        BY <2>3, <3>2, <4>1, <1>3, <1>5
    <3>3. CASE i = Len(toServer) + 1
      BY <2>3, <3>3, <1>3, <1>5, NonceFacts
    <3> QED
      BY <3>1, <3>2, <3>3
  <2> QED
    BY <2>1, <2>2, <2>3, <1>4, <1>5
<1>8. /\ accepted' \in Seq(Nat) /\ encNonce' \in Nat /\ srvNonce' \in 0..encNonce'
      /\ toServer' \in Seq([nonce : Nat, length : Nat, data : Seq(Nat)])
  <2>1. accepted \in Seq(Nat)
    BY DEF NonceInv
  <2>2. toServer' \in Seq([nonce : Nat, length : Nat, data : Seq(Nat)])
    BY <1>5 DEF Units
  <2> QED
    BY <2>1, <2>2, <1>1, NonceFacts
<1> QED
  BY <1>2, <1>6, <1>7, <1>8 DEF NonceInv

(* The server takes the oldest unit, whose nonce is the one it expects. *)
LEMMA ServerReadsKeeps ==
  ASSUME NonceInv, ServerReads
  PROVE  NonceInv'
<1>1. /\ toServer # <<>> /\ toServer' = Tail(toServer) /\ srvNonce' = srvNonce + 1
      /\ Head(toServer).nonce = srvNonce
      /\ UNCHANGED <<accepted, unsent, encNonce>>
  BY DEF ServerReads
<1>2. toServer \in Seq(Units) /\ Len(toServer) \in Nat /\ Len(toServer) > 0
  BY <1>1 DEF NonceInv, Units
<1>3. /\ toServer' \in Seq(Units) /\ Len(toServer') = Len(toServer) - 1
      /\ \A i \in 1..Len(toServer') : toServer'[i] = toServer[i + 1]
      /\ toServer[1].nonce = srvNonce
  BY <1>1, <1>2
<1>4. srvNonce' \in 0..encNonce
  BY <1>1, <1>2, <1>3 DEF NonceInv
<1>5. \A i \in 1..Len(toServer') : toServer'[i].nonce \in srvNonce'..(encNonce - 1)
  <2> SUFFICES ASSUME NEW i \in 1..Len(toServer')
      PROVE  toServer'[i].nonce \in srvNonce'..(encNonce - 1)
    OBVIOUS
  <2>1. i + 1 \in 1..Len(toServer) /\ 1 \in 1..Len(toServer) /\ 1 < i + 1
    BY <1>2, <1>3
  <2> QED
    BY <2>1, <1>1, <1>3, NonceFacts
<1>6. \A i, j \in 1..Len(toServer') : i < j => toServer'[i].nonce < toServer'[j].nonce
  <2> SUFFICES ASSUME NEW i \in 1..Len(toServer'), NEW j \in 1..Len(toServer'), i < j
      PROVE  toServer'[i].nonce < toServer'[j].nonce
    OBVIOUS
  <2>1. i + 1 \in 1..Len(toServer) /\ j + 1 \in 1..Len(toServer) /\ i + 1 < j + 1
    BY <1>2, <1>3
  <2> QED
    BY <2>1, <1>3, NonceFacts
<1> QED
  BY <1>1, <1>3, <1>4, <1>5, <1>6 DEF NonceInv, Units

LEMMA NextNonceInv == NonceInv /\ [Next]_vars => NonceInv'
<1> SUFFICES ASSUME NonceInv, [Next]_vars PROVE NonceInv'
  OBVIOUS
<1>1. ASSUME NEW n \in 1..MaxBytes, Write([i \in 1..n |-> Len(accepted) + i])
      PROVE  NonceInv'
  <2>1. n \in Nat /\ Len(accepted) \in Nat
    BY DEF NonceInv
  <2>2. [i \in 1..n |-> Len(accepted) + i] \in Seq(Nat)
    BY <2>1
  <2>3. accepted' \in Seq(Nat) /\ unsent' \in Seq(Nat)
    BY <1>1, <2>2 DEF Write, NonceInv
  <2>4. UNCHANGED <<encNonce, toServer, srvNonce>>
    BY <1>1 DEF Write
  <2> QED
    BY <2>3, <2>4 DEF NonceInv
<1>2. CASE WriteChunk
  BY <1>2, WriteChunkKeeps
<1>3. CASE WriteFails
  <2>1. /\ unsent' = <<>> /\ encNonce' = encNonce + 2
        /\ UNCHANGED <<accepted, toServer, srvNonce>>
    BY <1>3 DEF WriteFails, NextNonce
  <2>2. /\ encNonce' \in Nat /\ srvNonce' \in 0..encNonce' /\ unsent' \in Seq(Nat)
        /\ \A i \in 1..Len(toServer) : toServer[i].nonce \in srvNonce..(encNonce' - 1)
    BY <2>1, NonceFacts
  <2>3. /\ accepted \in Seq(Nat)
        /\ toServer \in Seq([nonce : Nat, length : Nat, data : Seq(Nat)])
    BY DEF NonceInv
  <2> QED
    BY <2>1, <2>2, <2>3, NonceFacts DEF NonceInv
<1>4. CASE ServerReads
  BY <1>4, ServerReadsKeeps
<1>5. CASE UNCHANGED wvars
  BY <1>5 DEF wvars, NonceInv
<1>6. CASE \/ \E n \in 1..MaxChunk : ServerSends([i \in 1..n |-> Len(srvSent) + i])
           \/ Deliver \/ Close
  BY <1>6, <1>5 DEF ServerSends, Deliver, Close
<1>7. CASE \/ \E n \in BufSizes : ReadBuffered(n) \/ Read(n)
           \/ Take \/ GotSalt \/ GotLength \/ GotPayload \/ EndOfStream
           \/ CancelRead \/ PollRead \/ PollWrite
  <2>1. UNCHANGED wvars
    BY <1>7 DEF ReadBuffered, Read, Take, GotSalt, GotLength, GotPayload, EndOfStream,
      CancelRead, PollRead, PollWrite
  <2> QED
    BY <2>1, <1>5
<1>8. CASE UNCHANGED vars
  BY <1>8, <1>5 DEF vars
<1> QED
  BY <1>1, <1>2, <1>3, <1>4, <1>6, <1>7, <1>8 DEF Next

(* cipher.rs, next_nonce and encrypt_payload: no nonce of the encryptor seals *)
(* two units of a connection, also when writes fail between them.             *)
THEOREM NonceIsNeverReused == Spec => []NoNonceTwice
<1>1. NonceInv => NoNonceTwice
  <2> SUFFICES ASSUME NonceInv PROVE NoNonceTwice
    OBVIOUS
  <2> SUFFICES ASSUME NEW i \in 1..Len(toServer)
      PROVE  /\ toServer[i].nonce \in srvNonce..(encNonce - 1)
             /\ \A j \in 1..(i - 1) : toServer[j].nonce # toServer[i].nonce
    BY DEF NoNonceTwice
  <2>1. toServer[i].nonce \in srvNonce..(encNonce - 1)
    BY DEF NonceInv
  <2>2. ASSUME NEW j \in 1..(i - 1) PROVE toServer[j].nonce # toServer[i].nonce
    <3>1. j \in 1..Len(toServer) /\ j < i /\ Len(toServer) \in Nat
      BY <2>2, NonceFacts
    <3>2. /\ toServer[j].nonce < toServer[i].nonce
          /\ toServer[j].nonce \in Nat /\ toServer[i].nonce \in Nat
      BY <3>1, NonceFacts
    <3> QED
      BY <3>2
  <2> QED
    BY <2>1, <2>2
<1> QED
  BY <1>1, InitNonceInv, NextNonceInv, PTL DEF Spec

-----------------------------------------------------------------------------
(* The target. *)

LEMMA InitTargetInv == Init => TargetInv
<1> SUFFICES ASSUME Init PROVE TargetInv
  OBVIOUS
<1>1. PICK e : e = Encode(Target)
  OBVIOUS
<1>2. toServer = Sealed(0, e) /\ srvNonce = 0 /\ srvRead = <<>>
  BY <1>1 DEF Init
<1>3. /\ Len(toServer) >= 2
      /\ toServer[1].data = <<>> /\ toServer[2].data = e
  BY <1>2 DEF Sealed
<1>4. srvRead \in Seq(Nat)
  BY <1>2
<1> QED
  BY <1>1, <1>2, <1>3, <1>4, Zenon DEF TargetInv

(* Whatever is put behind the units under way. *)
LEMMA WriteKeepsTarget ==
  ASSUME NonceInv, TargetInv, WriteChunk
  PROVE  TargetInv'
<1>1. /\ toServer' = toServer \o Sealed(encNonce, ChunkOf)
      /\ srvNonce' = srvNonce /\ srvRead' = srvRead
  BY DEF WriteChunk
<1>2. toServer \in Seq(Units) /\ Len(toServer) \in Nat
  BY NonceFacts
<1>3. Sealed(encNonce, ChunkOf) \in Seq(Units) /\ Len(Sealed(encNonce, ChunkOf)) = 2
  BY NonceFacts, ChunkTypes, SealedUnits
<1>4. /\ Len(toServer') = Len(toServer) + 2
      /\ \A i \in 1..Len(toServer) : toServer'[i] = toServer[i]
  BY <1>1, <1>2, <1>3, AppendTwo
<1>5. /\ Len(toServer) >= 1 => Len(toServer') >= 1 /\ toServer'[1] = toServer[1]
      /\ Len(toServer) >= 2 => Len(toServer') >= 2 /\ toServer'[2] = toServer[2]
  BY <1>2, <1>4
<1>6. Len(toServer) >= 2 => Len(toServer) >= 1
  BY <1>2
<1> QED
  BY <1>1, <1>5, <1>6, Zenon DEF TargetInv

(* The salted chunk is opened, and then what follows is put behind it. *)
LEMMA ReadKeepsTarget ==
  ASSUME NonceInv, TargetInv, ServerReads
  PROVE  TargetInv'
<1>1. /\ toServer # <<>> /\ toServer' = Tail(toServer) /\ srvNonce' = srvNonce + 1
      /\ srvRead' = srvRead \o Head(toServer).data
  BY DEF ServerReads
<1>2. /\ toServer \in Seq(Units) /\ Len(toServer) \in Nat /\ srvNonce \in Nat
      /\ srvRead \in Seq(Nat)
  BY NonceFacts DEF TargetInv
<1>3. /\ Len(toServer') = Len(toServer) - 1
      /\ \A i \in 1..Len(toServer') : toServer'[i] = toServer[i + 1]
      /\ Head(toServer) = toServer[1]
      /\ toServer[1] \in Units
  BY <1>1, <1>2
<1>4. PICK d \in Seq(Nat) : d = toServer[1].data /\ srvRead' = srvRead \o d
  BY <1>1, <1>3 DEF Units
<1>5. PICK e \in Seq(Nat) : e = Encode(Target)
  BY StreamAssumption, DecodeFindsWhatWasEncoded
<1>6. /\ srvRead' \in Seq(Nat) /\ Len(srvRead') = Len(srvRead) + Len(d)
      /\ \A i \in 1..(Len(srvRead) + Len(d)) :
           srvRead'[i] = IF i <= Len(srvRead) THEN srvRead[i] ELSE d[i - Len(srvRead)]
  BY <1>2, <1>4, ConcatProperties
<1>7. CASE /\ srvNonce = 0 /\ srvRead = <<>> /\ Len(toServer) >= 2
           /\ toServer[1].data = <<>> /\ toServer[2].data = e
  <2>1. srvNonce' = 1 /\ Len(toServer') >= 1 /\ toServer'[1] = toServer[2]
    BY <1>1, <1>2, <1>3, <1>7
  <2>2. srvRead' = <<>>
    BY <1>4, <1>7, ConcatEmptySeq
  <2> QED
    BY <2>1, <2>2, <1>5, <1>6, <1>7, Zenon DEF TargetInv
<1>8. CASE srvNonce = 1 /\ srvRead = <<>> /\ toServer[1].data = e
  <2>1. srvNonce' >= 2 /\ d = e
    BY <1>1, <1>4, <1>8
  <2>2. srvRead' = e
    BY <2>1, <1>4, <1>8, ConcatEmptySeq
  <2>3. Len(e) >= Len(e)
    OBVIOUS
  <2> QED
    BY <2>1, <2>2, <2>3, <1>5, <1>6, Zenon DEF TargetInv
<1>9. CASE /\ srvNonce >= 2 /\ Len(srvRead) >= Len(e)
           /\ \A i \in 1..Len(e) : srvRead[i] = e[i]
  <2>1. srvNonce' >= 2
    BY <1>1, <1>2, <1>9
  <2>2. Len(srvRead) \in Nat /\ Len(d) \in Nat /\ Len(e) \in Nat
    BY <1>2
  <2>3. Len(srvRead') >= Len(e)
    BY <1>6, <1>9, <2>2
  <2>4. \A i \in 1..Len(e) : i <= Len(srvRead) /\ i \in 1..(Len(srvRead) + Len(d))
    BY <1>9, <2>2
  <2>5. \A i \in 1..Len(e) : srvRead'[i] = e[i]
    BY <1>6, <1>9, <2>4, Zenon
  <2> QED
    BY <2>1, <2>3, <2>5, <1>5, <1>6, Zenon DEF TargetInv
<1> QED
  BY <1>5, <1>7, <1>8, <1>9, Zenon DEF TargetInv

LEMMA NextTargetInv == NonceInv /\ TargetInv /\ [Next]_vars => TargetInv'
<1> SUFFICES ASSUME NonceInv, TargetInv, [Next]_vars PROVE TargetInv'
  OBVIOUS
<1>1. CASE WriteChunk
  BY <1>1, WriteKeepsTarget
<1>2. CASE ServerReads
  BY <1>2, ReadKeepsTarget
<1>3. CASE UNCHANGED <<toServer, srvNonce, srvRead>>
  BY <1>3, Zenon DEF TargetInv
<1>4. CASE \/ \E n \in 1..MaxBytes : Write([i \in 1..n |-> Len(accepted) + i])
           \/ WriteFails
           \/ \E n \in 1..MaxChunk : ServerSends([i \in 1..n |-> Len(srvSent) + i])
           \/ Deliver \/ Close
  BY <1>4, <1>3 DEF Write, WriteFails, ServerSends, Deliver, Close, wvars
<1>5. CASE \/ \E n \in BufSizes : ReadBuffered(n) \/ Read(n)
           \/ Take \/ GotSalt \/ GotLength \/ GotPayload \/ EndOfStream
           \/ CancelRead \/ PollRead \/ PollWrite
  BY <1>5, <1>3 DEF ReadBuffered, Read, Take, GotSalt, GotLength, GotPayload, EndOfStream,
    CancelRead, PollRead, PollWrite, wvars
<1>6. CASE UNCHANGED vars
  BY <1>6, <1>3 DEF vars, wvars
<1> QED
  BY <1>1, <1>2, <1>4, <1>5, <1>6 DEF Next

(* mod.rs, ShadowsocksStream::new, and address.rs: the server finds the target *)
(* in front of whatever else it has read, and knows where it ends.             *)
THEOREM TargetIsFound == Spec => []TargetArrives
<1>1. TargetInv => TargetArrives
  <2> SUFFICES ASSUME TargetInv, srvRead # <<>>
               PROVE  Decode(srvRead) = [address |-> Target, used |-> Len(Encode(Target))]
    BY DEF TargetArrives
  <2>1. srvRead \in Seq(Nat) /\ Begins(srvRead, Encode(Target))
    BY Zenon DEF TargetInv, Begins
  <2> QED
    BY <2>1, StreamAssumption, DecodeFindsWhatWasEncoded
<1> QED
  BY <1>1, InitNonceInv, NextNonceInv, InitTargetInv, NextTargetInv, PTL DEF Spec

-----------------------------------------------------------------------------
(* Stretches of a sequence. *)

(* There is one stretch between two places. *)
LEMMA PartUnique ==
  ASSUME NEW d, NEW e, NEW s, NEW a, NEW b, Part(d, s, a, b), Part(e, s, a, b)
  PROVE  d = e
<1>1. d \in Seq(Nat) /\ e \in Seq(Nat) /\ Len(d) = b - a /\ Len(e) = b - a
  BY DEF Part
<1>2. \A i \in 1..(b - a) : d[i] = e[i]
  BY DEF Part
<1> QED
  BY <1>1, <1>2, SeqEqual

LEMMA PartEmpty ==
  ASSUME NEW s \in Seq(Nat), NEW a \in Nat, a <= Len(s)
  PROVE  Part(<<>>, s, a, a)
BY DEF Part

(* What a stretch says of its ends. *)
LEMMA PartBounds ==
  ASSUME NEW d, NEW s, NEW a, NEW b, Part(d, s, a, b)
  PROVE  /\ d \in Seq(Nat) /\ s \in Seq(Nat) /\ a \in Nat /\ b \in Nat /\ Len(s) \in Nat
         /\ a <= b /\ b <= Len(s) /\ Len(d) = b - a /\ (a = b <=> d = <<>>)
BY DEF Part

(* Two stretches that meet are one. *)
LEMMA PartJoin ==
  ASSUME NEW d, NEW e, NEW s, NEW a, NEW b, NEW c, Part(d, s, a, b), Part(e, s, b, c)
  PROVE  Part(d \o e, s, a, c)
<1>1. /\ d \in Seq(Nat) /\ e \in Seq(Nat) /\ s \in Seq(Nat)
      /\ a \in Nat /\ b \in Nat /\ c \in Nat /\ a <= b /\ b <= c /\ c <= Len(s)
      /\ Len(d) = b - a /\ Len(e) = c - b
      /\ \A i \in 1..(b - a) : d[i] = s[a + i]
      /\ \A i \in 1..(c - b) : e[i] = s[b + i]
  BY DEF Part
<1>2. /\ d \o e \in Seq(Nat) /\ Len(d \o e) = Len(d) + Len(e)
      /\ \A i \in 1..(Len(d) + Len(e)) : (d \o e)[i] = IF i <= Len(d) THEN d[i] ELSE e[i - Len(d)]
  BY <1>1, ConcatProperties
<1>3. ASSUME NEW i \in 1..(c - a) PROVE (d \o e)[i] = s[a + i]
  <2>1. CASE i <= b - a
    <3>1. i \in 1..(b - a) /\ i \in 1..(Len(d) + Len(e)) /\ i <= Len(d)
      BY <1>1, <2>1
    <3> QED
      BY <3>1, <1>1, <1>2
  <2>2. CASE ~(i <= b - a)
    <3> DEFINE k == i - (b - a)
    <3>1. k \in 1..(c - b) /\ b + k = a + i
      BY <1>1, <2>2
    <3>2. (d \o e)[i] = e[k]
      <4>1. i \in 1..(Len(d) + Len(e)) /\ ~(i <= Len(d)) /\ i - Len(d) = k
        BY <1>1, <2>2
      <4> QED
        BY <1>2, <4>1, Zenon
    <3> HIDE DEF k
    <3> QED
      BY <1>1, <3>1, <3>2
  <2> QED
    BY <2>1, <2>2
<1>4. Len(d \o e) = c - a /\ a <= c
  BY <1>1, <1>2
<1> QED
  BY <1>1, <1>2, <1>3, <1>4, Zenon DEF Part

(* Concatenation is associative. *)
LEMMA ConcatGroups ==
  \A s, t, u \in Seq(Nat) : s \o (t \o u) = (s \o t) \o u
  BY ConcatAssociative, SMTT(20)

(* A stretch stays where it is when the sequence grows. *)
LEMMA PartExtend ==
  ASSUME NEW d, NEW s, NEW a, NEW b, Part(d, s, a, b), NEW x \in Seq(Nat)
  PROVE  Part(d, s \o x, a, b)
<1>1. s \in Seq(Nat) /\ a \in Nat /\ b \in Nat /\ a <= b /\ b <= Len(s)
  BY DEF Part
<1>2. /\ s \o x \in Seq(Nat) /\ Len(s \o x) = Len(s) + Len(x)
      /\ \A i \in 1..(Len(s) + Len(x)) : (s \o x)[i] = IF i <= Len(s) THEN s[i] ELSE x[i - Len(s)]
  BY <1>1, ConcatProperties
<1>3. \A i \in 1..(b - a) : (s \o x)[a + i] = s[a + i]
  BY <1>1, <1>2
<1>4. d \in Seq(Nat) /\ Len(d) = b - a /\ \A i \in 1..(b - a) : d[i] = s[a + i]
  BY DEF Part
<1>5. b <= Len(s \o x)
  <2>1. Len(x) \in Nat /\ Len(s) \in Nat
    BY <1>1
  <2> QED
    BY <1>1, <1>2, <2>1
<1>6. \A i \in 1..(b - a) : d[i] = (s \o x)[a + i]
  BY <1>3, <1>4, Zenon
<1> QED
  BY <1>1, <1>2, <1>4, <1>5, <1>6, Zenon DEF Part

(* What a sequence grows by is a stretch behind it. *)
LEMMA PartBehindIt ==
  ASSUME NEW s \in Seq(Nat), NEW x \in Seq(Nat)
  PROVE  Part(x, s \o x, Len(s), Len(s \o x)) /\ Len(s \o x) = Len(s) + Len(x)
<1>2. /\ s \o x \in Seq(Nat) /\ Len(s \o x) = Len(s) + Len(x)
      /\ \A i \in 1..(Len(s) + Len(x)) : (s \o x)[i] = IF i <= Len(s) THEN s[i] ELSE x[i - Len(s)]
  BY ConcatProperties
<1>3. \A i \in 1..Len(x) : (s \o x)[Len(s) + i] = x[i]
  BY <1>2
<1> QED
  BY <1>2, <1>3 DEF Part

(* A stretch behind s is the front of what s has grown by. *)
LEMMA PartOfRest ==
  ASSUME NEW d, NEW s \in Seq(Nat), NEW x \in Seq(Nat), NEW n \in Nat,
         Part(d, s \o x, Len(s), Len(s) + n)
  PROVE  n <= Len(x) /\ d = SubSeq(x, 1, n)
<1>2. /\ s \o x \in Seq(Nat) /\ Len(s \o x) = Len(s) + Len(x)
      /\ \A i \in 1..(Len(s) + Len(x)) : (s \o x)[i] = IF i <= Len(s) THEN s[i] ELSE x[i - Len(s)]
  BY ConcatProperties
<1>3. d \in Seq(Nat) /\ Len(d) = n /\ n <= Len(x)
  BY <1>2 DEF Part
<1>4. ASSUME NEW i \in 1..n PROVE d[i] = x[i]
  <2>1. i \in 1..((Len(s) + n) - Len(s)) /\ Len(s) + i \in 1..(Len(s) + Len(x))
        /\ ~(Len(s) + i <= Len(s)) /\ (Len(s) + i) - Len(s) = i
    BY <1>3
  <2>2. d[i] = (s \o x)[Len(s) + i]
    BY <2>1 DEF Part
  <2>3. (s \o x)[Len(s) + i] = x[(Len(s) + i) - Len(s)]
    BY <2>1, <1>2
  <2> QED
    BY <2>1, <2>2, <2>3
<1>5. /\ SubSeq(x, 1, n) \in Seq(Nat) /\ Len(SubSeq(x, 1, n)) = n
      /\ \A i \in 1..n : SubSeq(x, 1, n)[i] = x[i]
  BY <1>3
<1> QED
  BY <1>3, <1>4, <1>5, SeqEqual

(* A stretch from the beginning. *)
LEMMA PartFront ==
  ASSUME NEW d, NEW s, NEW n, Part(d, s, 0, n)
  PROVE  n \in 0..Len(s) /\ d = SubSeq(s, 1, n)
<1>1. d \in Seq(Nat) /\ s \in Seq(Nat) /\ n \in Nat /\ n <= Len(s) /\ Len(d) = n
  BY DEF Part
<1>2. \A i \in 1..n : d[i] = s[i]
  BY <1>1 DEF Part
<1>5. /\ SubSeq(s, 1, n) \in Seq(Nat) /\ Len(SubSeq(s, 1, n)) = n
      /\ \A i \in 1..n : SubSeq(s, 1, n)[i] = s[i]
  BY <1>1
<1> QED
  BY <1>1, <1>2, <1>5, SeqEqual

(* A stretch is cut in two. *)
LEMMA PartCut ==
  ASSUME NEW d, NEW s, NEW a, NEW b, Part(d, s, a, b), NEW n \in Nat, n <= Len(d)
  PROVE  /\ Part(SubSeq(d, 1, n), s, a, a + n)
         /\ Part(SubSeq(d, n + 1, Len(d)), s, a + n, b)
<1>1. /\ d \in Seq(Nat) /\ s \in Seq(Nat)
      /\ a \in Nat /\ b \in Nat /\ a <= b /\ b <= Len(s) /\ Len(d) = b - a
      /\ \A i \in 1..(b - a) : d[i] = s[a + i]
  BY DEF Part
<1>2. /\ SubSeq(d, 1, n) \in Seq(Nat) /\ Len(SubSeq(d, 1, n)) = n
      /\ \A i \in 1..n : SubSeq(d, 1, n)[i] = d[i]
  <2>1. d \in Seq(Nat)
    BY <1>1
  <2> QED
    BY <2>1
<1>3. /\ SubSeq(d, n + 1, Len(d)) \in Seq(Nat) /\ Len(SubSeq(d, n + 1, Len(d))) = Len(d) - n
      /\ \A i \in 1..(Len(d) - n) : SubSeq(d, n + 1, Len(d))[i] = d[n + i]
  <2>1. d \in Seq(Nat)
    BY <1>1
  <2>2. SubSeq(d, n + 1, Len(d)) \in Seq(Nat) /\ Len(SubSeq(d, n + 1, Len(d))) = Len(d) - n
    BY <2>1
  <2>3. \A i \in 1..(Len(d) - n) : SubSeq(d, n + 1, Len(d))[i] = d[n + i]
    BY <2>1
  <2> QED
    BY <2>2, <2>3
<1>4. \A i \in 1..(Len(d) - n) : n + i \in 1..(b - a) /\ a + (n + i) = (a + n) + i
  BY <1>1
<1>5. ASSUME NEW i \in 1..(Len(d) - n)
      PROVE  SubSeq(d, n + 1, Len(d))[i] = s[(a + n) + i]
  <2>1. d[n + i] = s[a + (n + i)]
    BY <1>1, <1>4, Zenon
  <2> QED
    BY <2>1, <1>3, <1>4
<1>6. Part(SubSeq(d, 1, n), s, a, a + n)
  <2> DEFINE f == SubSeq(d, 1, n)
             m == a + n
  <2>1. m \in Nat /\ a <= m /\ m <= Len(s) /\ m - a = n
    BY <1>1
  <2>2. \A i \in 1..n : i \in 1..(b - a)
    BY <1>1
  <2>3. \A i \in 1..n : f[i] = s[a + i]
    BY <1>1, <1>2, <2>2
  <2>4. f \in Seq(Nat) /\ Len(f) = n
    BY <1>2
  <2> HIDE DEF f, m
  <2>5. Part(f, s, a, m)
    BY <1>1, <2>1, <2>3, <2>4 DEF Part
  <2> QED
    BY <2>5 DEF f, m
<1>7. b - (a + n) = Len(d) - n /\ a + n \in Nat /\ a + n <= b
  BY <1>1
<1> HIDE DEF Part
<1> DEFINE t == SubSeq(d, n + 1, Len(d))
           m == a + n
<1>8. Part(t, s, m, b)
  <2>1. t \in Seq(Nat) /\ Len(t) = b - m /\ \A i \in 1..(b - m) : t[i] = s[m + i]
    BY <1>3, <1>5, <1>7
  <2>2. m \in Nat /\ m <= b
    BY <1>7
  <2> HIDE DEF t, m
  <2> QED
    BY <1>1, <2>1, <2>2 DEF Part
<1> QED
  BY <1>6, <1>8

-----------------------------------------------------------------------------
(* Units that carry a stretch. *)

(* Units stay where they are when the sequence grows. *)
LEMMA CutExtend ==
  ASSUME NEW us \in Seq(Units), NEW s \in Seq(Nat), NEW ends, Cut(us, s, ends), NEW x \in Seq(Nat)
  PROVE  Cut(us, s \o x, ends)
<1>1. Len(s \o x) = Len(s) + Len(x) /\ Len(s) \in Nat /\ Len(x) \in Nat
  BY ConcatProperties
<1>2. ends \in [0..Len(us) -> 0..Len(s)]
  BY DEF Cut
<1>3. ends \in [0..Len(us) -> 0..Len(s \o x)]
  BY <1>1, <1>2
<1>4. \A i \in 1..Len(us) : Part(us[i].data, s \o x, ends[i - 1], ends[i])
  BY PartExtend DEF Cut
<1> QED
  BY <1>3, <1>4 DEF Cut

\* Where the units end when a sealed chunk that ends at b has been put behind them.
EndsAnd(ends, n, b) ==
  [i \in 0..(n + 2) |-> IF i <= n THEN ends[i] ELSE IF i = n + 1 THEN ends[n] ELSE b]

(* A sealed chunk carries the next stretch. *)
LEMMA CutAppend ==
  ASSUME NEW us \in Seq(Units), NEW s, NEW ends, Cut(us, s, ends),
         NEW nonce \in Nat, NEW d, NEW b, Part(d, s, ends[Len(us)], b)
  PROVE  Cut(us \o Sealed(nonce, d), s, EndsAnd(ends, Len(us), b))
<1> DEFINE n == Len(us)
           t == us \o Sealed(nonce, d)
           more == EndsAnd(ends, n, b)
<1>1. n \in Nat /\ d \in Seq(Nat) /\ s \in Seq(Nat) /\ b \in 0..Len(s) /\ Len(s) \in Nat
  BY PartBounds
<1>2. ends \in [0..n -> 0..Len(s)] /\ \A i \in 1..n : Part(us[i].data, s, ends[i - 1], ends[i])
  BY DEF Cut
<1>3. /\ t \in Seq(Units) /\ Len(t) = n + 2
      /\ \A i \in 1..n : t[i] = us[i]
      /\ t[n + 1] = Sealed(nonce, d)[1] /\ t[n + 2] = Sealed(nonce, d)[2]
  BY <1>1, SealedUnits, AppendTwo
<1>4. Sealed(nonce, d)[1].data = <<>> /\ Sealed(nonce, d)[2].data = d
  BY DEF Sealed
<1>5. ends[n] \in 0..Len(s)
  BY <1>1, <1>2
<1>6. /\ more \in [0..(n + 2) -> 0..Len(s)]
      /\ \A i \in 0..n : more[i] = ends[i]
      /\ more[n + 1] = ends[n] /\ more[n + 2] = b
  BY <1>1, <1>2, <1>5 DEF EndsAnd
<1>7. Part(<<>>, s, ends[n], ends[n])
  BY <1>1, <1>5, PartEmpty
<1> HIDE DEF more, t
<1>8. ASSUME NEW i \in 1..(n + 2) PROVE Part(t[i].data, s, more[i - 1], more[i])
  <2>1. CASE i \in 1..n
    <3>1. i - 1 \in 0..n /\ i \in 0..n
      BY <2>1, <1>1
    <3> QED
      BY <2>1, <3>1, <1>2, <1>3, <1>6
  <2>2. CASE i = n + 1
    <3>1. i - 1 = n /\ n \in 0..n
      BY <2>2, <1>1
    <3>2. t[i].data = <<>> /\ more[i] = ends[n] /\ more[n] = ends[n]
      BY <2>2, <3>1, <1>3, <1>4, <1>6
    <3> QED
      BY <3>1, <3>2, <1>7
  <2>3. CASE i = n + 2
    <3>1. i - 1 = n + 1
      BY <2>3, <1>1
    <3>2. t[i].data = d /\ more[i] = b /\ more[n + 1] = ends[n]
      BY <2>3, <1>3, <1>4, <1>6
    <3> QED
      BY <3>1, <3>2
  <2>4. i \in 1..n \/ i = n + 1 \/ i = n + 2
    BY <1>1
  <2> QED
    BY <2>1, <2>2, <2>3, <2>4, Zenon
<1> QED
  BY <1>3, <1>6, <1>8 DEF Cut, t, more

(* The oldest unit is taken away. *)
LEMMA CutTail ==
  ASSUME NEW us \in Seq(Units), us # <<>>, NEW s, NEW ends, Cut(us, s, ends)
  PROVE  /\ Cut(Tail(us), s, [i \in 0..(Len(us) - 1) |-> ends[i + 1]])
         /\ Part(Head(us).data, s, ends[0], ends[1])
<1> DEFINE n == Len(us) - 1
           t == Tail(us)
           rest == [i \in 0..n |-> ends[i + 1]]
<1>1. /\ n \in Nat /\ Len(us) = n + 1 /\ t \in Seq(Units) /\ Len(t) = n
      /\ \A i \in 1..n : t[i] = us[i + 1]
      /\ Head(us) = us[1]
  OBVIOUS
<1>2. ends \in [0..(n + 1) -> 0..Len(s)]
      /\ \A i \in 1..(n + 1) : Part(us[i].data, s, ends[i - 1], ends[i])
  BY <1>1 DEF Cut
<1>3. rest \in [0..n -> 0..Len(s)] /\ \A i \in 0..n : rest[i] = ends[i + 1]
  BY <1>1, <1>2
<1>4. Part(Head(us).data, s, ends[0], ends[1])
  <2>1. 1 \in 1..(n + 1) /\ 1 - 1 = 0
    BY <1>1
  <2>2. Part(us[1].data, s, ends[1 - 1], ends[1])
    BY <2>1, <1>2
  <2> QED
    BY <2>1, <2>2, <1>1
<1> HIDE DEF rest, t
<1>5. ASSUME NEW i \in 1..n PROVE Part(t[i].data, s, rest[i - 1], rest[i])
  <2>1. i + 1 \in 1..(n + 1) /\ (i + 1) - 1 = i /\ (i - 1) + 1 = i /\ i \in 0..n /\ i - 1 \in 0..n
    BY <1>1
  <2>2. Part(us[i + 1].data, s, ends[(i + 1) - 1], ends[i + 1])
    BY <2>1, <1>2
  <2>3. rest[i - 1] = ends[(i - 1) + 1] /\ rest[i] = ends[i + 1] /\ t[i] = us[i + 1]
    BY <2>1, <1>1, <1>3
  <2> QED
    BY <2>1, <2>2, <2>3
<1> QED
  BY <1>1, <1>3, <1>4, <1>5 DEF Cut, rest, t

-----------------------------------------------------------------------------
(* From the client to the server. *)

Line == Encode(Target) \o accepted

LEMMA LineTypes ==
  ASSUME NonceInv
  PROVE  Line \in Seq(Nat) /\ Encode(Target) \in Seq(Nat) /\ accepted \in Seq(Nat)
<1>1. Encode(Target) \in Seq(Nat) /\ accepted \in Seq(Nat)
  BY StreamAssumption, DecodeFindsWhatWasEncoded DEF NonceInv
<1> QED
  BY <1>1, ConcatProperties DEF Line

(* The existential quantifier of ServerInv is bounded by what follows it. *)
LEMMA EndsTyped ==
  ASSUME NEW s, NEW r, NEW us, NEW rest, NEW whole, NEW ends, ServerLine(s, r, us, rest, whole, ends)
  PROVE  ends \in [0..Len(us) -> 0..Len(s)]
BY DEF ServerLine, Cut

LEMMA ServerInvIs ==
  ServerInv <=> \E ends : ServerLine(Line, srvRead, toServer, unsent, open, ends)
BY EndsTyped, Zenon DEF ServerInv, Line

LEMMA InitServerInv == Init => ServerInv
<1> SUFFICES ASSUME Init PROVE ServerInv
  OBVIOUS
<1> DEFINE e == Encode(Target)
           ends == [i \in 0..2 |-> IF i = 2 THEN Len(e) ELSE 0]
<1>1. e \in Seq(Nat) /\ Len(e) \in Nat
  BY StreamAssumption, DecodeFindsWhatWasEncoded
<1>2. accepted = <<>> /\ toServer = Sealed(0, e) /\ srvRead = <<>> /\ unsent = <<>>
  BY DEF Init
<1> HIDE DEF e
<1>3. Line = e
  BY <1>1, <1>2, ConcatEmptySeq DEF Line, e
<1>4. Sealed(0, e)[1].data = <<>> /\ Sealed(0, e)[2].data = e /\ Len(Sealed(0, e)) = 2
  BY DEF Sealed
<1>5. Part(<<>>, e, 0, 0) /\ Part(<<>>, e, Len(e), Len(e)) /\ Part(e, e, 0, Len(e))
  BY <1>1 DEF Part
<1>6. ends \in [0..2 -> 0..Len(e)] /\ ends[0] = 0 /\ ends[1] = 0 /\ ends[2] = Len(e)
  BY <1>1
<1> HIDE DEF ends
<1>7. \A i \in 1..2 : Part(Sealed(0, e)[i].data, e, ends[i - 1], ends[i])
  <2> SUFFICES ASSUME NEW i \in 1..2 PROVE Part(Sealed(0, e)[i].data, e, ends[i - 1], ends[i])
    OBVIOUS
  <2>1. (i = 1 /\ i - 1 = 0) \/ (i = 2 /\ i - 1 = 1)
    OBVIOUS
  <2> QED
    BY <2>1, <1>4, <1>5, <1>6, Zenon
<1>8. Cut(Sealed(0, e), e, ends)
  BY <1>4, <1>6, <1>7, Zenon DEF Cut
<1>9. ServerLine(e, <<>>, Sealed(0, e), <<>>, open, ends)
  BY <1>4, <1>5, <1>6, <1>8, Zenon DEF ServerLine
<1> QED
  BY <1>2, <1>3, <1>9, ServerInvIs, Zenon

(* More is written: the line grows at its end. *)
LEMMA WriteKeepsLine ==
  ASSUME NonceInv, ServerInv, NEW d \in Seq(Nat), Write(d)
  PROVE  ServerInv'
<1>1. /\ unsent = <<>> /\ unsent' = d /\ accepted' = accepted \o d
      /\ srvRead' = srvRead /\ toServer' = toServer /\ open' = open
  BY DEF Write, nvars
<1>2. PICK ends : ServerLine(Line, srvRead, toServer, unsent, open, ends)
  BY ServerInvIs
<1>3. Line \in Seq(Nat) /\ Encode(Target) \o accepted' = Line \o d /\ toServer \in Seq(Units)
  <2>1. Line \in Seq(Nat) /\ Encode(Target) \in Seq(Nat) /\ accepted \in Seq(Nat) /\ toServer \in Seq(Units)
    BY LineTypes, NonceFacts
  <2>2. Encode(Target) \o (accepted \o d) = (Encode(Target) \o accepted) \o d
    BY <2>1, ConcatGroups, Zenon
  <2> QED
    BY <2>1, <2>2, <1>1, Zenon DEF Line
<1> DEFINE s == Line
           t == Line \o d
<1> HIDE DEF s, t
<1>4. Cut(toServer, t, ends) /\ Part(srvRead, t, 0, ends[0])
  BY <1>2, <1>3, CutExtend, PartExtend DEF ServerLine, s, t
<1>5. open => Part(d, t, ends[Len(toServer)], Len(t))
  <2> SUFFICES ASSUME open PROVE Part(d, t, ends[Len(toServer)], Len(t))
    OBVIOUS
  <2>1. Part(unsent, s, ends[Len(toServer)], Len(s))
    BY <1>2 DEF ServerLine, s
  <2>2. ends[Len(toServer)] = Len(s)
    BY <2>1, <1>1, PartBounds
  <2>3. Part(d, t, Len(s), Len(t))
    BY <1>3, PartBehindIt DEF s, t
  <2> QED
    BY <2>2, <2>3
<1>6. ServerLine(t, srvRead, toServer, d, open, ends)
  BY <1>4, <1>5, Zenon DEF ServerLine
<1>7. ServerLine(Encode(Target) \o accepted', srvRead', toServer', unsent', open', ends)
  BY <1>1, <1>3, <1>6, Zenon DEF t
<1> QED
  BY <1>7, EndsTyped, Zenon DEF ServerInv

(* A chunk of a write is a beginning of it, and is not empty. *)
LEMMA ChunkFacts ==
  ASSUME unsent \in Seq(Nat), unsent # <<>>
  PROVE  \E m \in Nat : /\ 0 < m /\ m <= Len(unsent) /\ m <= MaxChunk
                        /\ ChunkOf = SubSeq(unsent, 1, m)
                        /\ Len(ChunkOf) = m /\ ChunkOf # <<>>
<1>1. Len(unsent) \in Nat /\ Len(unsent) > 0 /\ MaxChunk \in Nat /\ MaxChunk > 0
  BY StreamAssumption
<1>2. PICK m \in Nat : m = IF Len(unsent) < MaxChunk THEN Len(unsent) ELSE MaxChunk
  BY <1>1
<1>3. 0 < m /\ m <= Len(unsent) /\ m <= MaxChunk
  BY <1>1, <1>2
<1>4. ChunkOf = SubSeq(unsent, 1, m)
  BY <1>2 DEF ChunkOf
<1>5. Len(SubSeq(unsent, 1, m)) = m
  BY <1>3
<1>6. SubSeq(unsent, 1, m) # <<>>
  BY <1>3, <1>5
<1> QED
  BY <1>3, <1>4, <1>5, <1>6

(* The next stretch of the line is sealed behind the units under way. *)
LEMMA WriteChunkKeepsLine ==
  ASSUME NonceInv, ServerInv, WriteChunk
  PROVE  ServerInv'
<1>1. /\ unsent # <<>> /\ open /\ open' = open
      /\ toServer' = toServer \o Sealed(encNonce, ChunkOf)
      /\ accepted' = accepted /\ srvRead' = srvRead
  BY DEF WriteChunk, nvars
<1>2. unsent \in Seq(Nat) /\ encNonce \in Nat /\ toServer \in Seq(Units) /\ Len(toServer) \in Nat
  BY NonceFacts
<1>3. PICK ends : ServerLine(Line, srvRead, toServer, unsent, open, ends)
  BY ServerInvIs
<1>4. PICK m \in Nat : /\ 0 < m /\ m <= Len(unsent)
                       /\ ChunkOf = SubSeq(unsent, 1, m)
                       /\ Len(ChunkOf) = m /\ ChunkOf # <<>>
  BY <1>1, <1>2, ChunkFacts
<1>5. unsent' = SubSeq(unsent, m + 1, Len(unsent))
  BY <1>4 DEF WriteChunk
<1> DEFINE s == Line
           n == Len(toServer)
           a == ends[n]
           b == a + m
           more == EndsAnd(ends, n, b)
<1>6. Cut(toServer, s, ends) /\ Part(srvRead, s, 0, ends[0]) /\ Part(unsent, s, a, Len(s))
  BY <1>1, <1>3 DEF ServerLine
<1>7. Part(ChunkOf, s, a, b) /\ Part(unsent', s, b, Len(s))
  <2> HIDE DEF s, a
  <2> QED
    BY <1>4, <1>5, <1>6, PartCut
<1>8. Cut(toServer', s, more)
  <2> HIDE DEF s, b
  <2> QED
    BY <1>1, <1>2, <1>6, <1>7, CutAppend
<1>9. more[0] = ends[0] /\ more[n + 2] = b
  <2> HIDE DEF a, b
  <2> QED
    BY <1>2 DEF EndsAnd
<1>10. Len(toServer') = n + 2
  <2>1. ChunkOf \in Seq(Nat)
    BY <1>2, ChunkTypes
  <2> QED
    BY <2>1, <1>1, <1>2, SealedUnits, AppendTwo
<1> HIDE DEF more, b, n, s
<1>11. ServerLine(s, srvRead, toServer', unsent', open, more)
  BY <1>6, <1>7, <1>8, <1>9, <1>10, Zenon DEF ServerLine
<1>12. ServerLine(Encode(Target) \o accepted', srvRead', toServer', unsent', open', more)
  BY <1>1, <1>11, Zenon DEF s, Line
<1> QED
  BY <1>12, EndsTyped, Zenon DEF ServerInv

(* What the server opens continues what it has read. *)
LEMMA ServerReadsKeepsLine ==
  ASSUME NonceInv, ServerInv, ServerReads
  PROVE  ServerInv'
<1>1. /\ toServer # <<>> /\ toServer' = Tail(toServer)
      /\ srvRead' = srvRead \o Head(toServer).data
      /\ unsent' = unsent /\ open' = open /\ accepted' = accepted
  BY DEF ServerReads, nvars
<1>2. toServer \in Seq(Units) /\ Len(toServer) \in Nat
  BY NonceFacts
<1>3. PICK ends : ServerLine(Line, srvRead, toServer, unsent, open, ends)
  BY ServerInvIs
<1> DEFINE s == Line
           n == Len(toServer)
           rest == [i \in 0..(n - 1) |-> ends[i + 1]]
<1>4. /\ Cut(toServer, s, ends) /\ Part(srvRead, s, 0, ends[0])
      /\ open => Part(unsent, s, ends[n], Len(s))
  BY <1>3 DEF ServerLine
<1>5. Cut(toServer', s, rest) /\ Part(Head(toServer).data, s, ends[0], ends[1])
  <2> HIDE DEF s
  <2> QED
    BY <1>1, <1>2, <1>4, CutTail
<1>6. Part(srvRead', s, 0, ends[1])
  <2> HIDE DEF s
  <2> QED
    BY <1>1, <1>4, <1>5, PartJoin
<1>7. n > 0 /\ Len(toServer') = n - 1 /\ n \in Nat
  BY <1>1, <1>2
<1>8. rest[0] = ends[1] /\ rest[n - 1] = ends[n]
  BY <1>7
<1> HIDE DEF rest, n, s
<1>9. ServerLine(s, srvRead', toServer', unsent, open, rest)
  BY <1>4, <1>5, <1>6, <1>7, <1>8, Zenon DEF ServerLine
<1>10. ServerLine(Encode(Target) \o accepted', srvRead', toServer', unsent', open', rest)
  BY <1>1, <1>9, Zenon DEF s, Line
<1> QED
  BY <1>10, EndsTyped, Zenon DEF ServerInv

LEMMA NextServerInv == NonceInv /\ ServerInv /\ [Next]_vars => ServerInv'
<1> SUFFICES ASSUME NonceInv, ServerInv, [Next]_vars PROVE ServerInv'
  OBVIOUS
<1>1. ASSUME NEW n \in 1..MaxBytes, Write([i \in 1..n |-> Len(accepted) + i])
      PROVE  ServerInv'
  <2>1. n \in Nat /\ Len(accepted) \in Nat
    BY DEF NonceInv
  <2>2. [i \in 1..n |-> Len(accepted) + i] \in Seq(Nat)
    BY <2>1
  <2> QED
    BY <1>1, <2>2, WriteKeepsLine
<1>2. CASE WriteChunk
  BY <1>2, WriteChunkKeepsLine
<1>3. CASE ServerReads
  BY <1>3, ServerReadsKeepsLine
<1>4. CASE /\ UNCHANGED <<accepted, srvRead, toServer>>
           /\ open' => open /\ unsent' = unsent
  <2>1. PICK ends : ServerLine(Line, srvRead, toServer, unsent, open, ends)
    BY ServerInvIs
  <2>2. ServerLine(Encode(Target) \o accepted', srvRead', toServer', unsent', open', ends)
    BY <2>1, <1>4, Zenon DEF ServerLine, Line
  <2> QED
    BY <2>2, EndsTyped, Zenon DEF ServerInv
<1>5. CASE WriteFails
  BY <1>5, <1>4 DEF WriteFails, nvars
<1>6. CASE \/ \E n \in 1..MaxChunk : ServerSends([i \in 1..n |-> Len(srvSent) + i])
           \/ Deliver \/ Close
  BY <1>6, <1>4 DEF ServerSends, Deliver, Close, wvars
<1>7. CASE \/ \E n \in BufSizes : ReadBuffered(n) \/ Read(n)
           \/ Take \/ GotSalt \/ GotLength \/ GotPayload \/ EndOfStream
           \/ CancelRead \/ PollRead \/ PollWrite
  BY <1>7, <1>4 DEF ReadBuffered, Read, Take, GotSalt, GotLength, GotPayload, EndOfStream,
    CancelRead, PollRead, PollWrite, wvars, nvars
<1>8. CASE UNCHANGED vars
  BY <1>8, <1>4 DEF vars, wvars, nvars
<1> QED
  BY <1>1, <1>2, <1>3, <1>5, <1>6, <1>7, <1>8 DEF Next

\* The bytes behind the target.
Got(r) == SubSeq(r, Decode(r).used + 1, Len(r))
Behind(r) == IF r = <<>> THEN 0 ELSE Len(r) - Len(Encode(Target))

(* What begins with the target and is in front of the line goes on with the   *)
(* first of the bytes that were written.                                      *)
LEMMA GotIsPrefix ==
  ASSUME NEW x \in Seq(Nat), NEW r \in Seq(Nat), NEW n,
         r # <<>> => Begins(r, Encode(Target)),
         Part(r, Encode(Target) \o x, 0, n)
  PROVE  Behind(r) \in 0..Len(x) /\ Got(r) = SubSeq(x, 1, Behind(r))
<1>1. Len(x) \in Nat
  OBVIOUS
<1>2. CASE r = <<>>
  <2>1. Decode(r).used = 0
    BY <1>2 DEF Decode, Invalid
  <2>2. Got(r) = <<>>
    BY <1>2, <2>1 DEF Got
  <2>3. SubSeq(x, 1, 0) = <<>>
    BY <1>1
  <2>4. Behind(r) = 0 /\ 0 \in 0..Len(x)
    BY <1>1, <1>2 DEF Behind
  <2> QED
    BY <2>2, <2>3, <2>4, Zenon
<1>3. CASE r # <<>>
  <2> DEFINE e == Encode(Target)
             k == Len(e)
             m == Len(r) - k
  <2>1. e \in Seq(Nat) /\ k \in Nat /\ k > 0
    BY StreamAssumption, DecodeFindsWhatWasEncoded
  <2>2. Begins(r, e)
    BY <1>3
  <2>3. Decode(r).used = k
    <3>1. Decode(r) = [address |-> Target, used |-> k]
      BY <2>2, StreamAssumption, DecodeFindsWhatWasEncoded
    <3> QED
      BY <3>1
  <2>4. m \in Nat /\ Len(r) = k + m /\ k <= Len(r)
    BY <1>1, <2>1, <2>2 DEF Begins
  <2> HIDE DEF e
  <2>6. Part(r, e \o x, 0, n)
    BY DEF e
  <2>7. n = k + m
    BY <2>4, <2>6, PartBounds
  <2>8. Part(SubSeq(r, k + 1, Len(r)), e \o x, 0 + k, n)
    BY <2>1, <2>4, <2>6, PartCut
  <2>9. Part(SubSeq(r, k + 1, Len(r)), e \o x, k, k + m)
    <3>1. 0 + k = k
      BY <2>1
    <3> QED
      BY <2>7, <2>8, <3>1
  <2> HIDE DEF m
  <2>10. m <= Len(x) /\ SubSeq(r, k + 1, Len(r)) = SubSeq(x, 1, m)
    <3>1. Part(SubSeq(r, k + 1, Len(r)), e \o x, Len(e), Len(e) + m)
      BY <2>9
    <3>2. PICK d : d = SubSeq(r, k + 1, Len(r))
      OBVIOUS
    <3>3. Part(d, e \o x, Len(e), Len(e) + m)
      BY <3>1, <3>2
    <3>4. m <= Len(x) /\ d = SubSeq(x, 1, m)
      <4>1. \A s, y \in Seq(Nat) : \A p \in Nat :
              Part(d, s \o y, Len(s), Len(s) + p) => p <= Len(y) /\ d = SubSeq(y, 1, p)
        BY PartOfRest
      <4>2. e \in Seq(Nat) /\ m \in Nat
        BY <2>1, <2>4
      <4> QED
        BY <3>3, <4>1, <4>2, Zenon
    <3> QED
      BY <3>2, <3>4
  <2>11. Got(r) = SubSeq(r, k + 1, Len(r))
    BY <2>3 DEF Got
  <2>12. Behind(r) = m
    BY <1>3 DEF Behind, e, m
  <2> QED
    BY <1>1, <2>4, <2>10, <2>11, <2>12
<1> QED
  BY <1>2, <1>3

(* The server has the first of the bytes, before and after a step. *)
LEMMA ServerHas ==
  ASSUME NonceInv, TargetInv, ServerInv
  PROVE  /\ accepted \in Seq(Nat) /\ srvRead \in Seq(Nat)
         /\ Behind(srvRead) \in 0..Len(accepted) /\ Got(srvRead) = SubSeq(accepted, 1, Behind(srvRead))
<1>1. accepted \in Seq(Nat) /\ srvRead \in Seq(Nat)
  BY DEF NonceInv, TargetInv
<1>2. srvRead # <<>> => Begins(srvRead, Encode(Target))
  BY Zenon DEF TargetInv, Begins
<1>3. \E n : Part(srvRead, Encode(Target) \o accepted, 0, n)
  BY Zenon DEF ServerInv, ServerLine
<1> QED
  BY <1>1, <1>2, <1>3, GotIsPrefix

LEMMA ServerHasNext ==
  ASSUME NonceInv', TargetInv', ServerInv'
  PROVE  /\ accepted' \in Seq(Nat) /\ srvRead' \in Seq(Nat)
         /\ Behind(srvRead') \in 0..Len(accepted') /\ Got(srvRead') = SubSeq(accepted', 1, Behind(srvRead'))
<1>1. accepted' \in Seq(Nat) /\ srvRead' \in Seq(Nat)
  BY DEF NonceInv, TargetInv
<1>2. srvRead' # <<>> => Begins(srvRead', Encode(Target))
  BY Zenon DEF TargetInv, Begins
<1>3. \E n : Part(srvRead', Encode(Target) \o accepted', 0, n)
  BY Zenon DEF ServerInv, ServerLine
<1> QED
  BY <1>1, <1>2, <1>3, GotIsPrefix

(* What a sequence grows by makes it a strict prefix. *)
LEMMA AppendIsPrefix ==
  ASSUME NEW s \in Seq(Nat), NEW d \in Seq(Nat), d # <<>>
  PROVE  IsStrictPrefix(s, s \o d)
<1>1. Len(d) \in Nat /\ Len(d) > 0 /\ Len(s) \in Nat
  OBVIOUS
<1>2. s \o d \in Seq(Nat) /\ Len(s \o d) = Len(s) + Len(d)
  BY ConcatProperties
<1>3. SubSeq(s \o d, 1, Len(s)) = s
  <2>1. Part(s, s, 0, Len(s))
    BY <1>1 DEF Part
  <2>2. Part(s, s \o d, 0, Len(s))
    BY <2>1, PartExtend
  <2> QED
    BY <2>2, PartFront
<1>4. SubSeq(s, 1, Len(s)) = s
  <2>1. Part(s, s, 0, Len(s))
    BY <1>1 DEF Part
  <2> QED
    BY <2>1, PartFront
<1>5. s # s \o d /\ Len(s) <= Len(s \o d)
  BY <1>1, <1>2
<1> QED
  BY <1>3, <1>4, <1>5 DEF IsStrictPrefix, IsPrefix

(* The bytes that a write or the server adds. *)
LEMMA NewBytes ==
  ASSUME NEW k \in Nat, NEW n \in Nat, n > 0
  PROVE  /\ [i \in 1..n |-> k + i] \in Seq(Nat) /\ Len([i \in 1..n |-> k + i]) = n
         /\ [i \in 1..n |-> k + i] # <<>>
<1>1. [i \in 1..n |-> k + i] \in Seq(Nat) /\ Len([i \in 1..n |-> k + i]) = n
  OBVIOUS
<1> QED
  BY <1>1

(* Every step is one of ByteStream's, or changes nothing that it sees. *)
LEMMA ServerLineStep ==
  ASSUME NonceInv, TargetInv, ServerInv, NonceInv', TargetInv', ServerInv', [Next]_vars
  PROVE  [ToServer!Next]_<<accepted, Got(srvRead)>>
<1>1. ASSUME NEW n \in 1..MaxBytes, Write([i \in 1..n |-> Len(accepted) + i])
      PROVE  ToServer!Send
  <2> DEFINE d == [i \in 1..n |-> Len(accepted) + i]
  <2>1. accepted \in Seq(Nat) /\ Len(accepted) \in Nat /\ n \in Nat /\ n > 0
    BY DEF NonceInv
  <2>2. d \in Seq(Nat) /\ d # <<>>
    BY <2>1, NewBytes
  <2> HIDE DEF d
  <2>3. accepted' = accepted \o d /\ srvRead' = srvRead
    BY <1>1 DEF Write, d
  <2>4. IsStrictPrefix(accepted, accepted')
    BY <2>1, <2>2, <2>3, AppendIsPrefix
  <2> QED
    BY <2>3, <2>4, Zenon DEF ToServer!Send, ToServer!IsStrictPrefix, ToServer!IsPrefix,
      IsStrictPrefix, IsPrefix, Got
<1>2. CASE ServerReads
  <2> DEFINE m == Behind(srvRead)
             k == Behind(srvRead')
  <2>1. accepted' = accepted /\ srvRead' = srvRead \o Head(toServer).data /\ toServer # <<>>
    BY <1>2 DEF ServerReads
  <2>2. /\ m \in 0..Len(accepted) /\ Got(srvRead) = SubSeq(accepted, 1, m)
        /\ accepted \in Seq(Nat) /\ srvRead \in Seq(Nat)
    BY ServerHas
  <2>3. k \in 0..Len(accepted) /\ Got(srvRead') = SubSeq(accepted, 1, k) /\ srvRead' \in Seq(Nat)
    BY ServerHasNext, <2>1
  <2>4. Len(srvRead') >= Len(srvRead)
    <3>1. toServer \in Seq(Units)
      BY NonceFacts
    <3>2. Head(toServer) \in Units
      BY <2>1, <3>1
    <3>3. Head(toServer).data \in Seq(Nat)
      BY <3>2 DEF Units
    <3> QED
      BY <2>1, <2>2, <3>3, ConcatProperties
  <2>5. m <= k
    <3>1. Len(Encode(Target)) \in Nat
      BY StreamAssumption, DecodeFindsWhatWasEncoded
    <3>2. CASE srvRead = <<>>
      <4>1. m = 0
        BY <3>2 DEF Behind
      <4> HIDE DEF m, k
      <4> QED
        BY <4>1, <2>3
    <3>3. CASE srvRead # <<>>
      <4>1. srvRead' # <<>>
        BY <3>3, <2>2, <2>3, <2>4
      <4> QED
        BY <3>1, <3>3, <4>1, <2>2, <2>3, <2>4 DEF Behind
    <3> QED
      BY <3>2, <3>3
  <2> HIDE DEF m, k
  <2>6. Len(Got(srvRead)) = m /\ m \in Nat /\ k \in Nat
    BY <2>2, <2>3
  <2>7. CASE m = k
    BY <2>1, <2>2, <2>3, <2>7, Zenon
  <2>8. CASE m # k
    <3>1. k \in (Len(Got(srvRead)) + 1)..Len(accepted)
      BY <2>3, <2>5, <2>6, <2>8
    <3>2. ToServer!Receive
      BY <2>1, <2>3, <3>1, Zenon DEF ToServer!Receive, Got
    <3> QED
      BY <3>2 DEF ToServer!Next
  <2> QED
    BY <2>7, <2>8
<1>4. CASE UNCHANGED <<accepted, srvRead>>
  BY <1>4, Zenon DEF Got
<1>5. CASE WriteChunk \/ WriteFails
  BY <1>5, <1>4 DEF WriteChunk, WriteFails
<1>6. CASE \/ \E n \in 1..MaxChunk : ServerSends([i \in 1..n |-> Len(srvSent) + i])
           \/ Deliver \/ Close
  BY <1>6, <1>4 DEF ServerSends, Deliver, Close, wvars
<1>7. CASE \/ \E n \in BufSizes : ReadBuffered(n) \/ Read(n)
           \/ Take \/ GotSalt \/ GotLength \/ GotPayload \/ EndOfStream
           \/ CancelRead \/ PollRead \/ PollWrite
  BY <1>7, <1>4 DEF ReadBuffered, Read, Take, GotSalt, GotLength, GotPayload, EndOfStream,
    CancelRead, PollRead, PollWrite, wvars
<1>8. CASE UNCHANGED vars
  BY <1>8, <1>4 DEF vars, wvars
<1> QED
  BY <1>1, <1>2, <1>5, <1>6, <1>7, <1>8, Zenon DEF Next, ToServer!Next

(* mod.rs, write_all, and the server behind it: what it finds behind the      *)
(* target are the bytes that were written, in order and without a gap.        *)
THEOREM WritesArriveInOrder == Spec => ServerReadsInOrder
<1>1. Init => ToServer!Init
  <2> SUFFICES ASSUME Init PROVE ToServer!Init
    OBVIOUS
  <2>1. accepted = <<>> /\ srvRead = <<>>
    BY DEF Init
  <2>2. Decode(srvRead).used = 0
    BY <2>1 DEF Decode, Invalid
  <2>3. SubSeq(srvRead, Decode(srvRead).used + 1, Len(srvRead)) = <<>>
    BY <2>1, <2>2
  <2> QED
    BY <2>1, <2>3 DEF ToServer!Init
<1>2. NonceInv /\ TargetInv /\ ServerInv /\ NonceInv' /\ TargetInv' /\ ServerInv' /\ [Next]_vars
      => [ToServer!Next]_<<accepted, SubSeq(srvRead, Decode(srvRead).used + 1, Len(srvRead))>>
  BY ServerLineStep DEF Got
<1> QED
  BY <1>1, <1>2, InitNonceInv, NextNonceInv, InitTargetInv, NextTargetInv,
    InitServerInv, NextServerInv, PTL DEF Spec, ServerReadsInOrder, ToServer!Spec

-----------------------------------------------------------------------------
(* From the server to the client. *)

(* The invariant in its parts, and put together from them. *)
LEMMA ClientParts ==
  ASSUME ClientInv
  PROVE  /\ ReaderTypes
         /\ \E ends, w, r : /\ w \in 0..Len(units) /\ SentLine(srvSent, units, ends)
                           /\ ReaderInv(w) /\ HandedOut(r, w, ends)
BY Zenon DEF ClientInv

LEMMA ClientInvFrom ==
  ASSUME ReaderTypes, NEW ends, SentLine(srvSent, units, ends),
         NEW w \in 0..Len(units), ReaderInv(w), NEW r, HandedOut(r, w, ends)
  PROVE  ClientInv
<1>1. ends \in [0..Len(units) -> 0..Len(srvSent)]
  BY DEF SentLine, Cut
<1>2. r \in 0..Len(srvSent)
  BY PartFront DEF HandedOut
<1> QED
  BY <1>1, <1>2, Zenon DEF ClientInv

LEMMA ClientInvNext ==
  ASSUME ReaderTypes', NEW ends, SentLine(srvSent', units', ends),
         NEW w \in 0..Len(units'), ReaderInv(w)', NEW r, HandedOut(r, w, ends)'
  PROVE  ClientInv'
<1>1. ends \in [0..Len(units') -> 0..Len(srvSent')]
  BY DEF SentLine, Cut
<1>2. r \in 0..Len(srvSent')
  BY PartFront DEF HandedOut
<1> QED
  BY <1>1, <1>2, Zenon DEF ClientInv

ReaderSet ==
  [pc : {"ready", "reading", "dropped"}, n : Nat,
   stage : {"none", "salt", "length", "payload"}, pieces : Seq(Nat \X Nat)]

(* The readers at rest. *)
LEMMA ReaderStates ==
  /\ Ready \in ReaderSet /\ Ready.pc = "ready" /\ Ready.pieces = <<>> /\ Ready.stage = "none"
  /\ Drop \in ReaderSet /\ Drop.pc = "dropped" /\ Drop.pieces = <<>>
<1>1. <<>> \in Seq(Nat \X Nat)
  OBVIOUS
<1>2. Ready \in ReaderSet /\ Ready.pc = "ready" /\ Ready.pieces = <<>> /\ Ready.stage = "none"
  BY <1>1 DEF Ready, ReaderSet
<1>3. Drop = [pc |-> "dropped", n |-> 0, stage |-> "none", pieces |-> <<>>]
  BY DEF Drop, Ready
<1>4. Drop \in ReaderSet /\ Drop.pc = "dropped" /\ Drop.pieces = <<>>
  BY <1>1, <1>3 DEF ReaderSet
<1> QED
  BY <1>2, <1>4

(* What the units from the server are. *)
LEMMA SentFacts ==
  ASSUME NEW s, NEW us, NEW ends, SentLine(s, us, ends)
  PROVE  /\ us \in Seq(Units) /\ Len(us) \in Nat /\ Len(us) % 2 = 1
         /\ Cut(us, s, ends) /\ ends[0] = 0 /\ ends[Len(us)] = Len(s)
         /\ \A i \in 1..Len(us) : Part(us[i].data, s, ends[i - 1], ends[i])
         /\ us[1].data = <<>>
         /\ \A i \in 2..Len(us) : us[i].nonce = i - 2 /\ (i % 2 = 0 => us[i].data = <<>>)
<1>1. us \in Seq(Units)
  BY Zenon DEF SentLine, Units
<1>2. Len(us) \in Nat
  BY <1>1
<1>3. /\ Len(us) % 2 = 1
      /\ Cut(us, s, ends) /\ ends[0] = 0 /\ ends[Len(us)] = Len(s)
      /\ us[1].data = <<>>
      /\ \A i \in 2..Len(us) : us[i].nonce = i - 2 /\ (i % 2 = 0 => us[i].data = <<>>)
  BY Zenon DEF SentLine
<1>4. \A i \in 1..Len(us) : Part(us[i].data, s, ends[i - 1], ends[i])
  BY <1>3, Zenon DEF Cut
<1> QED
  BY <1>1, <1>2, <1>3, <1>4, Zenon

LEMMA InitClientInv == Init => ClientInv
<1> SUFFICES ASSUME Init PROVE ClientInv
  OBVIOUS
<1>1. /\ srvSent = <<>> /\ units = << [nonce |-> 0, length |-> 0, data |-> <<>>] >>
      /\ arrived = 0 /\ taken = 0 /\ open = TRUE
      /\ reader = Ready /\ key = <<>> /\ decNonce = 0
      /\ readBuffer = <<>> /\ returned = <<>>
  BY DEF Init
<1> DEFINE ends == [i \in 0..1 |-> 0]
<1>2. units \in Seq([nonce : Nat, length : Nat, data : Seq(Nat)]) /\ Len(units) = 1 /\ units[1].data = <<>>
  BY <1>1
<1>3. ReaderTypes
  <2>1. reader \in [pc : {"ready", "reading", "dropped"}, n : Nat,
                    stage : {"none", "salt", "length", "payload"}, pieces : Seq(Nat \X Nat)]
    BY <1>1, ReaderStates, Zenon DEF ReaderSet
  <2>2. reader.pieces = <<>>
    BY <1>1, ReaderStates
  <2>3. Len(reader.pieces) <= Width
    BY <2>2 DEF Width
  <2>4. /\ decNonce \in Nat /\ taken \in Nat /\ arrived \in Nat /\ taken <= arrived
        /\ arrived <= Width * Len(units) /\ open \in BOOLEAN
    BY <1>1, <1>2 DEF Width
  <2> QED
    BY <2>1, <2>3, <2>4, Zenon DEF ReaderTypes
<1>4. Part(<<>>, <<>>, 0, 0) /\ ends[0] = 0 /\ ends[1] = 0 /\ ends \in [0..1 -> 0..0]
      /\ Len(<<>>) = 0
  BY DEF Part
<1> HIDE DEF ends
<1>5. SentLine(srvSent, units, ends)
  <2>1. \A i \in 1..1 : Part(units[i].data, srvSent, ends[i - 1], ends[i])
    <3>1. \A i \in 1..1 : i = 1 /\ i - 1 = 0
      OBVIOUS
    <3> QED
      BY <1>1, <1>2, <1>4, <3>1, Zenon
  <2>2. Cut(units, srvSent, ends)
    BY <1>1, <1>2, <1>4, <2>1, Zenon DEF Cut
  <2>3. Len(units) % 2 = 1 /\ \A i \in 2..Len(units) : FALSE
    BY <1>2
  <2> QED
    BY <1>1, <1>2, <1>4, <2>2, <2>3, Zenon DEF SentLine
<1>6. ReaderInv(0)
  <2>1. reader.pc = "ready" /\ reader.pieces = <<>>
    BY <1>1, ReaderStates
  <2>2. AtUnit(0)
    BY <1>1, <2>1 DEF AtUnit, Width
  <2>3. InStep(0)
    BY <1>1, <2>1 DEF InStep
  <2> QED
    BY <2>1, <2>2, <2>3 DEF ReaderInv
<1>7. HandedOut(0, 0, ends)
  BY <1>1, <1>4 DEF HandedOut
<1>8. 0 \in 0..Len(units)
  BY <1>2
<1> QED
  BY <1>3, <1>5, <1>6, <1>7, <1>8, ClientInvFrom, Zenon

(* The server's next chunk. *)
LEMMA SendsKeepsLine ==
  ASSUME NEW s, NEW us, NEW ends, SentLine(s, us, ends), NEW d \in Seq(Nat)
  PROVE  SentLine(s \o d, us \o Sealed(Len(us) - 1, d), EndsAnd(ends, Len(us), Len(s \o d)))
<1> DEFINE n == Len(us)
           t == us \o Sealed(n - 1, d)
           x == s \o d
           b == Len(x)
           more == EndsAnd(ends, n, b)
<1>1. /\ us \in Seq(Units) /\ n \in Nat /\ n % 2 = 1
      /\ Cut(us, s, ends) /\ ends[0] = 0 /\ ends[n] = Len(s)
      /\ us[1].data = <<>>
      /\ \A i \in 2..n : us[i].nonce = i - 2 /\ (i % 2 = 0 => us[i].data = <<>>)
  BY SentFacts
<1>2. s \in Seq(Nat)
  <2>1. Part(us[1].data, s, ends[1 - 1], ends[1])
    <3>1. 1 \in 1..n
      BY <1>1
    <3> QED
      BY <3>1, SentFacts
  <2> QED
    BY <2>1, PartBounds
<1>3. Cut(us, x, ends) /\ Part(d, x, ends[n], b)
  BY <1>1, <1>2, CutExtend, PartBehindIt
<1>4. n - 1 \in Nat /\ n > 0
  BY <1>1
<1>5. Cut(t, x, more)
  <2> DEFINE k == n - 1
  <2> HIDE DEF x, k
  <2>1. Cut(us \o Sealed(k, d), x, EndsAnd(ends, Len(us), b))
    BY <1>1, <1>3, <1>4, CutAppend DEF k
  <2> QED
    BY <2>1 DEF k
<1>6. /\ Sealed(n - 1, d) \in Seq(Units) /\ Len(Sealed(n - 1, d)) = 2
      /\ Sealed(n - 1, d)[1].nonce = n - 1 /\ Sealed(n - 1, d)[2].nonce = (n - 1) + 1
  BY <1>4, SealedUnits
<1>7. Sealed(n - 1, d)[1].data = <<>>
  BY DEF Sealed
<1>8. /\ t \in Seq(Units) /\ Len(t) = n + 2 /\ \A i \in 1..n : t[i] = us[i]
      /\ t[n + 1] = Sealed(n - 1, d)[1] /\ t[n + 2] = Sealed(n - 1, d)[2]
  BY <1>1, <1>6, AppendTwo
<1>9. more[0] = 0 /\ more[n + 2] = b
  BY <1>1 DEF EndsAnd
<1> HIDE DEF more, t, x
<1>10. t[1].data = <<>> /\ Len(t) % 2 = 1
  <2>1. 1 \in 1..n /\ (n + 2) % 2 = 1
    BY <1>1
  <2> QED
    BY <2>1, <1>1, <1>8
<1>11. ASSUME NEW i \in 2..(n + 2)
       PROVE  t[i].nonce = i - 2 /\ (i % 2 = 0 => t[i].data = <<>>)
  <2>1. CASE i \in 2..n
    <3>1. i \in 1..n
      BY <2>1, <1>1
    <3> QED
      BY <2>1, <3>1, <1>1, <1>8
  <2>2. CASE i = n + 1
    <3>1. n - 1 = i - 2
      BY <2>2, <1>1
    <3> QED
      BY <2>2, <3>1, <1>6, <1>7, <1>8, Zenon
  <2>3. CASE i = n + 2
    <3>1. (n - 1) + 1 = i - 2 /\ i % 2 # 0
      BY <2>3, <1>1
    <3> QED
      BY <2>3, <3>1, <1>6, <1>8, Zenon
  <2>4. i \in 2..n \/ i = n + 1 \/ i = n + 2
    BY <1>1
  <2> QED
    BY <2>1, <2>2, <2>3, <2>4, Zenon
<1>12. SentLine(x, t, more)
  <2>1. t \in Seq([nonce : Nat, length : Nat, data : Seq(Nat)])
    BY <1>8 DEF Units
  <2> QED
    BY <2>1, <1>5, <1>8, <1>9, <1>10, <1>11, Zenon DEF SentLine
<1> QED
  BY <1>12 DEF x, t, more

\* What the network does changes nothing of this.
LEMMA SendsKeeps ==
  ASSUME ClientInv, NEW d \in Seq(Nat), ServerSends(d)
  PROVE  ClientInv'
<1>1. /\ srvSent' = srvSent \o d /\ units' = units \o Sealed(Len(units) - 1, d)
      /\ open /\ open' = open /\ arrived' = arrived /\ taken' = taken /\ reader' = reader
      /\ key' = key /\ decNonce' = decNonce /\ readBuffer' = readBuffer /\ returned' = returned
  BY DEF ServerSends, rvars
<1>2. PICK ends, w, r : /\ w \in 0..Len(units) /\ SentLine(srvSent, units, ends)
                        /\ ReaderInv(w) /\ HandedOut(r, w, ends) /\ ReaderTypes
  BY ClientParts
<1> DEFINE n == Len(units)
<1>3. n \in Nat /\ units \in Seq(Units) /\ n % 2 = 1
  BY <1>2, SentFacts
<1>0. PICK more : more = EndsAnd(ends, n, Len(srvSent'))
  OBVIOUS
<1>4. SentLine(srvSent', units', more)
  BY <1>0, <1>1, <1>2, SendsKeepsLine
<1>5. Len(units') = n + 2
  <2>1. Sealed(n - 1, d) \in Seq(Units) /\ Len(Sealed(n - 1, d)) = 2
    <3>1. n - 1 \in Nat
      BY <1>3
    <3> QED
      BY <3>1, SealedUnits
  <2> QED
    BY <2>1, <1>1, <1>3, AppendTwo
<1>6. more[w] = ends[w]
  BY <1>0, <1>2, <1>3 DEF EndsAnd
<1>7. ReaderTypes'
  <2>1. arrived \in Nat /\ arrived <= Width * n
    BY <1>2 DEF ReaderTypes
  <2>2. arrived <= Width * Len(units')
    BY <2>1, <1>3, <1>5 DEF Width
  <2> QED
    BY <1>1, <1>2, <2>2, Zenon DEF ReaderTypes
<1>8. ReaderInv(w)'
  BY <1>1, <1>2, Zenon DEF ReaderInv, AtUnit, InStep, Ended
<1>9. HandedOut(r, w, more)'
  <2>1. Part(returned', srvSent', 0, r)
    BY <1>1, <1>2, PartExtend DEF HandedOut
  <2>2. reader'.pc # "dropped" => Part(readBuffer', srvSent', r, more[w])
    BY <1>1, <1>2, <1>6, PartExtend DEF HandedOut
  <2> QED
    BY <2>1, <2>2, Zenon DEF HandedOut
<1>10. w \in 0..Len(units')
  BY <1>2, <1>3, <1>5
<1> QED
  BY <1>4, <1>7, <1>8, <1>9, <1>10, ClientInvNext, Zenon

LEMMA NetworkKeeps ==
  ASSUME ClientInv, Deliver \/ Close
  PROVE  ClientInv'
<1>1. /\ srvSent' = srvSent /\ units' = units /\ taken' = taken /\ reader' = reader
      /\ key' = key /\ decNonce' = decNonce /\ readBuffer' = readBuffer /\ returned' = returned
      /\ open /\ \/ open' = open /\ arrived < Width * Len(units) /\ arrived' = arrived + 1
                 \/ open' = FALSE /\ arrived' = arrived
  BY DEF Deliver, Close, rvars
<1>2. PICK ends, w, r : /\ w \in 0..Len(units) /\ SentLine(srvSent, units, ends)
                        /\ ReaderInv(w) /\ HandedOut(r, w, ends) /\ ReaderTypes
  BY ClientParts
<1>3. ~Ended
  BY <1>1 DEF Ended
<1>4. ReaderTypes'
  <2>1. /\ taken \in Nat /\ arrived \in Nat /\ taken <= arrived
        /\ arrived <= Width * Len(units) /\ open \in BOOLEAN
    BY <1>2 DEF ReaderTypes
  <2>2. Len(units) \in Nat
    BY <1>2, SentFacts
  <2>3. /\ taken \in Nat /\ arrived' \in Nat /\ taken <= arrived'
        /\ arrived' <= Width * Len(units) /\ open' \in BOOLEAN
    <3>1. Width * Len(units) \in Nat
      BY <2>2 DEF Width
    <3>2. arrived' = arrived \/ (arrived < Width * Len(units) /\ arrived' = arrived + 1)
      BY <1>1, Zenon
    <3>3. open' \in BOOLEAN
      BY <1>1, <2>1, Zenon
    <3>4. arrived' \in Nat /\ taken <= arrived' /\ arrived' <= Width * Len(units)
      BY <2>1, <3>1, <3>2
    <3> QED
      BY <2>1, <3>3, <3>4
  <2> QED
    BY <1>1, <1>2, <2>3, Zenon DEF ReaderTypes
<1>5. ReaderInv(w)'
  BY <1>1, <1>2, <1>3, Zenon DEF ReaderInv, AtUnit, InStep
<1>6. HandedOut(r, w, ends)'
  BY <1>1, <1>2, Zenon DEF HandedOut
<1>7. SentLine(srvSent', units', ends) /\ w \in 0..Len(units')
  BY <1>1, <1>2, Zenon
<1> QED
  BY <1>4, <1>5, <1>6, <1>7, ClientInvNext, Zenon

\* A stream that is given up has handed out what it has handed out.
LEMMA DropKeeps ==
  ASSUME ClientInv, reader' = Drop, taken' \in taken..arrived,
         UNCHANGED <<key, decNonce, readBuffer, returned, nvars>>
  PROVE  ClientInv'
<1>1. /\ srvSent' = srvSent /\ units' = units /\ open' = open /\ arrived' = arrived
      /\ decNonce' = decNonce /\ returned' = returned
  BY DEF nvars
<1>2. PICK ends, w, r : /\ w \in 0..Len(units) /\ SentLine(srvSent, units, ends)
                        /\ ReaderInv(w) /\ HandedOut(r, w, ends) /\ ReaderTypes
  BY ClientParts
<1>3. reader' \in ReaderSet /\ reader'.pc = "dropped" /\ reader'.pieces = <<>>
  BY ReaderStates, Zenon
<1>4. ReaderTypes'
  <2>1. taken \in Nat /\ arrived \in Nat
    BY <1>2 DEF ReaderTypes
  <2>2. taken' \in Nat /\ taken' <= arrived
    BY <2>1
  <2>3. Len(reader'.pieces) <= Width
    BY <1>3 DEF Width
  <2> QED
    BY <1>1, <1>2, <1>3, <2>2, <2>3, Zenon DEF ReaderTypes, ReaderSet
<1>5. ReaderInv(w)'
  <2>1. "dropped" # "ready" /\ "dropped" # "reading"
    OBVIOUS
  <2> QED
    BY <1>3, <2>1, Zenon DEF ReaderInv
<1>6. HandedOut(r, w, ends)'
  BY <1>1, <1>2, <1>3, Zenon DEF HandedOut
<1>7. SentLine(srvSent', units', ends) /\ w \in 0..Len(units')
  BY <1>1, <1>2, Zenon
<1> QED
  BY <1>4, <1>5, <1>6, <1>7, ClientInvNext, Zenon

(* The piece that is taken behind p pieces of the unit after w. *)
LEMMA PieceIs ==
  ASSUME NEW w \in Nat, NEW p \in Nat, p < 2, NEW k, k = Width * w + p
  PROVE  Piece(k + 1) = <<w + 1, p + 1>>
<1>1. ((2 * w + p + 1) + 1) \div 2 = w + 1 /\ (2 * w + p) % 2 = p
  OBVIOUS
<1>2. ((k + 1) + Width - 1) \div Width = w + 1 /\ ((k + 1) - 1) % Width = p
  BY <1>1 DEF Width
<1> QED
  BY <1>2, Zenon DEF Piece

\* The parts of the reader's state.
LEMMA ReaderFacts ==
  ASSUME ReaderTypes
  PROVE  /\ reader = [pc |-> reader.pc, n |-> reader.n, stage |-> reader.stage, pieces |-> reader.pieces]
         /\ reader.pc \in {"ready", "reading", "dropped"} /\ reader.n \in Nat
         /\ reader.stage \in {"none", "salt", "length", "payload"}
         /\ reader.pieces \in Seq(Nat \X Nat) /\ Len(reader.pieces) \in Nat /\ Len(reader.pieces) <= 2
         /\ decNonce \in Nat /\ taken \in Nat /\ arrived \in Nat /\ taken <= arrived
         /\ arrived <= 2 * Len(units)
BY DEF ReaderTypes, Width

(* Buffered bytes are handed out. *)
LEMMA HandOutParts ==
  ASSUME NEW a \in Nat, NEW n \in Nat, NEW d, NEW s, NEW b, Part(d, s, a, b)
  PROVE  \E m \in Nat :
           /\ m = Min2(n, Len(d)) /\ Part(SubSeq(d, 1, m), s, a, a + m)
           /\ Part(SubSeq(d, m + 1, Len(d)), s, a + m, b)
<1>1. Len(d) \in Nat
  BY PartBounds
<1>2. PICK m \in Nat : m = Min2(n, Len(d)) /\ m <= Len(d)
  BY <1>1 DEF Min2
<1> QED
  BY <1>2, PartCut

(* What has been handed out is continued, and the rest is kept. *)
LEMMA HandOutKeeps ==
  ASSUME NEW d, NEW n \in Nat, NEW a, NEW b, HandOut(d, n),
         Part(d, srvSent, a, b), Part(returned, srvSent, 0, a)
  PROVE  \E r : Part(returned', srvSent, 0, r) /\ Part(readBuffer', srvSent, r, b)
<1>1. a \in Nat
  BY PartBounds
<1>2. PICK m \in Nat :
           /\ m = Min2(n, Len(d)) /\ Part(SubSeq(d, 1, m), srvSent, a, a + m)
           /\ Part(SubSeq(d, m + 1, Len(d)), srvSent, a + m, b)
  BY <1>1, HandOutParts
<1>3. /\ returned' = returned \o SubSeq(d, 1, m)
      /\ readBuffer' = SubSeq(d, m + 1, Len(d))
  BY <1>2, Zenon DEF HandOut
<1>4. Part(returned \o SubSeq(d, 1, m), srvSent, 0, a + m)
  BY <1>2, PartJoin
<1> QED
  BY <1>2, <1>3, <1>4, Zenon

LEMMA ReadBufferedKeeps ==
  ASSUME ClientInv, NEW n \in BufSizes, ReadBuffered(n)
  PROVE  ClientInv'
<1>1. /\ srvSent' = srvSent /\ units' = units /\ arrived' = arrived /\ open' = open
      /\ taken' = taken /\ reader' = reader /\ key' = key /\ decNonce' = decNonce
      /\ reader.pc = "ready" /\ HandOut(readBuffer, n)
  BY DEF ReadBuffered, nvars
<1>2. PICK ends, w, r : /\ w \in 0..Len(units) /\ SentLine(srvSent, units, ends)
                        /\ ReaderInv(w) /\ HandedOut(r, w, ends) /\ ReaderTypes
  BY ClientParts
<1>3. n \in Nat
  BY StreamAssumption
<1>4. Part(returned, srvSent, 0, r) /\ Part(readBuffer, srvSent, r, ends[w])
  BY <1>1, <1>2 DEF HandedOut
<1>5. PICK q : Part(returned', srvSent, 0, q) /\ Part(readBuffer', srvSent, q, ends[w])
  BY <1>1, <1>3, <1>4, HandOutKeeps
<1>6. HandedOut(q, w, ends)'
  BY <1>1, <1>5, Zenon DEF HandedOut
<1>7. ReaderTypes'
  BY <1>1, <1>2, Zenon DEF ReaderTypes
<1>8. ReaderInv(w)'
  <2>1. reader.pc # "reading"
    BY <1>1
  <2> QED
    BY <1>1, <1>2, <2>1, Zenon DEF ReaderInv, AtUnit, InStep, Ended
<1>9. SentLine(srvSent', units', ends) /\ w \in 0..Len(units')
  BY <1>1, <1>2, Zenon
<1> QED
  BY <1>6, <1>7, <1>8, <1>9, ClientInvNext, Zenon

LEMMA ReadKeeps ==
  ASSUME ClientInv, NEW n \in BufSizes, Read(n)
  PROVE  ClientInv'
<1> DEFINE stage == IF key = <<>> THEN "salt" ELSE "length"
<1>1. /\ srvSent' = srvSent /\ units' = units /\ arrived' = arrived /\ open' = open
      /\ taken' = taken /\ key' = key /\ decNonce' = decNonce
      /\ returned' = returned /\ readBuffer' = readBuffer
      /\ reader.pc = "ready" /\ readBuffer = <<>>
      /\ reader' = [pc |-> "reading", n |-> n, stage |-> stage, pieces |-> <<>>]
  BY DEF Read, nvars
<1>2. PICK ends, w, r : /\ w \in 0..Len(units) /\ SentLine(srvSent, units, ends)
                        /\ ReaderInv(w) /\ HandedOut(r, w, ends) /\ ReaderTypes
  BY ClientParts
<1>3. n \in Nat /\ stage \in {"none", "salt", "length", "payload"} /\ <<>> \in Seq(Nat \X Nat)
  BY StreamAssumption
<1>4. /\ reader' \in ReaderSet /\ reader'.pc = "reading"
      /\ reader'.stage = stage /\ reader'.pieces = <<>>
  <2>1. PICK x : x = [pc |-> "reading", n |-> n, stage |-> stage, pieces |-> <<>>]
    OBVIOUS
  <2>2. x \in ReaderSet /\ x.pc = "reading" /\ x.stage = stage /\ x.pieces = <<>>
    <3> HIDE DEF stage
    <3> QED
      BY <1>3, <2>1 DEF ReaderSet
  <2> QED
    BY <1>1, <2>1, <2>2, Zenon
<1>5. ReaderTypes'
  <2>1. Len(reader'.pieces) <= Width
    BY <1>4 DEF Width
  <2> QED
    BY <1>1, <1>2, <1>4, <2>1, Zenon DEF ReaderTypes, ReaderSet
<1>6. reader.pieces = <<>> /\ AtUnit(w) /\ InStep(w)
  BY <1>1, <1>2 DEF ReaderInv
<1>7. AtUnit(w)'
  BY <1>1, <1>4, <1>6, Zenon DEF AtUnit, Ended
<1>8. InStep(w)'
  <2>1. CASE key = <<>>
    BY <1>1, <1>4, <1>6, <2>1, Zenon DEF InStep
  <2>2. CASE key # <<>>
    <3>1. stage = "length" /\ reader'.pc # "ready"
      BY <1>4, <2>2
    <3>2. key = Salt /\ w = decNonce + 1 /\ (decNonce % 2 = 0 \/ Ended)
      BY <1>1, <1>6, <2>2, Zenon DEF InStep
    <3> QED
      BY <1>1, <1>4, <2>2, <3>1, <3>2, Zenon DEF InStep, Ended
  <2> QED
    BY <2>1, <2>2
<1>9. ReaderInv(w)'
  <2>1. reader'.pc # "ready"
    BY <1>4
  <2> QED
    BY <1>1, <1>7, <1>8, <2>1, Zenon DEF ReaderInv
<1>10. HandedOut(r, w, ends)'
  <2>1. reader.pc # "dropped"
    BY <1>1
  <2> QED
    BY <1>1, <1>2, <2>1, Zenon DEF HandedOut
<1>11. SentLine(srvSent', units', ends) /\ w \in 0..Len(units')
  BY <1>1, <1>2, Zenon
<1> QED
  BY <1>5, <1>9, <1>10, <1>11, ClientInvNext, Zenon

\* What the steps of a read() start from.
LEMMA Reading ==
  ASSUME ClientInv, reader.pc = "reading"
  PROVE  \E ends, w, r :
           /\ w \in 0..Len(units) /\ SentLine(srvSent, units, ends)
           /\ AtUnit(w) /\ InStep(w) /\ ReaderTypes
           /\ Part(returned, srvSent, 0, r) /\ r = ends[w] /\ readBuffer = <<>>
<1>1. PICK ends, w, r : /\ w \in 0..Len(units) /\ SentLine(srvSent, units, ends)
                        /\ ReaderInv(w) /\ HandedOut(r, w, ends) /\ ReaderTypes
  BY ClientParts
<1>2. AtUnit(w) /\ InStep(w) /\ readBuffer = <<>>
  BY <1>1 DEF ReaderInv
<1>3. Part(returned, srvSent, 0, r) /\ Part(<<>>, srvSent, r, ends[w])
  BY <1>1, <1>2 DEF HandedOut
<1>4. r = ends[w]
  BY <1>3, PartBounds
<1> QED
  BY <1>1, <1>2, <1>3, <1>4, Zenon

\* A read() in progress goes on, or has come to its end.
LEMMA ReadingNext ==
  ASSUME ReaderTypes', NEW ends, SentLine(srvSent, units, ends),
         NEW w \in 0..Len(units), AtUnit(w)', InStep(w)',
         reader'.pc = "reading" \/ (reader'.pc = "ready" /\ reader'.pieces = <<>>),
         NEW r, Part(returned', srvSent, 0, r), r = ends[w], readBuffer' = <<>>,
         UNCHANGED nvars
  PROVE  ClientInv'
<1>1. srvSent' = srvSent /\ units' = units
  BY DEF nvars
<1>2. ReaderInv(w)'
  <2>1. "ready" # "reading"
    OBVIOUS
  <2> QED
    BY <2>1, Zenon DEF ReaderInv
<1>3. Part(<<>>, srvSent, r, ends[w])
  <2>1. srvSent \in Seq(Nat) /\ r \in Nat /\ r <= Len(srvSent)
    BY PartBounds
  <2> QED
    BY <2>1, PartEmpty
<1>4. HandedOut(r, w, ends)'
  BY <1>1, <1>3, Zenon DEF HandedOut
<1>5. SentLine(srvSent', units', ends) /\ w \in 0..Len(units')
  BY <1>1, Zenon
<1> QED
  BY <1>2, <1>4, <1>5, ClientInvNext, Zenon

LEMMA TakeKeeps ==
  ASSUME ClientInv, Take
  PROVE  ClientInv'
<1>1. /\ reader.pc = "reading" /\ Len(reader.pieces) < Width /\ taken < arrived /\ taken' = taken + 1
      /\ reader' = [reader EXCEPT !.pieces = Append(@, Piece(taken + 1))]
      /\ UNCHANGED nvars
      /\ key' = key /\ decNonce' = decNonce /\ returned' = returned /\ readBuffer' = readBuffer
  BY Zenon DEF Take
<1>2. PICK ends, w, r :
           /\ w \in 0..Len(units) /\ SentLine(srvSent, units, ends)
           /\ AtUnit(w) /\ InStep(w) /\ ReaderTypes
           /\ Part(returned, srvSent, 0, r) /\ r = ends[w] /\ readBuffer = <<>>
  BY <1>1, Reading
<1> DEFINE ps == reader.pieces
           p == Len(ps)
<1>3. ~Ended
  <2>1. taken \in Nat /\ arrived \in Nat
    BY <1>2, ReaderFacts
  <2> QED
    BY <1>1, <2>1 DEF Ended
<1>4. /\ reader = [pc |-> reader.pc, n |-> reader.n, stage |-> reader.stage, pieces |-> ps]
      /\ reader.n \in Nat /\ reader.stage \in {"none", "salt", "length", "payload"}
      /\ ps \in Seq(Nat \X Nat) /\ p \in Nat /\ p < 2
      /\ taken \in Nat /\ arrived \in Nat /\ w \in Nat
  <2>1. w \in Nat
    BY <1>2
  <2> QED
    BY <1>1, <1>2, <2>1, ReaderFacts DEF Width
<1>5. taken = Width * w + p /\ \A i \in 1..p : ps[i] = <<w + 1, i>>
  BY <1>2, <1>3 DEF AtUnit
<1>6. Piece(taken + 1) = <<w + 1, p + 1>>
  <2> HIDE DEF p
  <2> QED
    BY <1>4, <1>5, PieceIs
<1> DEFINE more == Append(ps, <<w + 1, p + 1>>)
<1>7. /\ more \in Seq(Nat \X Nat) /\ Len(more) = p + 1
      /\ \A i \in 1..(p + 1) : more[i] = <<w + 1, i>>
  BY <1>4, <1>5
<1>8. reader' = [pc |-> "reading", n |-> reader.n, stage |-> reader.stage, pieces |-> more]
  <2>1. reader' = [reader EXCEPT !.pieces = more]
    BY <1>1, <1>6, Zenon
  <2> HIDE DEF more, ps
  <2> QED
    BY <2>1, <1>1, <1>4
<1>9. /\ reader' \in ReaderSet /\ reader'.pc = "reading"
      /\ reader'.stage = reader.stage /\ reader'.pieces = more
  <2> HIDE DEF more
  <2> QED
    BY <1>4, <1>7, <1>8 DEF ReaderSet
<1> HIDE DEF more, p
<1>10. ReaderTypes'
  <2>1. Len(reader'.pieces) <= Width /\ taken' \in Nat /\ taken' <= arrived
    BY <1>1, <1>4, <1>7, <1>9 DEF Width
  <2> QED
    BY <1>1, <1>2, <1>9, <2>1, Zenon DEF ReaderTypes, ReaderSet, nvars
<1>11. AtUnit(w)'
  <2>1. taken' = Width * w + (p + 1)
    BY <1>1, <1>4, <1>5 DEF Width
  <2> QED
    BY <1>7, <1>9, <2>1, Zenon DEF AtUnit
<1>12. InStep(w)'
  <2>1. reader'.pc # "ready"
    BY <1>9
  <2>2. key # <<>> =>
          \/ reader.stage = "length" /\ decNonce % 2 = 0
          \/ reader.stage = "payload" /\ decNonce % 2 = 1
    <3>1. InStep(w) /\ reader.pc = "reading"
      BY <1>1, <1>2
    <3> QED
      BY <1>3, <3>1 DEF InStep
  <2> QED
    BY <1>1, <1>2, <1>9, <2>1, <2>2, Zenon DEF InStep
<1> QED
  BY <1>1, <1>2, <1>9, <1>10, <1>11, <1>12, ReadingNext, Zenon

\* A unit that has been taken whole.
LEMMA WholeUnit ==
  ASSUME ReaderTypes, NEW w \in Nat, AtUnit(w), Len(reader.pieces) = Width, Len(units) \in Nat
  PROVE  /\ taken = Width * (w + 1) /\ w + 1 \in 1..Len(units)
         /\ reader.pieces = Pieces(w + 1) /\ reader.pieces # <<>>
<1>1. reader.pieces \in Seq(Nat \X Nat) /\ taken \in Nat /\ arrived \in Nat
      /\ taken <= arrived /\ arrived <= 2 * Len(units)
  BY ReaderFacts
<1>0. PICK ps \in Seq(Nat \X Nat) : ps = reader.pieces /\ Len(ps) = 2
  BY <1>1 DEF Width
<1>2. Len(reader.pieces) = 2 /\ reader.pieces # <<>>
  <2>1. ps # <<>>
    BY <1>0
  <2> QED
    BY <1>0, <2>1
<1>3. taken = 2 * w + 2 /\ \A i \in 1..2 : reader.pieces[i] = <<w + 1, i>>
  BY <1>2 DEF AtUnit, Width
<1>4. w + 1 \in 1..Len(units)
  BY <1>1, <1>3
<1>5. reader.pieces = Pieces(w + 1)
  <2>1. Pieces(w + 1) \in Seq(Nat \X Nat) /\ Len(Pieces(w + 1)) = 2
        /\ \A i \in 1..2 : Pieces(w + 1)[i] = <<w + 1, i>>
    BY DEF Pieces, Width
  <2> QED
    <3>1. \A i \in 1..2 : ps[i] = Pieces(w + 1)[i]
      BY <1>0, <1>3, <2>1
    <3>2. ps = Pieces(w + 1)
      BY <1>0, <2>1, <3>1, SeqEqual
    <3> QED
      BY <1>0, <3>2
<1> QED
  BY <1>2, <1>3, <1>4, <1>5 DEF Width

LEMMA PiecesFirst ==
  ASSUME NEW u \in Nat
  PROVE  Pieces(u)[1][1] = u /\ Pieces(u) # <<>> /\ Pieces(u) \in Seq(Nat \X Nat)
<1> DEFINE f == [i \in 1..2 |-> <<u, i>>]
<1>0. Pieces(u) = f
  BY DEF Pieces, Width
<1>1. PICK p \in Seq(Nat \X Nat) : p = Pieces(u) /\ Len(p) = 2 /\ p[1] = <<u, 1>>
  <2>1. \A i \in 1..2 : <<u, i>> \in Nat \X Nat
    OBVIOUS
  <2>2. f \in Seq(Nat \X Nat) /\ Len(f) = 2 /\ f[1] = <<u, 1>>
    BY <2>1
  <2> QED
    BY <1>0, <2>2, Zenon
<1> HIDE DEF f
<1>2. p # <<>>
  BY <1>1
<1>3. p[1][1] = u
  <2>1. <<u, 1>>[1] = u
    OBVIOUS
  <2> QED
    BY <1>1, <2>1
<1> QED
  BY <1>1, <1>2, <1>3, Zenon

LEMMA ReadingOn ==
  ASSUME ReaderTypes, NEW stage \in {"length", "payload"}, Await(stage),
         NEW w \in Nat, taken = Width * w, taken' = taken, open' = open, arrived' = arrived,
         units' = units, decNonce' \in Nat
  PROVE  /\ reader'.pc = "reading" /\ reader'.stage = stage /\ reader'.pieces = <<>>
         /\ ReaderTypes' /\ AtUnit(w)'
<1>1. reader' = [pc |-> "reading", n |-> reader.n, stage |-> stage, pieces |-> <<>>]
  BY DEF Await
<1>2. reader.n \in Nat /\ <<>> \in Seq(Nat \X Nat) /\ taken \in Nat
  BY ReaderFacts
<1>3. /\ reader' \in ReaderSet /\ reader'.pc = "reading"
      /\ reader'.stage = stage /\ reader'.pieces = <<>>
  BY <1>1, <1>2 DEF ReaderSet
<1>4. ReaderTypes'
  <2>1. Len(reader'.pieces) <= Width
    BY <1>3 DEF Width
  <2> QED
    BY <1>3, <2>1, Zenon DEF ReaderTypes, ReaderSet
<1>5. AtUnit(w)'
  <2>1. taken' = Width * w + Len(reader'.pieces) /\ \A i \in 1..Len(reader'.pieces) : FALSE
    BY <1>2, <1>3 DEF Width
  <2> QED
    BY <2>1, Zenon DEF AtUnit
<1> QED
  BY <1>3, <1>4, <1>5

LEMMA GotSaltKeeps ==
  ASSUME ClientInv, GotSalt
  PROVE  ClientInv'
<1>1. /\ reader.pc = "reading" /\ reader.stage = "salt" /\ Len(reader.pieces) = Width
      /\ key' = reader.pieces /\ decNonce' = 0 /\ Await("length")
      /\ UNCHANGED nvars
      /\ taken' = taken /\ returned' = returned /\ readBuffer' = readBuffer
      /\ open' = open /\ arrived' = arrived /\ units' = units
  BY DEF GotSalt, Whole, nvars
<1>2. PICK ends, w, r :
           /\ w \in 0..Len(units) /\ SentLine(srvSent, units, ends)
           /\ AtUnit(w) /\ InStep(w) /\ ReaderTypes
           /\ Part(returned, srvSent, 0, r) /\ r = ends[w] /\ readBuffer = <<>>
  BY <1>1, Reading
<1>3. w = 0
  BY <1>1, <1>2 DEF InStep
<1>4. Len(units) \in Nat /\ units[1].data = <<>>
      /\ \A i \in 1..Len(units) : Part(units[i].data, srvSent, ends[i - 1], ends[i])
  BY <1>2, SentFacts
<1>5. taken = Width * 1 /\ 1 \in 1..Len(units) /\ reader.pieces = Salt /\ Salt # <<>>
  <2>1. taken = Width * (0 + 1) /\ 0 + 1 \in 1..Len(units) /\ reader.pieces = Pieces(0 + 1)
    BY <1>1, <1>2, <1>3, <1>4, WholeUnit
  <2>2. 0 + 1 = 1
    OBVIOUS
  <2> QED
    BY <2>1, <2>2, PiecesFirst DEF Salt
<1>6. ends[1] = ends[0]
  <2>1. Part(<<>>, srvSent, ends[1 - 1], ends[1]) /\ 1 - 1 = 0
    BY <1>4, <1>5
  <2> QED
    BY <2>1, PartBounds
<1>7. /\ reader'.pc = "reading" /\ reader'.stage = "length" /\ reader'.pieces = <<>>
      /\ ReaderTypes' /\ AtUnit(1)'
  <2>1. decNonce' \in Nat
    BY <1>1
  <2> QED
    BY <1>1, <1>2, <1>5, <2>1, ReadingOn
<1>8. InStep(1)'
  <2>1. 1 = 0 + 1 /\ 0 % 2 = 0
    OBVIOUS
  <2>2. reader'.pc # "ready"
    BY <1>7
  <2> QED
    BY <1>1, <1>5, <1>7, <2>1, <2>2, Zenon DEF InStep
<1>9. 1 \in 0..Len(units)
  BY <1>5
<1> QED
  BY <1>1, <1>2, <1>3, <1>6, <1>7, <1>8, <1>9, ReadingNext, Zenon

\* A unit that has been taken whole after the salt is the one that the decryptor
\* expects, and a length where a length is read.
LEMMA ItOpens ==
  ASSUME ClientInv, reader.pc = "reading", reader.stage # "salt", Len(reader.pieces) = Width
  PROVE  /\ Opens(reader.pieces) /\ reader.pieces[1][1] = decNonce + 2
         /\ taken = Width * (decNonce + 2) /\ key # <<>> /\ key = Salt /\ decNonce \in Nat
         /\ \/ reader.stage = "length" /\ decNonce % 2 = 0
            \/ reader.stage = "payload" /\ decNonce % 2 = 1
         /\ ReaderTypes /\ readBuffer = <<>>
         /\ \E ends :
              /\ SentLine(srvSent, units, ends) /\ decNonce + 2 \in 1..Len(units)
              /\ Part(returned, srvSent, 0, ends[decNonce + 1])
              /\ Part(units[decNonce + 2].data, srvSent, ends[decNonce + 1], ends[decNonce + 2])
              /\ decNonce % 2 = 0 => units[decNonce + 2].data = <<>>
<1>1. PICK ends, w, r :
           /\ w \in 0..Len(units) /\ SentLine(srvSent, units, ends)
           /\ AtUnit(w) /\ InStep(w) /\ ReaderTypes
           /\ Part(returned, srvSent, 0, r) /\ r = ends[w] /\ readBuffer = <<>>
  BY Reading
<1>2. /\ Len(units) \in Nat
      /\ \A i \in 1..Len(units) : Part(units[i].data, srvSent, ends[i - 1], ends[i])
      /\ \A i \in 2..Len(units) : units[i].nonce = i - 2 /\ (i % 2 = 0 => units[i].data = <<>>)
  BY <1>1, SentFacts
<1>3. w \in Nat /\ decNonce \in Nat
  BY <1>1, <1>2, ReaderFacts
<1>4. /\ taken = Width * (w + 1) /\ w + 1 \in 1..Len(units)
      /\ reader.pieces = Pieces(w + 1) /\ reader.pieces # <<>>
  BY <1>1, <1>2, <1>3, WholeUnit
<1>5. key # <<>> /\ key = Salt /\ w = decNonce + 1
      /\ \/ reader.stage = "length" /\ decNonce % 2 = 0
         \/ reader.stage = "payload" /\ decNonce % 2 = 1
  <2>1. InStep(w)
    BY <1>1
  <2> QED
    BY <2>1, <1>4, Zenon DEF InStep
<1>6. w + 1 = decNonce + 2 /\ (w + 1) - 1 = w /\ w + 1 \in 2..Len(units) /\ w + 1 > 1
      /\ (w + 1) - 2 = decNonce /\ (decNonce % 2 = 0 => (w + 1) % 2 = 0)
  BY <1>3, <1>4, <1>5
<1> DEFINE u == w + 1
<1>7. /\ units[u].nonce = decNonce
      /\ Part(units[u].data, srvSent, ends[w], ends[u])
      /\ decNonce % 2 = 0 => units[u].data = <<>>
  BY <1>2, <1>4, <1>6, Zenon
<1>8. reader.pieces[1][1] = u
  <2>1. u \in Nat
    BY <1>3
  <2> HIDE DEF u
  <2> QED
    BY <2>1, <1>4, PiecesFirst DEF u
<1>9. Opens(reader.pieces)
  BY <1>4, <1>5, <1>6, <1>7, <1>8, Zenon DEF Opens
<1> QED
  BY <1>1, <1>3, <1>4, <1>5, <1>6, <1>7, <1>8, <1>9, Zenon

LEMMA GotLengthKeeps ==
  ASSUME ClientInv, GotLength
  PROVE  ClientInv'
<1>1. /\ reader.pc = "reading" /\ reader.stage = "length" /\ Len(reader.pieces) = Width
  BY DEF GotLength, Whole
<1>2. /\ Opens(reader.pieces)
      /\ taken = Width * (decNonce + 2) /\ key # <<>> /\ key = Salt /\ decNonce \in Nat
      /\ decNonce % 2 = 0 /\ ReaderTypes /\ readBuffer = <<>>
      /\ \E ends :
           /\ SentLine(srvSent, units, ends) /\ decNonce + 2 \in 1..Len(units)
           /\ Part(returned, srvSent, 0, ends[decNonce + 1])
           /\ Part(units[decNonce + 2].data, srvSent, ends[decNonce + 1], ends[decNonce + 2])
           /\ decNonce % 2 = 0 => units[decNonce + 2].data = <<>>
  <2>1. "length" # "salt" /\ "length" # "payload"
    OBVIOUS
  <2> QED
    BY <1>1, <2>1, ItOpens, Zenon
<1>3. PICK ends :
           /\ SentLine(srvSent, units, ends) /\ decNonce + 2 \in 1..Len(units)
           /\ Part(returned, srvSent, 0, ends[decNonce + 1])
           /\ Part(<<>>, srvSent, ends[decNonce + 1], ends[decNonce + 2])
  BY <1>2
<1>4. /\ decNonce' = decNonce + 1 /\ Await("payload")
      /\ UNCHANGED nvars /\ key' = key
      /\ taken' = taken /\ returned' = returned /\ readBuffer' = readBuffer
      /\ open' = open /\ arrived' = arrived /\ units' = units
  BY <1>2, Zenon DEF GotLength, nvars
<1>5. PICK w \in Nat : w = decNonce + 2
  BY <1>2
<1>6. ends[decNonce + 1] = ends[w] /\ w \in 0..Len(units)
  BY <1>2, <1>3, <1>5, PartBounds
<1>7. /\ reader'.pc = "reading" /\ reader'.stage = "payload" /\ reader'.pieces = <<>>
      /\ ReaderTypes' /\ AtUnit(w)'
  <2>1. decNonce' \in Nat
    BY <1>2, <1>4
  <2>2. taken = Width * w
    BY <1>2, <1>5
  <2> QED
    BY <1>2, <1>4, <1>5, <2>1, <2>2, ReadingOn
<1>8. InStep(w)'
  <2>1. w = decNonce' + 1 /\ decNonce' % 2 = 1
    BY <1>2, <1>4, <1>5
  <2>2. reader'.pc # "ready"
    BY <1>7
  <2> QED
    BY <1>2, <1>4, <1>7, <2>1, <2>2, Zenon DEF InStep
<1>9. PICK r : r = ends[w] /\ Part(returned', srvSent, 0, r)
  BY <1>3, <1>4, <1>6
<1> QED
  BY <1>2, <1>3, <1>4, <1>6, <1>7, <1>8, <1>9, ReadingNext, Zenon

LEMMA GotPayloadKeeps ==
  ASSUME ClientInv, GotPayload
  PROVE  ClientInv'
<1>1. /\ reader.pc = "reading" /\ reader.stage = "payload" /\ Len(reader.pieces) = Width
  BY DEF GotPayload, Whole
<1>2. /\ Opens(reader.pieces) /\ reader.pieces[1][1] = decNonce + 2
      /\ taken = Width * (decNonce + 2) /\ key # <<>> /\ key = Salt /\ decNonce \in Nat
      /\ decNonce % 2 = 1 /\ ReaderTypes
      /\ \E ends :
           /\ SentLine(srvSent, units, ends) /\ decNonce + 2 \in 1..Len(units)
           /\ Part(returned, srvSent, 0, ends[decNonce + 1])
           /\ Part(units[decNonce + 2].data, srvSent, ends[decNonce + 1], ends[decNonce + 2])
           /\ decNonce % 2 = 0 => units[decNonce + 2].data = <<>>
  <2>1. "payload" # "salt" /\ "length" # "payload"
    OBVIOUS
  <2> QED
    BY <1>1, <2>1, ItOpens, Zenon
<1>3. PICK ends :
           /\ SentLine(srvSent, units, ends) /\ decNonce + 2 \in 1..Len(units)
           /\ Part(returned, srvSent, 0, ends[decNonce + 1])
           /\ Part(units[decNonce + 2].data, srvSent, ends[decNonce + 1], ends[decNonce + 2])
  BY <1>2
<1>4. /\ decNonce' = decNonce + 1 /\ reader' = Ready
      /\ HandOut(units[decNonce + 2].data, reader.n)
      /\ key' = key /\ taken' = taken
      /\ open' = open /\ arrived' = arrived /\ units' = units /\ srvSent' = srvSent
  BY <1>2, Zenon DEF GotPayload, nvars
<1>5. PICK w \in Nat : w = decNonce + 2
  BY <1>2
<1>6. PICK q : Part(returned', srvSent, 0, q) /\ Part(readBuffer', srvSent, q, ends[w])
  <2>1. reader.n \in Nat
    BY <1>2, ReaderFacts
  <2> QED
    BY <2>1, <1>3, <1>4, <1>5, HandOutKeeps
<1>7. HandedOut(q, w, ends)'
  BY <1>4, <1>6, Zenon DEF HandedOut
<1>8. reader' \in ReaderSet /\ reader'.pc = "ready" /\ reader'.pieces = <<>>
  BY <1>4, ReaderStates, Zenon
<1>9. ReaderTypes'
  <2>1. Len(reader'.pieces) <= Width /\ decNonce' \in Nat
    BY <1>2, <1>4, <1>8 DEF Width
  <2> QED
    BY <1>2, <1>4, <1>8, <2>1, Zenon DEF ReaderTypes, ReaderSet
<1>10. AtUnit(w)'
  <2>1. taken' = Width * w + Len(reader'.pieces) /\ \A i \in 1..Len(reader'.pieces) : FALSE
    BY <1>2, <1>4, <1>5, <1>8 DEF Width
  <2> QED
    BY <2>1, Zenon DEF AtUnit
<1>11. InStep(w)'
  <2>1. w = decNonce' + 1 /\ decNonce' % 2 = 0
    BY <1>2, <1>4, <1>5
  <2>2. reader'.pc # "reading"
    BY <1>8
  <2> QED
    BY <1>2, <1>4, <1>8, <2>1, <2>2, Zenon DEF InStep
<1>12. ReaderInv(w)'
  <2>1. reader'.pc # "reading"
    BY <1>8
  <2> QED
    BY <1>8, <1>10, <1>11, <2>1, Zenon DEF ReaderInv
<1>13. SentLine(srvSent', units', ends) /\ w \in 0..Len(units')
  <2>1. Len(units) \in Nat
    BY <1>3, SentFacts
  <2>2. w \in 0..Len(units)
    BY <2>1, <1>3, <1>5
  <2> QED
    BY <1>3, <1>4, <2>2, Zenon
<1> QED
  BY <1>7, <1>9, <1>12, <1>13, ClientInvNext, Zenon

(* At the end of the stream a first piece may have been taken in vain. *)
LEMMA EndOfStreamKeeps ==
  ASSUME ClientInv, EndOfStream
  PROVE  ClientInv'
<1>1. /\ reader.pc = "reading" /\ Len(reader.pieces) < Width /\ ~open /\ taken = arrived
      /\ reader' = Ready /\ UNCHANGED nvars
      /\ key' = key /\ decNonce' = decNonce
      /\ taken' = taken /\ returned' = returned /\ readBuffer' = readBuffer
      /\ open' = open /\ arrived' = arrived /\ units' = units
  BY Zenon DEF EndOfStream, nvars
<1>2. PICK ends, w, r :
           /\ w \in 0..Len(units) /\ SentLine(srvSent, units, ends)
           /\ AtUnit(w) /\ InStep(w) /\ ReaderTypes
           /\ Part(returned, srvSent, 0, r) /\ r = ends[w] /\ readBuffer = <<>>
  BY <1>1, Reading
<1>3. reader' \in ReaderSet /\ reader'.pc = "ready" /\ reader'.pieces = <<>>
  BY <1>1, ReaderStates, Zenon
<1>4. Ended'
  BY <1>1, Zenon DEF Ended
<1>5. ReaderTypes'
  <2>1. Len(reader'.pieces) <= Width
    BY <1>3 DEF Width
  <2> QED
    BY <1>1, <1>2, <1>3, <2>1, Zenon DEF ReaderTypes, ReaderSet, nvars
<1>6. AtUnit(w)'
  <2>1. w \in Nat /\ taken \in Nat /\ Len(reader.pieces) \in Nat
    <3>1. Len(units) \in Nat
      BY <1>2, SentFacts
    <3> QED
      BY <3>1, <1>2, ReaderFacts
  <2>2. taken = Width * w + Len(reader.pieces) \/ taken = Width * w + 1
    BY <1>2, Zenon DEF AtUnit
  <2>3. taken = Width * w \/ taken = Width * w + 1
    <3>1. Len(reader.pieces) = 0 \/ Len(reader.pieces) = 1
      <4>1. Len(reader.pieces) < 2
        BY <1>1 DEF Width
      <4>2. PICK l \in Nat : l = Len(reader.pieces)
        BY <2>1
      <4>3. l < 2
        BY <4>1, <4>2, Zenon
      <4>4. l = 0 \/ l = 1
        BY <4>3
      <4> QED
        BY <4>2, <4>4
    <3>2. Width * w \in Nat
      BY <2>1 DEF Width
    <3>3. CASE Len(reader.pieces) = 0
      BY <2>2, <3>2, <3>3
    <3>4. CASE Len(reader.pieces) = 1
      BY <2>2, <3>2, <3>4
    <3> QED
      BY <3>1, <3>3, <3>4
  <2>4. CASE taken = Width * w
    <3>1. taken' = Width * w + Len(reader'.pieces) /\ \A i \in 1..Len(reader'.pieces) : FALSE
      BY <1>1, <1>3, <2>1, <2>4 DEF Width
    <3> QED
      BY <3>1, Zenon DEF AtUnit
  <2>5. CASE taken = Width * w + 1
    BY <1>1, <1>3, <1>4, <2>5, Zenon DEF AtUnit
  <2> QED
    BY <2>3, <2>4, <2>5
<1>7. InStep(w)'
  <2>1. reader'.pc # "reading"
    BY <1>3
  <2> QED
    BY <1>1, <1>2, <1>4, <2>1, Zenon DEF InStep
<1>8. readBuffer' = <<>> /\ Part(returned', srvSent, 0, r)
  BY <1>1, <1>2
<1> QED
  BY <1>1, <1>2, <1>3, <1>5, <1>6, <1>7, <1>8, ReadingNext, Zenon

LEMMA NextClientInv == NonceInv /\ ClientInv /\ [Next]_vars => ClientInv'
<1> SUFFICES ASSUME NonceInv, ClientInv, [Next]_vars PROVE ClientInv'
  OBVIOUS
<1>0. ReaderTypes
  BY ClientParts
<1>1. CASE UNCHANGED <<nvars, rvars>>
  <2>1. PICK ends, w, r : /\ w \in 0..Len(units) /\ SentLine(srvSent, units, ends)
                          /\ ReaderInv(w) /\ HandedOut(r, w, ends) /\ ReaderTypes
    BY ClientParts
  <2>2. /\ srvSent' = srvSent /\ units' = units /\ arrived' = arrived /\ open' = open
        /\ taken' = taken /\ reader' = reader /\ key' = key /\ decNonce' = decNonce
        /\ readBuffer' = readBuffer /\ returned' = returned
    BY <1>1 DEF nvars, rvars
  <2>3. ReaderTypes'
    BY <2>1, <2>2, Zenon DEF ReaderTypes
  <2>4. ReaderInv(w)'
    BY <2>1, <2>2, Zenon DEF ReaderInv, AtUnit, InStep, Ended
  <2>5. HandedOut(r, w, ends)'
    BY <2>1, <2>2, Zenon DEF HandedOut
  <2>6. SentLine(srvSent', units', ends) /\ w \in 0..Len(units')
    BY <2>1, <2>2, Zenon
  <2> QED
    BY <2>3, <2>4, <2>5, <2>6, ClientInvNext, Zenon
<1>2. CASE \/ \E n \in 1..MaxBytes : Write([i \in 1..n |-> Len(accepted) + i])
           \/ WriteChunk \/ WriteFails \/ ServerReads
  BY <1>2, <1>1 DEF Write, WriteChunk, WriteFails, ServerReads
<1>3. CASE UNCHANGED vars
  BY <1>3, <1>1 DEF vars
<1>4. ASSUME NEW n \in 1..MaxChunk, ServerSends([i \in 1..n |-> Len(srvSent) + i])
      PROVE  ClientInv'
  <2>1. Len(srvSent) \in Nat
    <3>1. PICK ends, w, r : HandedOut(r, w, ends)
      BY ClientParts
    <3>2. Part(returned, srvSent, 0, r)
      BY <3>1 DEF HandedOut
    <3> QED
      BY <3>2, PartBounds
  <2>2. [i \in 1..n |-> Len(srvSent) + i] \in Seq(Nat)
    BY <2>1
  <2> QED
    BY <1>4, <2>2, SendsKeeps
<1>5. CASE Deliver \/ Close
  BY <1>5, NetworkKeeps
<1>6. ASSUME NEW n \in BufSizes, ReadBuffered(n) \/ Read(n)
      PROVE  ClientInv'
  BY <1>6, ReadBufferedKeeps, ReadKeeps
<1>7. CASE Take
  BY <1>7, TakeKeeps
<1>8. CASE GotSalt
  BY <1>8, GotSaltKeeps
<1>9. CASE GotLength
  BY <1>9, GotLengthKeeps
<1>10. CASE GotPayload
  BY <1>10, GotPayloadKeeps
<1>11. CASE EndOfStream
  BY <1>11, EndOfStreamKeeps
<1>12. taken \in taken..arrived
  BY <1>0, ReaderFacts
<1>13. CASE CancelRead
  BY <1>13, <1>12, DropKeeps DEF CancelRead
<1>14. CASE PollRead
  <2>1. taken' \in taken..arrived
    <3>1. PICK k \in (taken + 1)..arrived : taken' = k
      BY <1>14 DEF PollRead
    <3> QED
      BY <3>1, <1>0, ReaderFacts
  <2> QED
    BY <1>14, <2>1, DropKeeps DEF PollRead
<1>15. CASE PollWrite
  BY <1>15, <1>12, DropKeeps DEF PollWrite
<1> QED
  BY <1>2, <1>3, <1>4, <1>5, <1>6, <1>7, <1>8, <1>9, <1>10, <1>11, <1>13, <1>14, <1>15 DEF Next

\* What has been returned is the first of what was sent.
LEMMA ReturnedIsPrefix ==
  ASSUME ClientInv
  PROVE  \E r \in 0..Len(srvSent) : returned = SubSeq(srvSent, 1, r) /\ Len(returned) = r
<1>1. PICK ends, w, r : HandedOut(r, w, ends)
  BY ClientParts
<1>2. Part(returned, srvSent, 0, r)
  BY <1>1 DEF HandedOut
<1> QED
  BY <1>2, PartFront, PartBounds

LEMMA ReturnedIsPrefixNext ==
  ASSUME ClientInv'
  PROVE  \E r \in 0..Len(srvSent') : returned' = SubSeq(srvSent', 1, r) /\ Len(returned') = r
<1>1. PICK r : Part(returned', srvSent', 0, r)
  BY Zenon DEF ClientInv, HandedOut
<1> QED
  BY <1>1, PartFront, PartBounds

(* Every step is one of ByteStream's, or changes nothing that it sees. *)
LEMMA ClientLineStep ==
  ASSUME ClientInv, ClientInv', [Next]_vars
  PROVE  [ToClient!Next]_<<srvSent, returned>>
<1>1. PICK r \in 0..Len(srvSent) : returned = SubSeq(srvSent, 1, r) /\ Len(returned) = r
  BY ReturnedIsPrefix
<1>2. PICK q \in 0..Len(srvSent') : returned' = SubSeq(srvSent', 1, q) /\ Len(returned') = q
  BY ReturnedIsPrefixNext
<1>3. srvSent \in Seq(Nat) /\ returned \in Seq(Nat) /\ Len(srvSent) \in Nat
  <2>1. PICK ends, w, x : HandedOut(x, w, ends)
    BY ClientParts
  <2>2. Part(returned, srvSent, 0, x)
    BY <2>1 DEF HandedOut
  <2> QED
    BY <2>2, PartBounds
<1>4. ASSUME NEW n \in 1..MaxChunk, ServerSends([i \in 1..n |-> Len(srvSent) + i])
      PROVE  ToClient!Send
  <2> DEFINE d == [i \in 1..n |-> Len(srvSent) + i]
  <2>1. n \in Nat /\ n > 0
    OBVIOUS
  <2>2. d \in Seq(Nat) /\ d # <<>>
    BY <1>3, <2>1, NewBytes
  <2> HIDE DEF d
  <2>3. srvSent' = srvSent \o d /\ returned' = returned
    BY <1>4 DEF ServerSends, rvars, d
  <2>4. IsStrictPrefix(srvSent, srvSent')
    BY <1>3, <2>2, <2>3, AppendIsPrefix
  <2> QED
    BY <2>3, <2>4, Zenon DEF ToClient!Send, ToClient!IsStrictPrefix, ToClient!IsPrefix,
      IsStrictPrefix, IsPrefix
<1>5. ASSUME srvSent' = srvSent, NEW d \in Seq(Nat), returned' = returned \o d
      PROVE  [ToClient!Next]_<<srvSent, returned>>
  <2>1. Len(returned') = Len(returned) + Len(d) /\ Len(d) \in Nat
    BY <1>3, <1>5, ConcatProperties
  <2>2. r <= q /\ r \in Nat /\ q \in Nat /\ q <= Len(srvSent)
    BY <1>1, <1>2, <1>3, <1>5, <2>1
  <2>3. CASE r = q
    BY <1>1, <1>2, <1>5, <2>3, Zenon
  <2>4. CASE r # q
    <3>1. q \in (Len(returned) + 1)..Len(srvSent)
      BY <1>1, <2>2, <2>4
    <3>2. ToClient!Receive
      BY <1>2, <1>5, <3>1, Zenon DEF ToClient!Receive
    <3> QED
      BY <3>2 DEF ToClient!Next
  <2> QED
    BY <2>3, <2>4
<1>6. ASSUME NEW d \in Seq(Nat), NEW n \in Nat, HandOut(d, n), srvSent' = srvSent
      PROVE  [ToClient!Next]_<<srvSent, returned>>
  <2>1. SubSeq(d, 1, Min2(n, Len(d))) \in Seq(Nat)
    <3>1. Min2(n, Len(d)) \in Nat /\ Min2(n, Len(d)) <= Len(d) /\ Len(d) \in Nat
      BY DEF Min2
    <3> QED
      BY <3>1
  <2>2. returned' = returned \o SubSeq(d, 1, Min2(n, Len(d)))
    BY <1>6 DEF HandOut
  <2> QED
    BY <1>5, <1>6, <2>1, <2>2
<1>7. CASE UNCHANGED <<srvSent, returned>>
  BY <1>7
<1>8. ASSUME NEW n \in BufSizes, ReadBuffered(n)
      PROVE  [ToClient!Next]_<<srvSent, returned>>
  <2>1. n \in Nat
    BY StreamAssumption
  <2>2. readBuffer \in Seq(Nat)
    <3>1. PICK ends, w, x : HandedOut(x, w, ends)
      BY ClientParts
    <3>2. reader.pc # "dropped"
      BY <1>8 DEF ReadBuffered
    <3>3. Part(readBuffer, srvSent, x, ends[w])
      BY <3>1, <3>2 DEF HandedOut
    <3> QED
      BY <3>3, PartBounds
  <2>3. HandOut(readBuffer, n) /\ srvSent' = srvSent
    BY <1>8 DEF ReadBuffered, nvars
  <2> QED
    BY <1>6, <2>1, <2>2, <2>3
<1>9. CASE GotPayload
  <2>1. /\ reader.pc = "reading" /\ reader.stage = "payload" /\ Len(reader.pieces) = Width
        /\ srvSent' = srvSent
    BY <1>9 DEF GotPayload, Whole, nvars
  <2>2. Opens(reader.pieces) /\ reader.pieces[1][1] = decNonce + 2 /\ ReaderTypes
        /\ units[decNonce + 2].data \in Seq(Nat)
    <3>1. "payload" # "salt"
      OBVIOUS
    <3>2. /\ Opens(reader.pieces) /\ reader.pieces[1][1] = decNonce + 2 /\ ReaderTypes
          /\ \E ends : Part(units[decNonce + 2].data, srvSent, ends[decNonce + 1], ends[decNonce + 2])
      BY <2>1, <3>1, ItOpens, Zenon
    <3> QED
      BY <3>2, PartBounds, Zenon
  <2>3. HandOut(units[decNonce + 2].data, reader.n)
    BY <1>9, <2>2, Zenon DEF GotPayload
  <2>4. reader.n \in Nat
    BY <2>2, ReaderFacts
  <2> QED
    BY <1>6, <2>1, <2>2, <2>3, <2>4
<1>10. CASE \/ \E n \in 1..MaxBytes : Write([i \in 1..n |-> Len(accepted) + i])
            \/ WriteChunk \/ WriteFails \/ ServerReads \/ Deliver \/ Close
  BY <1>10, <1>7 DEF Write, WriteChunk, WriteFails, ServerReads, Deliver, Close, nvars, rvars
<1>11. CASE \/ \E n \in BufSizes : Read(n)
            \/ Take \/ GotSalt \/ GotLength \/ EndOfStream
            \/ CancelRead \/ PollRead \/ PollWrite
  BY <1>11, <1>7 DEF Read, Take, GotSalt, GotLength, EndOfStream,
    CancelRead, PollRead, PollWrite, nvars
<1>12. CASE UNCHANGED vars
  BY <1>12, <1>7 DEF vars, nvars, rvars
<1> QED
  BY <1>4, <1>8, <1>9, <1>10, <1>11, <1>12, Zenon DEF Next, ToClient!Next

(* mod.rs, read and read_chunk: what read() has returned are the first of the  *)
(* bytes that the server has sent, in order and without a gap.                 *)
THEOREM ReadsReturnInOrder == Spec => ClientReadsInOrder
<1>1. Init => ToClient!Init
  BY DEF Init, ToClient!Init
<1>2. ClientInv /\ ClientInv' /\ [Next]_vars => [ToClient!Next]_<<srvSent, returned>>
  BY ClientLineStep
<1> QED
  BY <1>1, <1>2, InitNonceInv, NextNonceInv, InitClientInv, NextClientInv, PTL
    DEF Spec, ClientReadsInOrder, ToClient!Spec

LEMMA PartOfFront ==
  ASSUME NEW s \in Seq(Nat), NEW n \in Nat, n <= Len(s)
  PROVE  Part(SubSeq(s, 1, n), s, 0, n)
<1>1. /\ SubSeq(s, 1, n) \in Seq(Nat) /\ Len(SubSeq(s, 1, n)) = n
      /\ \A i \in 1..n : SubSeq(s, 1, n)[i] = s[i]
  OBVIOUS
<1> QED
  BY <1>1 DEF Part

(* Pieces that follow one another, put together. *)
LEMMA FlattenIs ==
  ASSUME NEW n \in Nat \ {0}, NEW ps \in Seq(Seq(Nat)), NEW s \in Seq(Nat), NEW at,
         Len(ps) = n, at[0] = 0,
         \A i \in 1..n : Part(ps[i], s, at[i - 1], at[i])
  PROVE  Part(FlattenSeq(ps), s, 0, at[n])
<1> DEFINE flatten[i \in 1..n] == IF i = 1 THEN ps[i] ELSE flatten[i - 1] \o ps[i]
           front == [i \in 1..n |-> SubSeq(s, 1, at[i])]
           bad == {i \in 1..n : ~Part(flatten[i], s, 0, at[i])}
<1>1. FlattenSeq(ps) = flatten[n]
  BY DEF FlattenSeq
<1>2. \A i \in 1..n : Part(front[i], s, 0, at[i])
  <2> SUFFICES ASSUME NEW i \in 1..n PROVE Part(front[i], s, 0, at[i])
    OBVIOUS
  <2>1. Part(ps[i], s, at[i - 1], at[i])
    BY Zenon
  <2>2. at[i] \in Nat /\ at[i] <= Len(s)
    <3> HIDE DEF flatten, front
    <3> QED
      BY <2>1, PartBounds, SMTT(20)
  <2> QED
    BY <2>2, PartOfFront
<1>3. ASSUME NEW i \in 1..n PROVE front[i] = IF i = 1 THEN ps[i] ELSE front[i - 1] \o ps[i]
  <2>1. Part(ps[i], s, at[i - 1], at[i]) /\ Part(front[i], s, 0, at[i])
    BY <1>2
  <2> HIDE DEF front
  <2>2. CASE i = 1
    <3>1. Part(ps[i], s, 0, at[i])
      BY <2>1, <2>2
    <3>2. front[i] = ps[i]
      BY <2>1, <3>1, PartUnique
    <3> QED
      BY <2>2, <3>2
  <2>3. CASE i # 1
    <3>1. i - 1 \in 1..n
      BY <2>3
    <3>2. Part(front[i - 1] \o ps[i], s, 0, at[i])
      BY <1>2, <2>1, <3>1, PartJoin
    <3>3. front[i] = front[i - 1] \o ps[i]
      BY <2>1, <3>2, PartUnique
    <3> QED
      BY <2>3, <3>3
  <2> QED
    BY <2>2, <2>3
<1>4. front = [i \in 1..n |-> IF i = 1 THEN ps[i] ELSE front[i - 1] \o ps[i]]
  BY <1>3
<1>5. flatten = [i \in 1..n |-> IF i = 1 THEN ps[i] ELSE flatten[i - 1] \o ps[i]]
  BY <1>4
<1> HIDE DEF flatten, front
<1>6. \A i \in 1..n : flatten[i] = IF i = 1 THEN ps[i] ELSE flatten[i - 1] \o ps[i]
  BY <1>5
<1>7. bad = {}
  <2> SUFFICES ASSUME bad # {} PROVE FALSE
    OBVIOUS
  <2>1. bad \in SUBSET (0 .. n)
    OBVIOUS
  <2> DEFINE m == Min(bad)
  <2>2. m \in bad /\ \A y \in bad : m <= y
    <3> HIDE DEF bad
    <3> QED
      BY <2>1, MinIs
  <2>3. m \in 1..n /\ ~Part(flatten[m], s, 0, at[m])
    BY <2>2
  <2>4. Part(ps[m], s, at[m - 1], at[m])
    BY <2>3
  <2> HIDE DEF m
  <2>5. CASE m = 1
    <3>1. flatten[m] = ps[m] /\ at[m - 1] = 0
      BY <1>6, <2>3, <2>5
    <3> QED
      BY <2>3, <2>4, <3>1
  <2>6. CASE m # 1
    <3>1. m - 1 \in 1..n /\ ~(m <= m - 1)
      BY <2>3, <2>6
    <3>2. Part(flatten[m - 1], s, 0, at[m - 1])
      BY <2>2, <3>1
    <3>3. flatten[m] = flatten[m - 1] \o ps[m]
      BY <1>6, <2>3, <2>6
    <3> QED
      BY <2>3, <2>4, <3>2, <3>3, PartJoin
  <2> QED
    BY <2>5, <2>6
<1>8. Part(flatten[n], s, 0, at[n])
  <2>1. n \in 1..n
    OBVIOUS
  <2> QED
    BY <1>7, <2>1, Zenon
<1> QED
  BY <1>1, <1>8

LEMMA FlattenEmpty ==
  ASSUME NEW ps \in Seq(Seq(Nat)), Len(ps) = 0
  PROVE  FlattenSeq(ps) = <<>>
<1>1. FlattenSeq(ps) = ps
  BY DEF FlattenSeq
<1> QED
  BY <1>1

\* The payloads of the first c chunks are what has been sent up to their end.
LEMMA ChunksAre ==
  ASSUME NEW s, NEW us, NEW ends, SentLine(s, us, ends), NEW c \in Nat, 2 * c + 1 <= Len(us)
  PROVE  Part(FlattenSeq([i \in 1..c |-> us[2 * i + 1].data]), s, 0, ends[2 * c + 1])
<1> DEFINE ps == [i \in 1..c |-> us[2 * i + 1].data]
           at == [i \in 0..c |-> ends[2 * i + 1]]
<1>1. /\ us \in Seq(Units) /\ Len(us) \in Nat /\ ends[0] = 0 /\ us[1].data = <<>>
      /\ \A i \in 1..Len(us) : Part(us[i].data, s, ends[i - 1], ends[i])
      /\ \A i \in 2..Len(us) : us[i].nonce = i - 2 /\ (i % 2 = 0 => us[i].data = <<>>)
  BY SentFacts
<1>2. s \in Seq(Nat) /\ ends[1] = 0 /\ ends[1] \in Nat
  <2>1. 1 \in 1..Len(us) /\ 1 - 1 = 0
    BY <1>1
  <2>2. Part(<<>>, s, ends[0], ends[1])
    BY <1>1, <2>1, Zenon
  <2> QED
    BY <1>1, <2>2, PartBounds
<1>3. \A i \in 1..c : ps[i] \in Seq(Nat)
  <2> SUFFICES ASSUME NEW i \in 1..c PROVE us[2 * i + 1].data \in Seq(Nat)
    OBVIOUS
  <2>1. 2 * i + 1 \in 1..Len(us)
    BY <1>1
  <2>2. Part(us[2 * i + 1].data, s, ends[(2 * i + 1) - 1], ends[2 * i + 1])
    BY <1>1, <2>1, Zenon
  <2> QED
    BY <2>2, PartBounds
<1>4. ps \in Seq(Seq(Nat)) /\ Len(ps) = c
  BY <1>3
<1>5. at[0] = 0 /\ at[c] = ends[2 * c + 1]
  BY <1>2
<1>6. ASSUME NEW i \in 1..c PROVE Part(ps[i], s, at[i - 1], at[i])
  <2> DEFINE k == 2 * i
  <2>1. /\ k \in 2..Len(us) /\ k \in 1..Len(us) /\ k + 1 \in 1..Len(us) /\ k % 2 = 0
        /\ (k + 1) - 1 = k /\ k - 1 = 2 * (i - 1) + 1 /\ i - 1 \in 0..c /\ i \in 0..c
    BY <1>1
  <2>2. ps[i] = us[k + 1].data /\ at[i] = ends[k + 1] /\ at[i - 1] = ends[2 * (i - 1) + 1]
    BY <2>1
  <2> HIDE DEF k, ps, at
  <2>3. Part(<<>>, s, ends[k - 1], ends[k])
    BY <1>1, <2>1, Zenon
  <2>4. ends[k - 1] = ends[k]
    BY <2>3, PartBounds
  <2>5. Part(us[k + 1].data, s, ends[k], ends[k + 1])
    BY <1>1, <2>1, Zenon
  <2> QED
    BY <2>1, <2>2, <2>4, <2>5, Zenon
<1> HIDE DEF ps, at
<1>7. CASE c = 0
  <2>1. FlattenSeq(ps) = <<>>
    BY <1>4, <1>7, FlattenEmpty
  <2>2. Part(<<>>, s, 0, 0)
    BY <1>2, PartEmpty
  <2> QED
    BY <1>5, <1>7, <2>1, <2>2 DEF ps
<1>8. CASE c # 0
  <2>1. Part(FlattenSeq(ps), s, 0, at[c])
    BY <1>2, <1>4, <1>5, <1>6, <1>8, FlattenIs
  <2> QED
    BY <1>5, <2>1 DEF ps
<1> QED
  BY <1>7, <1>8

\* Between two reads the reader has taken w units, or has lost a piece of the next.
LEMMA UnitsTaken ==
  ASSUME ReaderTypes, NEW w \in Nat, AtUnit(w), Len(reader.pieces) < Width
  PROVE  (taken - Len(reader.pieces)) \div Width = w
<1>1. taken \in Nat /\ Len(reader.pieces) \in Nat
  BY ReaderFacts
<1>2. PICK t \in Nat, l \in Nat : t = taken /\ l = Len(reader.pieces)
  BY <1>1
<1>3. t = 2 * w + l \/ (l = 0 /\ t = 2 * w + 1)
  <2>1. reader.pieces = <<>> => Len(reader.pieces) = 0
    OBVIOUS
  <2> QED
    BY <1>2, <2>1 DEF AtUnit, Width
<1>4. (t - l) \div 2 = w
  BY <1>3
<1> QED
  BY <1>2, <1>4 DEF Width

(* mod.rs, read, read_chunk and init_decryptor: at the end of the stream every *)
(* chunk that arrived whole has been handed out, and the decryptor's nonce is  *)
(* in step with the units that have been taken.                                *)
THEOREM NothingIsLost == Spec => []NothingIsSkipped
<1>1. ClientInv => NothingIsSkipped
  <2> SUFFICES ASSUME ClientInv, reader.pc # "dropped"
      PROVE  /\ reader.pc = "ready" /\ readBuffer = <<>> /\ ~open /\ taken = arrived
                  => LET chunks == (arrived \div Width - 1) \div 2
                     IN  arrived > Width =>
                           returned = FlattenSeq([i \in 1..chunks |-> units[2 * i + 1].data])
             /\ key # <<>> /\ Len(reader.pieces) < Width =>
                  decNonce = (taken - Len(reader.pieces)) \div Width - 1
    BY Zenon DEF NothingIsSkipped
  <2>1. PICK ends, w, r : /\ w \in 0..Len(units) /\ SentLine(srvSent, units, ends)
                          /\ ReaderInv(w) /\ HandedOut(r, w, ends) /\ ReaderTypes
    BY ClientParts
  <2>2. AtUnit(w) /\ InStep(w)
    BY <2>1 DEF ReaderInv
  <2>3. Len(units) \in Nat /\ w \in Nat /\ w <= Len(units) /\ decNonce \in Nat
    BY <2>1, SentFacts, ReaderFacts
  <2>4. Part(returned, srvSent, 0, r) /\ Part(readBuffer, srvSent, r, ends[w])
    BY <2>1 DEF HandedOut
  <2>5. ASSUME key # <<>>, Len(reader.pieces) < Width
        PROVE  decNonce = (taken - Len(reader.pieces)) \div Width - 1
    <3>1. w = decNonce + 1
      BY <2>2, <2>5 DEF InStep
    <3>2. (taken - Len(reader.pieces)) \div Width = w
      BY <2>1, <2>2, <2>3, <2>5, UnitsTaken
    <3> QED
      BY <2>3, <3>1, <3>2
  <2>6. ASSUME reader.pc = "ready", readBuffer = <<>>, ~open, taken = arrived, arrived > Width
        PROVE  returned = FlattenSeq([i \in 1..((arrived \div Width - 1) \div 2) |-> units[2 * i + 1].data])
    <3>1. reader.pieces = <<>> /\ Len(reader.pieces) = 0 /\ Len(reader.pieces) < Width
      BY <2>1, <2>6 DEF ReaderInv, Width
    <3>2. arrived \div Width = w
      <4>1. (taken - Len(reader.pieces)) \div Width = w
        BY <2>1, <2>2, <2>3, <3>1, UnitsTaken
      <4>2. taken - 0 = taken
        BY <2>1, ReaderFacts
      <4> QED
        BY <2>6, <3>1, <4>1, <4>2
    <3>3. w >= 1
      <4>1. arrived \in Nat /\ arrived > 2
        BY <2>1, <2>6, ReaderFacts DEF Width
      <4>2. arrived \div 2 = w
        BY <3>2 DEF Width
      <4> QED
        BY <4>1, <4>2
    <3>4. PICK c \in Nat : c = (w - 1) \div 2 /\ (w = 2 * c + 1 \/ w = 2 * c + 2)
      BY <2>3, <3>3
    <3>5. 2 * c + 1 <= Len(units) /\ 2 * c + 1 \in Nat
      BY <2>3, <3>4
    <3>6. Part(FlattenSeq([i \in 1..c |-> units[2 * i + 1].data]), srvSent, 0, ends[2 * c + 1])
      BY <2>1, <3>5, ChunksAre
    <3>7. ends[w] = ends[2 * c + 1]
      <4>1. CASE w = 2 * c + 1
        BY <4>1
      <4>2. CASE w = 2 * c + 2
        <5>1. w \in 2..Len(units) /\ w \in 1..Len(units) /\ w % 2 = 0 /\ w - 1 = 2 * c + 1
          BY <2>3, <4>2
        <5>2. Part(<<>>, srvSent, ends[w - 1], ends[w])
          BY <2>1, <5>1, SentFacts, Zenon
        <5> QED
          BY <5>1, <5>2, PartBounds
      <4> QED
        BY <3>4, <4>1, <4>2
    <3>8. r = ends[w]
      BY <2>4, <2>6, PartBounds
    <3>9. returned = FlattenSeq([i \in 1..c |-> units[2 * i + 1].data])
      BY <2>4, <3>6, <3>7, <3>8, PartUnique
    <3> QED
      BY <3>2, <3>4, <3>9, Zenon
  <2> QED
    BY <2>5, <2>6
<1> QED
  BY <1>1, InitNonceInv, NextNonceInv, InitClientInv, NextClientInv, PTL DEF Spec

-----------------------------------------------------------------------------
(* Types. *)

\* No unit behind the target is longer than its length can say.
ChunkInv ==
  /\ encNonce >= 2
  /\ \A i \in 1..Len(toServer) :
       toServer[i].nonce > 1 => toServer[i].length \in 0..MaxChunk /\ Len(toServer[i].data) <= MaxChunk

LEMMA InitChunkInv == Init => ChunkInv
<1> SUFFICES ASSUME Init PROVE ChunkInv
  OBVIOUS
<1>1. Encode(Target) \in Seq(Nat)
  BY StreamAssumption, DecodeFindsWhatWasEncoded
<1>2. /\ Len(toServer) = 2 /\ toServer[1].nonce = 0 /\ toServer[2].nonce = 0 + 1 /\ encNonce = 2
  BY <1>1, SealedUnits DEF Init
<1>3. ASSUME NEW i \in 1..Len(toServer) PROVE ~(toServer[i].nonce > 1)
  <2>1. i = 1 \/ i = 2
    BY <1>2
  <2> QED
    BY <1>2, <2>1
<1> QED
  BY <1>2, <1>3 DEF ChunkInv

LEMMA NextChunkInv == NonceInv /\ ChunkInv /\ [Next]_vars => ChunkInv'
<1> SUFFICES ASSUME NonceInv, ChunkInv, [Next]_vars PROVE ChunkInv'
  OBVIOUS
<1>0. encNonce \in Nat /\ encNonce >= 2 /\ toServer \in Seq(Units) /\ Len(toServer) \in Nat
  BY NonceFacts DEF ChunkInv
<1>1. CASE WriteChunk
  <2>1. /\ unsent # <<>> /\ toServer' = toServer \o Sealed(encNonce, ChunkOf)
        /\ encNonce' = encNonce + 2
    BY <1>1 DEF WriteChunk, NextNonce
  <2>2. ChunkOf \in Seq(Nat) /\ Len(ChunkOf) \in 0..MaxChunk /\ MaxChunk \in Nat
    <3>1. unsent \in Seq(Nat)
      BY NonceFacts
    <3>2. PICK m \in Nat : m <= MaxChunk /\ Len(ChunkOf) = m
      BY <2>1, <3>1, ChunkFacts
    <3> QED
      BY <3>1, <3>2, ChunkTypes, StreamAssumption
  <2> DEFINE c == ChunkOf
             sealed == Sealed(encNonce, c)
  <2>3. /\ sealed \in Seq(Units) /\ Len(sealed) = 2
    BY <1>0, <2>2, SealedUnits
  <2>4. /\ sealed[1].length = Len(c) /\ sealed[1].data = <<>> /\ sealed[2].length = 0
        /\ sealed[2].data = c
    <3> HIDE DEF c
    <3> QED
      BY DEF Sealed
  <2> HIDE DEF sealed
  <2>5. /\ Len(toServer') = Len(toServer) + 2
        /\ \A i \in 1..Len(toServer) : toServer'[i] = toServer[i]
        /\ toServer'[Len(toServer) + 1] = sealed[1]
        /\ toServer'[Len(toServer) + 2] = sealed[2]
    BY <1>0, <2>1, <2>3, AppendTwo DEF sealed
  <2>6. ASSUME NEW i \in 1..Len(toServer'), toServer'[i].nonce > 1
        PROVE  toServer'[i].length \in 0..MaxChunk /\ Len(toServer'[i].data) <= MaxChunk
    <3>1. CASE i \in 1..Len(toServer)
      BY <2>5, <2>6, <3>1 DEF ChunkInv
    <3>2. CASE i = Len(toServer) + 1
      <4>1. Len(<<>>) <= MaxChunk
        BY <2>2
      <4> QED
        BY <2>2, <2>4, <2>5, <3>2, <4>1, Zenon
    <3>3. CASE i = Len(toServer) + 2
      <4>1. 0 \in 0..MaxChunk /\ Len(c) <= MaxChunk
        BY <2>2
      <4> QED
        BY <2>4, <2>5, <3>3, <4>1, Zenon
    <3>4. i \in 1..Len(toServer) \/ i = Len(toServer) + 1 \/ i = Len(toServer) + 2
      BY <1>0, <2>5
    <3> QED
      BY <3>1, <3>2, <3>3, <3>4, Zenon
  <2>7. encNonce' >= 2
    BY <1>0, <2>1
  <2> QED
    BY <2>6, <2>7, Zenon DEF ChunkInv
<1>2. CASE ServerReads
  <2>1. toServer # <<>> /\ toServer' = Tail(toServer) /\ encNonce' = encNonce
    BY <1>2 DEF ServerReads
  <2>2. /\ Len(toServer') = Len(toServer) - 1
        /\ \A i \in 1..Len(toServer') : i + 1 \in 1..Len(toServer) /\ toServer'[i] = toServer[i + 1]
    BY <1>0, <2>1
  <2> QED
    BY <2>1, <2>2, Zenon DEF ChunkInv
<1>3. CASE WriteFails
  <2>1. toServer' = toServer /\ encNonce' = encNonce + 2
    BY <1>3 DEF WriteFails, NextNonce
  <2>2. encNonce' >= 2
    BY <1>0, <2>1
  <2> QED
    BY <2>1, <2>2, Zenon DEF ChunkInv
<1>4. CASE UNCHANGED <<toServer, encNonce>>
  BY <1>4, Zenon DEF ChunkInv
<1>5. CASE \/ \E n \in 1..MaxBytes : Write([i \in 1..n |-> Len(accepted) + i])
           \/ \E n \in 1..MaxChunk : ServerSends([i \in 1..n |-> Len(srvSent) + i])
           \/ Deliver \/ Close
  BY <1>5, <1>4 DEF Write, ServerSends, Deliver, Close, wvars
<1>6. CASE \/ \E n \in BufSizes : ReadBuffered(n) \/ Read(n)
           \/ Take \/ GotSalt \/ GotLength \/ GotPayload \/ EndOfStream
           \/ CancelRead \/ PollRead \/ PollWrite
  BY <1>6, <1>4 DEF ReadBuffered, Read, Take, GotSalt, GotLength, GotPayload, EndOfStream,
    CancelRead, PollRead, PollWrite, wvars
<1>7. CASE UNCHANGED vars
  BY <1>7, <1>4 DEF vars, wvars
<1> QED
  BY <1>1, <1>2, <1>3, <1>5, <1>6, <1>7 DEF Next

(* The client's end keeps its types: no chunk behind the target is longer than *)
(* MAX_CHUNK_SIZE, and a read() takes no more than has arrived.                *)
THEOREM TypeCorrect == Spec => []TypeOK
<1>1. NonceInv /\ ChunkInv /\ ClientInv => TypeOK
  <2> SUFFICES ASSUME NonceInv, ChunkInv, ClientInv PROVE TypeOK
    OBVIOUS
  <2>1. ASSUME NEW u \in ToSet(toServer)
        PROVE  /\ u.nonce \in Nat
               /\ u.nonce > 1 => u.length \in 0..MaxChunk /\ Len(u.data) <= MaxChunk
    <3>1. PICK i \in 1..Len(toServer) : u = toServer[i]
      <4>1. toServer \in Seq(Units)
        BY NonceFacts
      <4> QED
        BY <4>1 DEF ToSet
    <3>2. u.nonce \in Nat
      BY <3>1, NonceFacts
    <3> QED
      BY <3>1, <3>2, Zenon DEF ChunkInv
  <2>2. ReaderTypes
    BY ClientParts
  <2>3. reader.stage \in {"none", "salt", "length", "payload"} /\ Len(reader.pieces) <= Width
        /\ taken <= arrived /\ arrived <= Width * Len(units)
    BY <2>2, ReaderFacts DEF Width
  <2> QED
    BY <2>1, <2>3, Zenon DEF TypeOK
<1> QED
  BY <1>1, InitNonceInv, NextNonceInv, InitChunkInv, NextChunkInv, InitClientInv, NextClientInv,
    PTL DEF Spec
=============================================================================
