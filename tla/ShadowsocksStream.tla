-------------------------- MODULE ShadowsocksStream --------------------------
(***************************************************************************)
(* A Shadowsocks connection (src/src/outbound/shadowsocks): the client     *)
(* sends a salt and the encrypted target, then each direction is a         *)
(* sequence of chunks, an encrypted length and an encrypted payload, each  *)
(* sealed with the next nonce of its direction.                            *)
(*                                                                         *)
(* The cipher is what it promises: a sealed unit opens under the salt and  *)
(* nonce it was sealed with, if it is whole, and under no other.  A unit   *)
(* is cut into two pieces, for TCP delivers bytes in portions and closes   *)
(* between any two.  Of the bytes only those of the target have a meaning. *)
(***************************************************************************)
EXTENDS Address, SequencesExt

CONSTANTS
  MaxChunk,   \* 0x3FFF
  MaxBytes,   \* bound on the bytes of each direction
  BufSizes,   \* sizes of the buffers that read() is called with
  Target      \* where the client wants to go

VARIABLES
  \* client to server
  accepted,   \* bytes given to write_all()
  unsent,     \* those of a write_all() in progress that are not encrypted yet
  encNonce,   \* AeadEncryptor.nonce_counter
  toServer,   \* units on their way: [nonce, length, data]
  srvNonce,   \* the server's side of the counter
  srvRead,    \* what the server has decrypted: the target, then the bytes
  \* server to client
  srvSent,    \* bytes the server has sent
  units,      \* units it has sent, the salt first
  arrived,    \* pieces of them that have reached the client
  taken,      \* pieces the client has taken from its socket
  open,       \* FALSE: the connection was closed, nothing more arrives
  \* the client's reading
  reader,     \* the read() in progress: [pc, n, stage, pieces]
  key,        \* the salt the decryptor was made with, or <<>> for None
  decNonce,   \* AeadDecryptor.nonce_counter
  readBuffer, \* decrypted bytes that did not fit
  returned    \* bytes read() has returned

wvars == <<accepted, unsent, encNonce, toServer, srvNonce, srvRead>>
nvars == <<srvSent, units, arrived, open>>
rvars == <<taken, reader, key, decNonce, readBuffer, returned>>
vars == <<wvars, nvars, rvars>>

ASSUME StreamAssumption ==
  MaxChunk \in Nat \ {0} /\ BufSizes \subseteq Nat \ {0} /\ Target \in Addresses

Width == 2
Pieces(u) == [i \in 1..Width |-> <<u, i>>]
Salt == Pieces(1)

Ready == [pc |-> "ready", n |-> 0, stage |-> "none", pieces |-> <<>>]

\* encrypt_payload(): two units, two nonces.
Sealed(nonce, payload) ==
  << [nonce |-> nonce, length |-> Len(payload), data |-> <<>>],
     [nonce |-> nonce + 1, length |-> 0, data |-> payload] >>

\* ShadowsocksStream::new(): the salt and the target, in one chunk.
Init ==
  /\ accepted = <<>> /\ unsent = <<>>
  /\ encNonce = 2 /\ toServer = Sealed(0, Encode(Target))
  /\ srvNonce = 0 /\ srvRead = <<>>
  /\ srvSent = <<>> /\ units = << [nonce |-> 0, length |-> 0, data |-> <<>>] >>
  /\ arrived = 0 /\ taken = 0 /\ open = TRUE
  /\ reader = Ready /\ key = <<>> /\ decNonce = 0
  /\ readBuffer = <<>> /\ returned = <<>>

-----------------------------------------------------------------------------
(* Writing. *)

\* write_all(): the data is split into chunks that a length field can name.
Write(d) ==
  /\ reader.pc # "dropped" /\ unsent = <<>> /\ Len(accepted) + Len(d) <= MaxBytes
  /\ accepted' = accepted \o d /\ unsent' = d
  /\ UNCHANGED <<encNonce, toServer, srvNonce, srvRead, nvars, rvars>>

\* Mutant: one nonce serves both units of a chunk.
NextNonceOnce == encNonce + 1

NextNonce == encNonce + 2

\* Mutant: what is left after the full chunks is dropped.
ChunkOfFull == IF Len(unsent) < MaxChunk THEN <<>> ELSE SubSeq(unsent, 1, MaxChunk)

\* Mutant: a write is one chunk, whatever its size.
ChunkOfAll == unsent

\* [T]::chunks(MAX_CHUNK_SIZE)
ChunkOf == SubSeq(unsent, 1, IF Len(unsent) < MaxChunk THEN Len(unsent) ELSE MaxChunk)

WriteChunk ==
  /\ unsent # <<>> /\ open
  /\ unsent' = IF ChunkOf = <<>> THEN <<>> ELSE SubSeq(unsent, Len(ChunkOf) + 1, Len(unsent))
  /\ toServer' = toServer \o Sealed(encNonce, ChunkOf)
  /\ encNonce' = NextNonce
  /\ UNCHANGED <<accepted, srvNonce, srvRead, nvars, rvars>>

\* The socket refuses the chunk: the nonces are used up, the rest is not sent.
WriteFails ==
  /\ unsent # <<>> /\ ~open
  /\ unsent' = <<>>
  /\ encNonce' = NextNonce
  /\ UNCHANGED <<accepted, toServer, srvNonce, srvRead, nvars, rvars>>

\* The server opens the units it gets with its own counter.
ServerReads ==
  /\ toServer # <<>>
  /\ LET u == Head(toServer)
     IN  /\ u.nonce = srvNonce
         /\ srvRead' = srvRead \o u.data
  /\ srvNonce' = srvNonce + 1
  /\ toServer' = Tail(toServer)
  /\ UNCHANGED <<accepted, unsent, encNonce, nvars, rvars>>

-----------------------------------------------------------------------------
(* The server, and the network. *)

ServerSends(d) ==
  /\ open /\ srvRead # <<>> /\ Len(srvSent) + Len(d) <= MaxBytes
  /\ srvSent' = srvSent \o d
  /\ units' = units \o Sealed(Len(units) - 1, d)
  /\ UNCHANGED <<arrived, open, wvars, rvars>>

Deliver ==
  /\ open /\ arrived < Width * Len(units)
  /\ arrived' = arrived + 1
  /\ UNCHANGED <<srvSent, units, open, wvars, rvars>>

Close ==
  /\ open' = FALSE /\ open
  /\ UNCHANGED <<srvSent, units, arrived, wvars, rvars>>

-----------------------------------------------------------------------------
(* Reading. *)

Piece(k) == << (k + Width - 1) \div Width, ((k - 1) % Width) + 1 >>

\* decrypt() of a unit succeeds.
Opens(p) ==
  LET u == p[1][1]
  IN  key = Salt /\ p = Pieces(u) /\ u > 1 /\ units[u].nonce = decNonce

Min2(a, b) == IF a < b THEN a ELSE b

\* Mutant: the rest is not kept.
HandOutOnly(d, n) ==
  /\ returned' = returned \o SubSeq(d, 1, Min2(n, Len(d)))
  /\ readBuffer' = <<>>

\* Bytes that read() hands out of d; the rest is kept for the next call.
HandOut(d, n) ==
  /\ returned' = returned \o SubSeq(d, 1, Min2(n, Len(d)))
  /\ readBuffer' = SubSeq(d, Min2(n, Len(d)) + 1, Len(d))

\* read(): buffered bytes first, otherwise a chunk is read.  poll_read() finds
\* the buffered bytes in the same way.
ReadBuffered(n) ==
  /\ reader.pc = "ready" /\ readBuffer # <<>>
  /\ HandOut(readBuffer, n)
  /\ UNCHANGED <<taken, reader, key, decNonce, wvars, nvars>>

\* Mutant: every read() makes a decryptor of its own.
ReadFromSalt(n) ==
  /\ reader.pc = "ready" /\ readBuffer = <<>>
  /\ reader' = [pc |-> "reading", n |-> n, stage |-> "salt", pieces |-> <<>>]
  /\ UNCHANGED <<taken, key, decNonce, readBuffer, returned, wvars, nvars>>

Read(n) ==
  /\ reader.pc = "ready" /\ readBuffer = <<>>
  /\ reader' = [pc |-> "reading", n |-> n,
                stage |-> IF key = <<>> THEN "salt" ELSE "length", pieces |-> <<>>]
  /\ UNCHANGED <<taken, key, decNonce, readBuffer, returned, wvars, nvars>>

\* read_exact() takes what is there.
Take ==
  /\ reader.pc = "reading" /\ Len(reader.pieces) < Width /\ taken < arrived
  /\ taken' = taken + 1
  /\ reader' = [reader EXCEPT !.pieces = Append(@, Piece(taken + 1))]
  /\ UNCHANGED <<key, decNonce, readBuffer, returned, wvars, nvars>>

Whole(stage) ==
  reader.pc = "reading" /\ reader.stage = stage /\ Len(reader.pieces) = Width
Await(stage) ==
  reader' = [pc |-> "reading", n |-> reader.n, stage |-> stage, pieces |-> <<>>]

\* init_decryptor()
GotSalt ==
  /\ Whole("salt")
  /\ key' = reader.pieces /\ decNonce' = 0
  /\ Await("length")
  /\ UNCHANGED <<taken, readBuffer, returned, wvars, nvars>>

GotLength ==
  /\ Whole("length")
  /\ decNonce' = decNonce + 1
  /\ IF Opens(reader.pieces) THEN Await("payload") ELSE reader' = Ready
  /\ UNCHANGED <<taken, key, readBuffer, returned, wvars, nvars>>

\* The payload is handed out as far as the buffer goes.
GotPayload ==
  /\ Whole("payload")
  /\ decNonce' = decNonce + 1
  /\ reader' = Ready
  /\ IF Opens(reader.pieces) THEN HandOut(units[reader.pieces[1][1]].data, reader.n)
     ELSE UNCHANGED <<readBuffer, returned>>
  /\ UNCHANGED <<taken, key, wvars, nvars>>

\* Mutant: read() keeps waiting at the end of the stream.
EndOfStreamNever == FALSE

\* UnexpectedEof, at the end or in the middle of a chunk: read() returns 0.
EndOfStream ==
  /\ reader.pc = "reading" /\ Len(reader.pieces) < Width
  /\ ~open /\ taken = arrived
  /\ reader' = Ready
  /\ UNCHANGED <<taken, key, decNonce, readBuffer, returned, wvars, nvars>>

Drop == [Ready EXCEPT !.pc = "dropped"]

\* health_check() gives up a read() that takes too long, and the stream with
\* it: what the read() had taken cannot be put back.
CancelRead ==
  /\ reader.pc = "reading"
  /\ reader' = Drop
  /\ UNCHANGED <<taken, key, decNonce, readBuffer, returned, wvars, nvars>>

\* AsyncRead::poll_read(), as copy_bidirectional() calls it: bytes of the
\* socket are taken and refused with an error, and the relay ends.
PollRead ==
  /\ reader.pc = "ready" /\ readBuffer = <<>> /\ taken < arrived
  /\ \E k \in (taken + 1)..arrived : taken' = k
  /\ reader' = Drop
  /\ UNCHANGED <<key, decNonce, readBuffer, returned, wvars, nvars>>

\* AsyncWrite::poll_write() is an error whatever it is given.
PollWrite ==
  /\ reader.pc = "ready"
  /\ reader' = Drop
  /\ UNCHANGED <<taken, key, decNonce, readBuffer, returned, wvars, nvars>>

Next ==
  \/ \E n \in 1..MaxBytes : Write([i \in 1..n |-> Len(accepted) + i])
  \/ WriteChunk \/ WriteFails
  \/ ServerReads
  \/ \E n \in 1..MaxChunk : ServerSends([i \in 1..n |-> Len(srvSent) + i])
  \/ Deliver
  \/ Close
  \/ \E n \in BufSizes : ReadBuffered(n) \/ Read(n)
  \/ Take \/ GotSalt \/ GotLength \/ GotPayload \/ EndOfStream
  \/ CancelRead \/ PollRead \/ PollWrite

ReadStep == Take \/ GotSalt \/ GotLength \/ GotPayload \/ EndOfStream

Spec == Init /\ [][Next]_vars
FairSpec == Spec /\ WF_vars(ReadStep) /\ WF_vars(WriteChunk \/ WriteFails) /\ WF_vars(Deliver)

-----------------------------------------------------------------------------
(* Properties *)

\* Type invariant of the client's end.  The target is sent in one chunk.
TypeOK ==
  /\ \A u \in ToSet(toServer) :
       /\ u.nonce \in Nat
       /\ u.nonce > 1 => u.length \in 0..MaxChunk /\ Len(u.data) <= MaxChunk
  /\ reader.stage \in {"none", "salt", "length", "payload"}
  /\ Len(reader.pieces) <= Width
  /\ taken <= arrived /\ arrived <= Width * Len(units)

\* No nonce seals two units of a connection (cipher.rs: next_nonce,
\* encrypt_payload): those under way are distinct and later than what was opened.
NoNonceTwice ==
  \A i \in 1..Len(toServer) :
    /\ toServer[i].nonce \in srvNonce..(encNonce - 1)
    /\ \A j \in 1..(i - 1) : toServer[j].nonce # toServer[i].nonce

\* What NoNonceTwice rests on: the units under way are in the order they were
\* sealed in, and both counters count what has been sealed and opened.
NonceInv ==
  /\ accepted \in Seq(Nat) /\ unsent \in Seq(Nat)
  /\ encNonce \in Nat /\ srvNonce \in 0..encNonce
  /\ toServer \in Seq([nonce : Nat, length : Nat, data : Seq(Nat)])
  /\ \A i \in 1..Len(toServer) : toServer[i].nonce \in srvNonce..(encNonce - 1)
  /\ \A i, j \in 1..Len(toServer) : i < j => toServer[i].nonce < toServer[j].nonce

\* The target is what the server reads first: it is in the second unit, or in
\* front of all that has been read.
TargetInv ==
  LET encoded == Encode(Target)
  IN  /\ srvRead \in Seq(Nat)
      /\ \/ /\ srvNonce = 0 /\ srvRead = <<>> /\ Len(toServer) >= 2
            /\ toServer[1].data = <<>> /\ toServer[2].data = encoded
         \/ /\ srvNonce = 1 /\ srvRead = <<>> /\ Len(toServer) >= 1
            /\ toServer[1].data = encoded
         \/ /\ srvNonce >= 2 /\ Len(srvRead) >= Len(encoded)
            /\ \A i \in 1..Len(encoded) : srvRead[i] = encoded[i]

\* d is what stands in s behind its first a elements, up to the one at b.
Part(d, s, a, b) ==
  /\ d \in Seq(Nat) /\ s \in Seq(Nat) /\ a \in Nat /\ b \in Nat
  /\ a <= b /\ b <= Len(s) /\ Len(d) = b - a
  /\ \A i \in 1..(b - a) : d[i] = s[a + i]

\* The units carry a stretch of s without a gap: unit i ends at ends[i].
Cut(us, s, ends) ==
  /\ ends \in [0..Len(us) -> 0..Len(s)]
  /\ \A i \in 1..Len(us) : Part(us[i].data, s, ends[i - 1], ends[i])

\* What the server has read and the units under way are in front of what has been
\* written, and what is not encrypted yet is the rest while the connection holds.
ServerLine(s, r, us, rest, whole, ends) ==
  /\ Cut(us, s, ends) /\ Part(r, s, 0, ends[0])
  /\ whole => Part(rest, s, ends[Len(us)], Len(s))
ServerInv ==
  LET line == Encode(Target) \o accepted
  IN  \E ends \in [0..Len(toServer) -> 0..Len(line)] :
        ServerLine(line, srvRead, toServer, unsent, open, ends)

\* What the server sends: the salt, then chunks of two units, numbered.
SentLine(s, us, ends) ==
  /\ Cut(us, s, ends) /\ ends[0] = 0 /\ ends[Len(us)] = Len(s)
  /\ us \in Seq([nonce : Nat, length : Nat, data : Seq(Nat)])
  /\ Len(us) % 2 = 1 /\ us[1].data = <<>>
  /\ \A i \in 2..Len(us) : us[i].nonce = i - 2 /\ (i % 2 = 0 => us[i].data = <<>>)

\* Nothing more can be taken from the socket.
Ended == ~open /\ taken = arrived

\* The reader has taken w units whole and is somewhere in the next one, or it
\* has lost a first piece of that at the end of the stream.
AtUnit(w) ==
  \/ /\ taken = Width * w + Len(reader.pieces)
     /\ \A i \in 1..Len(reader.pieces) : reader.pieces[i] = <<w + 1, i>>
  \/ Ended /\ reader.pieces = <<>> /\ taken = Width * w + 1

\* The decryptor has opened all of those but the salt, and is at a length
\* where a length comes.
InStep(w) ==
  /\ key = <<>> =>
       /\ w = 0 /\ decNonce = 0
       /\ reader.pc = "reading" => reader.stage = "salt"
  /\ key # <<>> =>
       /\ key = Salt /\ w = decNonce + 1
       /\ reader.pc = "reading" =>
            \/ reader.stage = "length" /\ (decNonce % 2 = 0 \/ (Ended /\ reader.pieces = <<>>))
            \/ reader.stage = "payload" /\ decNonce % 2 = 1
       /\ reader.pc = "ready" => decNonce % 2 = 0 \/ Ended

\* r bytes have been handed out, and the rest of the w units is kept.
HandedOut(r, w, ends) ==
  /\ Part(returned, srvSent, 0, r)
  /\ reader.pc # "dropped" => Part(readBuffer, srvSent, r, ends[w])

ReaderInv(w) ==
  /\ reader.pc = "ready" => reader.pieces = <<>>
  /\ reader.pc = "reading" => readBuffer = <<>>
  /\ reader.pc # "dropped" => AtUnit(w) /\ InStep(w)

ReaderTypes ==
  /\ reader \in [pc : {"ready", "reading", "dropped"}, n : Nat,
                 stage : {"none", "salt", "length", "payload"}, pieces : Seq(Nat \X Nat)]
  /\ Len(reader.pieces) <= Width /\ decNonce \in Nat
  /\ taken \in Nat /\ arrived \in Nat /\ taken <= arrived /\ arrived <= Width * Len(units)
  /\ open \in BOOLEAN

ClientInv ==
  /\ ReaderTypes
  /\ \E ends \in [0..Len(units) -> 0..Len(srvSent)] :
       /\ SentLine(srvSent, units, ends)
       /\ \E w \in 0..Len(units) : ReaderInv(w) /\ \E r \in 0..Len(srvSent) : HandedOut(r, w, ends)

\* When the stream has come to its end, everything has been handed out that
\* arrived in whole chunks; and at every moment the decryptor has opened as many
\* units as read() has taken whole (read, read_chunk, init_decryptor).
NothingIsSkipped ==
  reader.pc # "dropped" =>
    /\ reader.pc = "ready" /\ readBuffer = <<>> /\ ~open /\ taken = arrived
         => LET chunks == (arrived \div Width - 1) \div 2
            IN  arrived > Width =>
                  returned = FlattenSeq([i \in 1..chunks |-> units[2 * i + 1].data])
    /\ key # <<>> /\ Len(reader.pieces) < Width =>
         decNonce = (taken - Len(reader.pieces)) \div Width - 1

\* The server finds the target in front of whatever else it has been sent, and
\* knows where it ends (address.rs: encode, decode; ShadowsocksStream::new).
TargetArrives ==
  srvRead # <<>> => Decode(srvRead) = [address |-> Target, used |-> Len(Encode(Target))]

\* What each end reads is what the other wrote, in order and with nothing
\* missing in the middle, whatever the sizes of writes, chunks and buffers and
\* wherever the connection breaks: the stream implements ByteStream both ways.
ToClient == INSTANCE ByteStream WITH sent <- srvSent, received <- returned
ToServer == INSTANCE ByteStream WITH
  sent <- accepted, received <- SubSeq(srvRead, Decode(srvRead).used + 1, Len(srvRead))
ClientReadsInOrder == ToClient!Spec
ServerReadsInOrder == ToServer!Spec

\* A read() comes back when the salt and a chunk have arrived, or the connection is closed.
ReadReturns ==
  (reader.pc = "reading" /\ (~open \/ arrived - taken >= 3 * Width))
    ~> reader.pc # "reading"
=============================================================================
