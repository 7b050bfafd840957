-------------------------------- MODULE PfcpWire --------------------------------
(***************************************************************************)
(* The datagrams of the N4 layer (pkg/models/pfcp.go) as sequences of       *)
(* bytes.  Positions count from one: position i is index i - 1 in the code. *)
(***************************************************************************)
EXTENDS Naturals, Sequences

Byte == 0 .. 255

Flags == 32
EstablishmentRequest == 50
EstablishmentResponse == 51
ModificationRequest == 52
ModificationResponse == 53

(* BigEndian.PutUint16, PutUint32, Uint16 and Uint32. *)
U16(n) == <<n \div 256 % 256, n % 256>>
U32(n) == U16(n \div 65536) \o U16(n)
Number16(b) == 256 * b[1] + b[2]
Number32(b) == 65536 * Number16(SubSeq(b, 1, 2)) + Number16(SubSeq(b, 3, 4))

EncodeRequest(type, seq, ip) == <<Flags, type>> \o U16(5) \o U32(seq) \o <<1>> \o ip

(* The cause takes the place of the PDN type. *)
EncodeResponse(type, seq, cause) == <<Flags, type>> \o U16(1) \o U32(seq) \o <<cause>>

IsRequest(data) == Len(data) >= 13 /\ data[1] = Flags
IsResponse(data) == Len(data) >= 9 /\ data[1] = Flags

(* Mutant: the sequence number is read with the length before it. *)
HeaderEarly(data) ==
  [type |-> data[2], length |-> Number16(SubSeq(data, 3, 4)), seq |-> Number32(SubSeq(data, 4, 7))]

Header(data) ==
  [type |-> data[2], length |-> Number16(SubSeq(data, 3, 4)), seq |-> Number32(SubSeq(data, 5, 8))]

DecodeRequest(data) ==
  [header |-> Header(data), pdnType |-> data[9], ip |-> SubSeq(data, 10, 13)]

DecodeResponse(data) == [header |-> Header(data), cause |-> data[9]]
=============================================================================
