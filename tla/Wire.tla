------------------------------- MODULE Wire ---------------------------------
(***************************************************************************)
(* The pure functions between the plugin and the wire: how a request is    *)
(* resolved to an invoice or an error (protocol.py), the noffer string     *)
(* (noffer.py) and the padding of encrypted payloads (nip44.py).  A state  *)
(* is one input; the properties say what the functions make of it.         *)
(*                                                                         *)
(* A byte is below Radix, so a length field and a price field are small.   *)
(* Bech32, ciphers and MACs are external and hand over what they were      *)
(* given or nothing; a noffer may reach its parser cut short.              *)
(***************************************************************************)
EXTENDS Integers, Sequences, FiniteSets

CONSTANTS
  Radix,       \* the number of byte values, 256
  KeyBytes,    \* the length of a public key, 32
  PriceBytes,  \* the length of a price, 4
  MaxAmount,   \* MAX_AMOUNT_SAT
  Requests,    \* inputs: requests to resolve,
  Codes,       \*   noffers and where they are cut,
  Lengths      \*   lengths of plaintexts

Fields == [shape : {"absent", "int", "digits", "bool", "other"}, value : Int]
Byte == 0..Radix - 1

\* No capacity exceeds the supply, which MaxAmount is; a type is a byte.
ASSUME WireAssumption ==
  /\ Radix \in Nat /\ Radix > 4 /\ KeyBytes \in Nat /\ PriceBytes \in Nat
  /\ MaxAmount \in Nat
  /\ Requests \subseteq
       [offer : {"unknown", "inactive", "fixed", "variable", "spontaneous"},
        sats : Fields, amount : Fields, available : Int]
  /\ \A r \in Requests : r.available <= MaxAmount
  /\ \A c \in Codes :
       /\ c.noffer \in [key : Seq(Byte), relay : Seq(Byte), offer : Seq(Byte),
                        type : 0..2, price : Nat]
       /\ c.cut \in Nat
  /\ Lengths \subseteq Nat

VARIABLE given

NoInput == [kind |-> "none"]
NoPrice == 0

-----------------------------------------------------------------------------
(* protocol.py.                                                            *)

\* request_amount_sat: "amount_sats" before "amount", whatever it holds; a
\* number or a string of digits in range, or else no amount.
RequestAmount(req) ==
  LET raw == IF req.sats.shape # "absent" THEN req.sats ELSE req.amount IN
  IF raw.shape \in {"int", "digits"} /\ raw.value \in 1..MaxAmount
  THEN raw.value ELSE 0

\* 10 to the number of digits less two.
Factor[n \in Nat] == IF n < 100 THEN 1 ELSE 10 * Factor[n \div 10]

\* Mutation of QuantizeAvailable: rounds to the nearest.
QuantizeAvailableNearest(n) ==
  IF n <= 0 THEN 0 ELSE ((n + Factor[n] \div 2) \div Factor[n]) * Factor[n]

QuantizeAvailable(n) ==
  IF n <= 0 THEN 0 ELSE (n \div Factor[n]) * Factor[n]

Refusal(code) == [issues |-> FALSE, code |-> code, min |-> 0, max |-> 0]
InvalidAmount(available) ==
  [Refusal("amount") EXCEPT !.min = 1, !.max = QuantizeAvailable(available)]

\* resolve_request, with min_sat = 1.
Resolve(req, available) ==
  LET amount == RequestAmount(req) IN
  IF req.offer \in {"unknown", "inactive"} THEN Refusal("offer")
  ELSE IF req.offer # "spontaneous" THEN Refusal("unsupported")
  ELSE IF amount < 1 \/ amount > available THEN InvalidAmount(available)
  ELSE [issues |-> TRUE, amount |-> amount]

-----------------------------------------------------------------------------
(* noffer.py.  What may raise returns an empty sequence, else a singleton. *)

Raises == <<>>
Returns(x) == <<x>>

Power[k \in 0..PriceBytes] == IF k = 0 THEN 1 ELSE Radix * Power[k - 1]
BigEndian(n) == [i \in 1..PriceBytes |-> (n \div Power[PriceBytes - i]) % Radix]
FromBytes(bytes) ==
  LET value[i \in 0..Len(bytes)] == IF i = 0 THEN 0 ELSE Radix * value[i - 1] + bytes[i]
  IN  value[Len(bytes)]

\* Mutation of Order: in ascending order of type.
OrderAscending(types) ==
  [i \in 1..Cardinality(types) |->
     CHOOSE t \in types : Cardinality({u \in types : u < t}) = i - 1]

\* _encode_tlv writes the highest type first.
Order(types) ==
  [i \in 1..Cardinality(types) |->
     CHOOSE t \in types : Cardinality({u \in types : u > t}) = i - 1]

EncodeTLV(records) ==
  LET types == Order(DOMAIN records)
      out[i \in 0..Len(types)] ==
        IF i = 0 THEN <<>>
        ELSE out[i - 1] \o <<types[i], Len(records[types[i]])>> \o records[types[i]]
  IN IF \E t \in DOMAIN records : Len(records[t]) >= Radix THEN Raises
     ELSE Returns(out[Len(types)])

\* _parse_tlv: the records from position i on.
ParseTLV(data) ==
  LET parse[i \in 1..Len(data) + 1] ==
        IF i > Len(data) THEN Returns(<<>>)
        ELSE IF i = Len(data) \/ i + 1 + data[i + 1] > Len(data) THEN Raises
        ELSE LET rest == parse[i + 2 + data[i + 1]] IN
             IF rest = Raises THEN Raises
             ELSE Returns(<<[type |-> data[i],
                             value |-> SubSeq(data, i + 2, i + 1 + data[i + 1])]>> \o rest[1])
  IN parse[1]

\* noffer_encode: a price is written if there is one.
NofferEncode(n) ==
  IF Len(n.key) # KeyBytes \/ n.price >= Power[PriceBytes] THEN Raises
  ELSE EncodeTLV([t \in IF n.price # NoPrice THEN 0..4 ELSE 0..3 |->
         CASE t = 0 -> n.key [] t = 1 -> n.relay [] t = 2 -> n.offer
           [] t = 3 -> <<n.type>> [] t = 4 -> BigEndian(n.price)])

\* noffer_decode: the first record of each type.
NofferDecode(data) ==
  LET parsed == ParseTLV(data)
      places(t) == {i \in DOMAIN parsed[1] : parsed[1][i].type = t}
      value(t) == parsed[1][CHOOSE i \in places(t) : \A j \in places(t) : i <= j].value
  IN IF \/ parsed = Raises \/ \E t \in 0..3 : places(t) = {}
        \/ Len(value(0)) # KeyBytes \/ value(3) = <<>>
     THEN Raises
     ELSE IF value(3)[1] \notin 0..2 THEN Raises
     ELSE Returns([key |-> value(0), relay |-> value(1), offer |-> value(2),
            type |-> value(3)[1],
            price |-> IF places(4) = {} THEN NoPrice ELSE FromBytes(value(4))])

-----------------------------------------------------------------------------
(* nip44.py: of a plaintext and of a padded text only the lengths.         *)

MaxPlaintext == 65535
NextPower(n) == CHOOSE p \in {2^k : k \in 0..16} : n <= p /\ p < 2 * n

\* Mutation of CalcPaddedLen: the boundary of a chunk belongs to the next one.
CalcPaddedLenPast(n) ==
  IF n <= 32 THEN 32
  ELSE LET chunk == IF NextPower(n) <= 256 THEN 32 ELSE NextPower(n) \div 8
       IN  chunk * (n \div chunk)

CalcPaddedLen(n) ==
  IF n <= 32 THEN 32
  ELSE LET chunk == IF NextPower(n) <= 256 THEN 32 ELSE NextPower(n) \div 8
       IN  chunk * ((n - 1) \div chunk + 1)

\* _pad: the length in two bytes, the text, zeros.
Pad(n) ==
  IF n \in 1..MaxPlaintext THEN Returns([prefix |-> n, length |-> 2 + CalcPaddedLen(n)])
  ELSE Raises

\* _unpad, after decrypt has looked at the length of the whole payload.
Unpad(p) ==
  IF \/ 65 + p.length < 99
     \/ p.prefix \notin 1..MaxPlaintext \/ 2 + p.prefix > p.length
     \/ p.length # 2 + CalcPaddedLen(p.prefix)
  THEN Raises ELSE Returns(p.prefix)

-----------------------------------------------------------------------------
WireInit == given = NoInput

Inputs ==
  {[kind |-> "request", req |-> r] : r \in Requests}
    \cup {[kind |-> "noffer", of |-> c.noffer, cut |-> c.cut] : c \in Codes}
    \cup {[kind |-> "text", length |-> n] : n \in Lengths}

Ask == given = NoInput /\ given' \in Inputs
Done == given # NoInput /\ given' = NoInput

WireNext == Ask \/ Done

WireSpec == WireInit /\ [][WireNext]_given

\* "Rounding down never over-promises": whoever is told a range can pay its ends,
\* and somebody who can receive anything is told so, to within a tenth.
RangeIsPayable ==
  given.kind = "request" =>
    LET req == given.req  answer == Resolve(req, req.available)
        named(n) == Resolve([req EXCEPT !.sats = [shape |-> "int", value |-> n]],
                            req.available)
    IN /\ answer.issues => answer.amount \in 1..req.available
       /\ ~answer.issues /\ answer.code = "amount" =>
            /\ req.available > 0 =>
                 /\ answer.min <= answer.max /\ 10 * (req.available - answer.max) < req.available
                 /\ named(answer.min).issues /\ named(answer.max).issues
            /\ req.available <= 0 => answer.max = 0

\* What goes out is read back as it was.  A noffer that was cut short is refused,
\* never taken for another one.  Padding never makes a longer text look shorter,
\* and costs at most 31 bytes or a quarter.
NofferReadBack ==
  LET code == NofferEncode(given.of) IN
  code # Raises =>
    NofferDecode(SubSeq(code[1], 1, Len(code[1]) - given.cut)) =
      IF given.cut > 0 THEN Raises ELSE Returns(given.of)

PaddingReadBack ==
  LET n == given.length IN
  IF n \notin 1..MaxPlaintext THEN Pad(n) = Raises
  ELSE /\ Unpad(Pad(n)[1]) = Returns(n)
       /\ n < MaxPlaintext => CalcPaddedLen(n) <= CalcPaddedLen(n + 1)
       /\ CalcPaddedLen(n) - n \in 0..31 \/ 4 * (CalcPaddedLen(n) - n) < n

ReadBack ==
  /\ given.kind = "noffer" => NofferReadBack
  /\ given.kind = "text" => PaddingReadBack
=============================================================================
