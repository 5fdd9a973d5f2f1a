---------------------------- MODULE ItchDecoder ----------------------------
(***************************************************************************)
(* The decoding of one ITCH message (src/itch/decoder.cc) into the structs *)
(* of messages.h, with the table of message lengths (message_type.h) that  *)
(* the readers check a message against, and the big endian readers         *)
(* (src/common/byte_reader.h).  Text and flags are taken as numbers: what  *)
(* matters is which bytes reach it, and in which order.                    *)
(***************************************************************************)
EXTENDS Integers, FiniteSets

CONSTANT kRadix    \* values of a byte

ASSUME DecodingAssumption == kRadix \in Nat \ {0, 1}

\* Mutant of expected_length: 'C' has the length of the 'E' that it extends.
expected_lengthExtensionForgotten ==
  [S |-> 12, R |-> 39, H |-> 25, Y |-> 20, L |-> 26, A |-> 36, F |-> 40, E |-> 31, C |-> 31,
   X |-> 23, D |-> 19, U |-> 35, P |-> 44, Q |-> 40, B |-> 19]

\* Total length of each known type, without the length prefix.
expected_length ==
  [S |-> 12, R |-> 39, H |-> 25, Y |-> 20, L |-> 26, A |-> 36, F |-> 40, E |-> 31, C |-> 36,
   X |-> 23, D |-> 19, U |-> 35, P |-> 44, Q |-> 40, B |-> 19]

\* A member of the struct: where its bytes are, how many, and how many it can hold.
Member(name, at, width, holds) == [name |-> name, at |-> at, width |-> width, holds |-> holds]
Field(name, at, width) == Member(name, at, width, width)

HeaderFields ==
  {Field("stock_locate", 1, 2), Field("tracking_number", 3, 2), Member("timestamp", 5, 6, 8)}

AddOrderFields ==
  {Field("order_ref", 11, 8), Field("side", 19, 1), Field("shares", 20, 4),
   Field("stock", 24, 8), Field("price", 32, 4)}

\* 'C' extends 'E' with two more fields.
OrderExecutedFields(type) ==
  {Field("order_ref", 11, 8), Field("executed_shares", 19, 4), Field("match_number", 23, 8)}
    \cup (IF type = "C" THEN {Field("printable", 31, 1), Field("execution_price", 32, 4)}
          ELSE {})

\* Mutant of TradeFields: a cross is read with the count of shares in 32 bits.
TradeFieldsNarrow(type) ==
  IF type = "P"
  THEN AddOrderFields \cup {Field("match_number", 36, 8)}
  ELSE {Member("shares", 11, 8, 4), Field("stock", 19, 8), Field("price", 27, 4),
        Field("match_number", 31, 8)}

\* 'P' has the fields of an order; 'Q' has neither order nor side, and 8 bytes of shares.
TradeFields(type) ==
  IF type = "P"
  THEN (AddOrderFields \ {Field("shares", 20, 4)})
         \cup {Member("shares", 20, 4, 8), Field("match_number", 36, 8)}
  ELSE {Field("shares", 11, 8), Field("stock", 19, 8), Field("price", 27, 4),
        Field("match_number", 31, 8)}

\* The decode function of each type.
Fields(type) == HeaderFields \cup
  CASE type = "S" -> {Field("event_code", 11, 1)}
    [] type = "R" -> {Field("stock", 11, 8), Field("market_category", 19, 1),
                      Field("round_lot_size", 21, 4)}
    [] type \in {"A", "F"} -> AddOrderFields
    [] type \in {"E", "C"} -> OrderExecutedFields(type)
    [] type = "X" -> {Field("order_ref", 11, 8), Field("cancelled_shares", 19, 4)}
    [] type = "D" -> {Field("order_ref", 11, 8)}
    [] type = "U" -> {Field("original_order_ref", 11, 8), Field("new_order_ref", 19, 8),
                      Field("shares", 27, 4), Field("price", 31, 4)}
    [] type \in {"P", "Q"} -> TradeFields(type)

Decoded == DOMAIN expected_length \ {"H", "Y", "L", "B"}

\* Bytes that are not read: the financial status and what follows the round lot size, the
\* MPID, the cross type.
Unread(type) == CASE type = "R" -> {20} \cup 25 .. 38
                  [] type = "F" -> 36 .. 39
                  [] type = "Q" -> {39}
                  [] OTHER      -> {}

\* The readers' loop, for every width.
be(bytes, at, width) ==
  LET res[i \in 0 .. width] == IF i = 0 THEN 0 ELSE res[i - 1] * kRadix + bytes[at + i - 1]
  IN  res[width]

\* kRadix to the power of n: what a byte counts for with n bytes behind it.
kWidest == 8       \* bytes in the widest reader, be64
Weight[n \in 0 .. kWidest] == IF n = 0 THEN 1 ELSE Weight[n - 1] * kRadix

\* What a member of the decoded struct gets.
Value(f, bytes) == be(bytes, f.at, f.width) % Weight[f.holds]
=============================================================================
