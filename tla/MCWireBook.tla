----------------------------- MODULE MCWireBook -----------------------------
EXTENDS WireBook

\* A morning of one symbol: an order is added, partly executed, replaced, partly cancelled
\* and deleted.  Of a message of another type only the size matters: with its length prefix
\* it is longer than a payload, by a byte.  A payload of 80 bytes makes packets of R A, E U
\* and X D.
MCFile == <<
  [type |-> "R", length_ok |-> TRUE, locate |-> 1],
  [type |-> "A", length_ok |-> TRUE, locate |-> 1, order_ref |-> "a",
   side |-> "Buy", shares |-> 3, price |-> 100],
  [type |-> "E", length_ok |-> TRUE, locate |-> 1, order_ref |-> "a", shares |-> 1],
  [type |-> "U", length_ok |-> TRUE, locate |-> 1, order_ref |-> "a",
   new_order_ref |-> "b", shares |-> 5, price |-> 250],
  [type |-> "X", length_ok |-> TRUE, locate |-> 1, order_ref |-> "b", shares |-> 2],
  [type |-> "unknown", length_ok |-> TRUE, locate |-> 1],
  [type |-> "D", length_ok |-> TRUE, locate |-> 1, order_ref |-> "b"]>>

\* The lengths of R, A, E, U, X and D on the wire (message_type.h).
MCSizes == <<39, 36, 31, 35, 23, 79, 19>>

\* A retransmission that overlaps two packets.
MCStrays == {Datagram(OwnSession, 3, 2, <<3, 4>>)}
=============================================================================
