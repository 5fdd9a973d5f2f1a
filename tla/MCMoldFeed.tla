----------------------------- MODULE MCMoldFeed -----------------------------
EXTENDS MoldFeed

\* Messages 1 2 3 | 4 | 6 | 7 make packets: the first is full by its count, the second and
\* the third by their bytes, by no more than a length prefix.  Message 5 fits no packet, by
\* as little, and the third packet is a byte too long for the receive buffer.
MCSizes == <<2, 2, 2, 2, 15, 11, 2>>

\* A heartbeat, a retransmission that overlaps two packets, a packet whose count is not
\* the number of its blocks, one whose last block runs past its end, and a runt.
MCStrays ==
  {Datagram(OwnSession, 3, 0, << >>),
   Datagram(OwnSession, 3, 2, <<3, 4>>),
   Datagram(OwnSession, 4, 2, <<4>>),
   [Datagram(OwnSession, 2, 1, <<2>>) EXCEPT !.exhausted = FALSE],
   [Datagram(OwnSession, 1, 0, << >>) EXCEPT !.short = TRUE]}
=============================================================================
