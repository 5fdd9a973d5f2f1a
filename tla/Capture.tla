------------------------------ MODULE Capture ------------------------------
(***************************************************************************)
(* The capture tool (apps/replayer/capture.cc): it receives datagrams on a *)
(* socket and writes each to a pcap file, behind an IPv4 and a UDP header  *)
(* that it makes up.  Any call of the set-up may fail, and so may the      *)
(* receive.  Writing to the file is taken to succeed.                      *)
(*                                                                         *)
(* The header is its ten 16-bit words; of the payload only the size is     *)
(* kept, with an id that tells datagrams apart.                            *)
(***************************************************************************)
EXTENDS Integers, Sequences

CONSTANTS
  Counts,       \* values of --count
  Groups,       \* values of --group, NoGroup for none
  NoGroup,
  Addresses,    \* IPv4 addresses of senders, as pairs of words
  Payloads      \* sizes of datagrams

kMaxWord == 65535

Words == 0 .. kMaxWord

\* A UDP datagram over IPv4 has at most 65535 - 28 bytes, an address two words.
ASSUME CaptureAssumption ==
  /\ Counts \subseteq Int /\ Payloads \subseteq 0 .. kMaxWord - 28
  /\ Addresses \subseteq Words \X Words /\ Groups \ {NoGroup} \subseteq Words \X Words

VARIABLES
  stage,        \* the calls of the set-up, "receiving", or the exit status
  count, group, \* the options
  pcap,         \* the records behind the global header, << >> before fopen
  received      \* the datagrams that recvfrom returned

captureVars == <<stage, count, group, pcap, received>>

kSnaplen == 65535

-----------------------------------------------------------------------------
Word(x) == x % 65536

\* Mutant of Folded: the carry is added once.
FoldedOnce(sum) == (sum % 65536) + (sum \div 65536)

\* The loop that adds the carry until there is none; ten words need no third round, and a
\* round without a carry changes nothing.
Folded(sum) ==
  LET once(x) == (x % 65536) + (x \div 65536)
  IN  once(once(sum))

SumOfWords(words) ==
  LET upto[i \in 0 .. Len(words)] == IF i = 0 THEN 0 ELSE upto[i - 1] + words[i]
  IN  upto[Len(words)]

\* The complement of the folded sum, cut to a word.
ip_checksum(words) == Word(-1 - Folded(SumOfWords(words)))

\* Version 4 and IHL 5, total length, id, fragment, TTL 64 and protocol 17, checksum, source
\* and destination.
Header(total, checksum, src, dst) ==
  <<17664, total, 0, 0, 16401, checksum, src[1], src[2], dst[1], dst[2]>>

PacketRecord(d) ==
  LET payload == Word(d.size)
      total == Word(20 + 8 + payload)
      dst == IF group = NoGroup THEN d.from ELSE group
      checksum == ip_checksum(Header(total, 0, d.from, dst))
  IN  [incl_len |-> 28 + payload, orig_len |-> 28 + payload,
       header |-> Header(total, checksum, d.from, dst), udp_len |-> Word(8 + payload),
       body |-> payload, id |-> d.id]

-----------------------------------------------------------------------------
CaptureInit ==
  /\ stage = "bind" /\ count \in Counts /\ group \in Groups
  /\ pcap = << >> /\ received = << >>

SetUpNext == CASE stage = "bind"  -> IF group = NoGroup THEN "fopen" ELSE "join"
               [] stage = "join"  -> "fopen"
               [] stage = "fopen" -> "receiving"

\* A socket that could not be opened makes the bind fail.
SetUp ==
  /\ stage \in {"bind", "join", "fopen"}
  /\ stage' \in {SetUpNext, "exit 1"}
  /\ UNCHANGED <<count, group, pcap, received>>

Receive ==
  /\ stage = "receiving" /\ Len(received) < count
  /\ \E size \in Payloads, from \in Addresses :
       LET d == [size |-> size, from |-> from, id |-> Len(received) + 1]
       IN  received' = Append(received, d) /\ pcap' = Append(pcap, PacketRecord(d))
  /\ UNCHANGED <<stage, count, group>>

\* Any failure ends the loop, an interrupted call included; the exit status is 0.
ReceiveFails ==
  /\ stage = "receiving" /\ Len(received) < count
  /\ stage' = "exit 0"
  /\ UNCHANGED <<count, group, pcap, received>>

Finish ==
  /\ stage = "receiving" /\ Len(received) >= count /\ stage' = "exit 0"
  /\ UNCHANGED <<count, group, pcap, received>>

CaptureNext == SetUp \/ Receive \/ ReceiveFails \/ Finish

CaptureSpec == CaptureInit /\ [][CaptureNext]_captureVars

-----------------------------------------------------------------------------
\* A dissector accepts the packet r, and it is the datagram d: it is as long as it says and
\* within the snap length, the lengths in the two headers agree with it, and the ten words of
\* the IP header with their checksum add up to all ones.
Dissects(r, d) ==
  /\ r.incl_len = 28 + r.body /\ r.orig_len = r.incl_len /\ r.incl_len <= kSnaplen
  /\ r.header[2] = r.incl_len /\ r.udp_len = r.header[2] - 20
  /\ \A i \in DOMAIN r.header : r.header[i] \in Words
  /\ SumOfWords(r.header) > 0 /\ SumOfWords(r.header) % 65535 = 0
  /\ r.body = d.size /\ r.id = d.id

\* A reader of the pcap stays in step, and every packet in it is one that a dissector
\* accepts, up to the largest datagram there is: it has every datagram that was received, in
\* the order of arrival.
RecordsDissect ==
  /\ Len(pcap) = Len(received)
  /\ \A n \in DOMAIN pcap : Dissects(pcap[n], received[n])
=============================================================================
