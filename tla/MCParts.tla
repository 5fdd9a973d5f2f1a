------------------------------ MODULE MCParts ------------------------------
(***************************************************************************)
(* The parts that share no state with one another or with the other        *)
(* modules, side by side: a behaviour is one of one part, and the rest     *)
(* stays in its initial state.  Nothing is lost by this, as no variable of *)
(* one part occurs in another, and the interleavings of steps that do not  *)
(* see one another are left out.                                           *)
(***************************************************************************)
EXTENDS FileReader, FramedDecode, OrderWord, Pacing, TscClock, LatencyRecorder, Sockets, Capture,
        MoldSessions

VARIABLE part      \* which part this behaviour is one of

Parts ==
  {"file", "decode", "word", "pacing", "calibration", "recorder", "sockets", "capture",
   "sessions"}

partsVars ==
  <<part, readerVars, replayVars, wordVars, pacingVars, tscVars, recorderVars, socketVars,
    captureVars, sessionVars>>

-----------------------------------------------------------------------------
\* Every byte sequence of a length; a shorter file is one of them that broke off.  Among them
\* are two messages in a row, a length of zero, and lengths beyond the end.
CONSTANT MaxLength
MCRecordings == [1 .. MaxLength -> 0 .. kByte - 1]
MCRestarts == {[i \in 1 .. MaxLength |-> i % 2]}

\* Both ends, the ones that report() reads, and a quarter, which falls between samples.
MCPercentiles == {<<0, 1>>, <<1, 4>>, <<1, 2>>, <<99, 100>>, <<999, 1000>>, <<1, 1>>}

\* The loopback address, one with which the sum of an empty datagram's header carries twice,
\* and the largest; the group is 239.0.1.1.
MCAddresses == {<<32512, 1>>, <<32512, 15977>>, <<65535, 65535>>}
MCGroups == {NoGroup, <<61184, 257>>}

\* Empty, a header of MoldUDP64, an odd size, the largest that UDP carries.
MCPayloads == {0, 20, 1421, 65507}

-----------------------------------------------------------------------------
\* The parts with many initial states have them in their own behaviours only.
PartsInit ==
  /\ part \in Parts
  /\ ReplayInit /\ WordInit /\ PacingInit /\ RecorderInit /\ SocketsInit /\ SessionsInit
  /\ ReaderInit /\ (part # "file" => recording \in MCRestarts /\ file = << >>)
  /\ TscInit /\ (part # "calibration" => time = 0)
  /\ CaptureInit /\ (part # "capture" => count = 0 /\ group = NoGroup)

\* The guard in front of SessionsNext is its own, so that no packet is tried when none may come.
PartsNext ==
  /\ UNCHANGED part
  /\ IF part = "file" THEN ReaderNext ELSE UNCHANGED readerVars
  /\ IF part = "decode" THEN ReplayNext ELSE UNCHANGED replayVars
  /\ IF part = "word" THEN WordNext ELSE UNCHANGED wordVars
  /\ IF part = "pacing" THEN PacingNext ELSE UNCHANGED pacingVars
  /\ IF part = "calibration" THEN TscNext ELSE UNCHANGED tscVars
  /\ IF part = "recorder" THEN RecorderNext ELSE UNCHANGED recorderVars
  /\ IF part = "sockets" THEN SocketsNext ELSE UNCHANGED socketVars
  /\ IF part = "capture" THEN CaptureNext ELSE UNCHANGED captureVars
  /\ IF part = "sessions" THEN arrived < MaxArrivals /\ SessionsNext
     ELSE UNCHANGED sessionVars

PartsSpec == PartsInit /\ [][PartsNext]_partsVars
=============================================================================
