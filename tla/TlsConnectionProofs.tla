------------------------ MODULE TlsConnectionProofs ------------------------
(***************************************************************************)
(* TlsConnection has its types, never waits for the network while rustls   *)
(* holds something for the application, and implements TlsStream: for any  *)
(* scripts of a peer that follows the protocol, any sizes of reads and     *)
(* buffers, and, when a MemoryBIO is used, for programs that keep to Apart *)
(* and put at most two records there at a time.                            *)
(***************************************************************************)
EXTENDS TlsRecordsProofs

\* Where a call may be in each use, and what it has in hand there.
CallInv ==
  /\ told # "open" => pc = "idle"
  /\ use = "bio" => /\ pc \in {"idle", "handshake", "read", "decrypt", "unwrap"}
                    /\ piece = <<>> /\ body = 0
  /\ use = "socket" => pc # "read"
  /\ pc \in {"handshake", "pull", "drain", "net", "read", "decrypt", "ended"} => n \in ReadSizes
  /\ pc # "decrypt" => out = <<>> /\ ct = <<>>
  /\ pc = "decrypt" => Len(out) < n /\ ct # <<>>
  /\ pc \in {"handshake", "pull"} => ~handshakeDone
  /\ ~handshakeDone => pc \in {"idle", "handshake", "pull"}
  /\ pc \in {"unwrap", "unwrapPull"} => shutdownSent
  /\ pc = "ended" => eof

\* The program keeps to what ImplementsStream asks of it.
Kept == use = "socket" \/ (Apart /\ Burst <= 2)

\* The cells that left the socket in whole headers and bodies, and those not yet in rustls.
Pulled == taken - Len(piece)
Unfed == Len(ct) + Len(incoming)

FlagInv ==
  /\ ~peerClosed /\ ~shutdown /\ ~Closed(done)
  /\ pendingCt = <<>>
  /\ ~handshakeDone => plain = <<>> /\ Handshaking(done)
  /\ eof => cut /\ taken = sent /\ ct = <<>> /\ incoming = <<>>

\* From the transport to rustls, every buffer goes on where the next one ends.
RunInv ==
  /\ ct = <<>> \/ incoming = <<>>
  /\ Run(deframer, End[done])
  /\ Run(ct, End[done] + Len(deframer)) /\ Run(incoming, End[done] + Len(deframer))
  /\ Run(piece, Pulled)
  /\ Pulled = End[done] + Len(deframer) + Unfed
  /\ done < Len(script) => Len(deframer) < 1 + script[done + 1].size
  /\ done = Len(script) => deframer = <<>>

\* From rustls to the application, likewise.
PlainInv ==
  /\ Run(got, 0) /\ Run(out, Len(got)) /\ Run(plain, Len(got) + Len(out))
  /\ Len(got) + Len(out) + Len(plain) = Text[done]

\* What is not yet in rustls cannot fill received_plaintext beyond its limit.
FedInv ==
  Unfed > 0 =>
    \E i \in Records : /\ Pulled <= End[i]
                       /\ \/ i <= done + 2 /\ plain = <<>>
                          \/ i <= done + 1 /\ Len(plain) <= Limit

\* close_notify comes to rustls alone, and more only when all was read.
BioInv ==
  use = "bio" =>
    /\ Unfed > 0 /\ script[Len(script)].kind = "close" /\ Pulled > End[Len(script) - 1] =>
         done = Len(script) - 1 /\ plain = <<>> /\ out = <<>>
    /\ pc = "idle" /\ waiting => plain = <<>>

\* A socket takes a header, then a body, and only when rustls has decrypted what came before;
\* data that unwrap decrypted may wait in rustls while the next header is taken.
SocketInv ==
  use = "socket" =>
    /\ out = <<>> /\ Len(plain) <= Limit
    /\ body = 0 => piece = <<>>
    /\ body = 0 => \/ Pulled = End[done]
                   \/ /\ done < Len(script) /\ Pulled = End[done + 1]
                      /\ pc \in {"handshake", "decrypt", "unwrap"}
    /\ body > 0 => /\ done < Len(script) /\ Pulled = End[done] + 1
                   /\ body = script[done + 1].size /\ Len(piece) < body
    /\ incoming # <<>> => pc \in {"handshake", "unwrap"} /\ plain = <<>>
    /\ plain # <<>> /\ ~maybeBuffered => shutdownSent /\ (body = 0 \/ pc = "decrypt")
    /\ pc = "net" => ~maybeBuffered
    /\ pc \in {"unwrapPull", "pull"} => plain = <<>>
    /\ pc = "decrypt" /\ plain # <<>> => Len(ct) = 1 /\ body > 0

Strong == FlagInv /\ RunInv /\ PlainInv /\ FedInv /\ BioInv /\ SocketInv

\* Until the application is told of the end.
OpenInv == told = "open" /\ Kept => Strong

\* recv suppresses an SSLEOFError when it was asked to, after the end of the transport.
SuppressInv == suppress => ragged /\ cut

IInv == TypeOK /\ CallInv /\ SuppressInv /\ OpenInv

USE SizesAssumption
    DEF peerVars, socketVars, bioVars, engineVars, flagVars, feedVars, callVars, toldVars,
        localVars, vars, Least

-----------------------------------------------------------------------------
(* Types *)

LEMMA RaggedWord == RaggedEof \in {"closed", "truncated"}
BY DEF RaggedEof

LEMMA SameRecords ==
  ASSUME UNCHANGED <<script, sent>>
  PROVE  /\ End' = End /\ Text' = Text /\ SentRecords' = SentRecords /\ SentText' = SentText
         /\ SentClose' <=> SentClose
<1>1. End' = End
  BY DEF End
<1>2. Text' = Text
  BY DEF Text
<1>3. SentRecords' = SentRecords
  BY <1>1 DEF SentRecords
<1>4. QED
  BY <1>1, <1>2, <1>3 DEF SentText, SentClose

LEMMA Basics ==
  ASSUME TypeOK
  PROVE  /\ Numbered /\ sent \in Nat /\ sent <= End[Len(script)]
         /\ done \in Records /\ End[done] <= sent
         /\ SentText \in Nat /\ Text[done] <= SentText
         /\ End[done] \in Nat /\ Text[done] \in Nat
         /\ taken \in Nat /\ taken <= sent
         /\ \A s \in {piece, incoming, deframer, pendingCt, ct} : s \in Seq(Nat) /\ Len(s) \in Nat
         /\ \A s \in {plain, out, got} : s \in Seq(Nat) /\ Len(s) \in Nat
<1>1. Numbered
  BY Numbers DEF TypeOK
<1>2. Len(script) \in Records
  BY <1>1 DEF Numbered, Records
<1>3. sent \in Nat /\ sent <= End[Len(script)]
  BY <1>1, <1>2, EndNat DEF TypeOK
<1>4. PICK j \in Records : Whole(j)
  BY <1>1, <1>3, SentWhole
<1>5. Cardinality(SentRecords) = j /\ SentText = Text[j]
  BY <1>1, <1>3, <1>4, WholeIs
<1>6. done \in Records /\ done <= j
  BY <1>1, <1>5, EndNat DEF TypeOK, Records
<1>7. /\ End[done] <= End[j] /\ Text[done] <= Text[j] /\ End[j] \in Nat /\ Text[j] \in Nat
      /\ End[done] \in Nat /\ Text[done] \in Nat
  BY <1>1, <1>6, EndGrows, EndNat
<1>8. End[done] <= sent
  BY <1>3, <1>4, <1>7 DEF Whole
<1>9. \A s : s \in Seq(1..sent) \/ s \in Seq(1..SentText) => s \in Seq(Nat) /\ Len(s) \in Nat
  <2>1. Seq(1..sent) \subseteq Seq(Nat) /\ Seq(1..SentText) \subseteq Seq(Nat)
    BY <1>3, <1>5, <1>7, Wider
  <2>2. QED
    BY <2>1
<1>10. \A s \in {piece, incoming, deframer, pendingCt, ct} : s \in Seq(Nat) /\ Len(s) \in Nat
  BY <1>9 DEF TypeOK
<1>11. \A s \in {plain, out, got} : s \in Seq(Nat) /\ Len(s) \in Nat
  BY <1>9 DEF TypeOK
<1>12. taken \in Nat /\ taken <= sent
  BY <1>3 DEF TypeOK
<1>13. QED
  BY <1>1, <1>3, <1>5, <1>6, <1>7, <1>8, <1>10, <1>11, <1>12

\* More cells, and no fewer records and units, when the peer sends.
LEMMA SentGrows ==
  ASSUME TypeOK, PeerSends
  PROVE  /\ End' = End /\ Text' = Text
         /\ sent' \in 0..End[Len(script)] /\ sent <= sent'
         /\ Cardinality(SentRecords) \in Nat /\ Cardinality(SentRecords') \in Nat
         /\ Cardinality(SentRecords) <= Cardinality(SentRecords')
         /\ SentText \in Nat /\ SentText' \in Nat /\ SentText <= SentText'
<1>1. UNCHANGED script /\ sent' = sent + 1 /\ sent < End[Len(script)]
  BY DEF PeerSends
<1>2. End' = End /\ Text' = Text
  BY <1>1 DEF End, Text
<1>3. Numbered /\ sent \in Nat /\ sent' \in Nat /\ End[Len(script)] \in Nat
  <2>1. Numbered /\ sent \in Nat
    BY Basics
  <2>2. Len(script) \in Records
    BY <2>1 DEF Numbered, Records
  <2>3. QED
    BY <1>1, <2>1, <2>2, EndNat
<1>4. sent' \in 0..End[Len(script)] /\ sent <= sent'
  BY <1>1, <1>3
<1>5. PICK j \in Records : Whole(j)
  BY <1>3, SentWhole
<1>6. Cardinality(SentRecords) = j /\ SentText = Text[j]
  BY <1>3, <1>5, WholeIs
<1>7. PICK k \in Records : /\ 0 <= k /\ End[k] <= sent'
                           /\ \A i \in Records : k < i => End[i] > sent'
  <2>1. 0 \in Records /\ End[0] = 0
    BY <1>3 DEF Numbered, Records
  <2>2. QED
    BY <1>3, <2>1, LastWithin
<1>8. Numbered'
  BY <1>1, <1>2, <1>3 DEF Numbered, Records
<1>9. Whole(k)' /\ Records' = Records
  BY <1>1, <1>2, <1>7 DEF Whole, Records
<1>10. Cardinality(SentRecords') = k /\ SentText' = Text[k]
  <2>2. SentRecords' = 1..k
    <3>1. ASSUME NEW i \in 1..Len(script) PROVE End[i] <= sent' <=> i <= k
      <4>1. i \in Records /\ End[i] \in Nat /\ End[k] \in Nat /\ i \in Nat /\ k \in Nat
        BY <1>3, EndNat DEF Records
      <4>2. i <= k => End[i] <= End[k]
        BY <1>3, <4>1, EndGrows
      <4>3. QED
        BY <1>3, <1>7, <4>1, <4>2
    <3>2. k \in 0..Len(script) /\ Len(script) \in Nat
      BY <1>3, EndNat DEF Records
    <3>3. QED
      BY <1>1, <1>2, <3>1, <3>2 DEF SentRecords
  <2>3. k \in Nat /\ Cardinality(SentRecords') = k
    BY <1>3, <2>2, EndNat, FS_Interval
  <2>4. CASE k = 0
    <3>1. SentRecords' = {} /\ Text[0] = 0
      BY <1>3, <2>2, <2>4 DEF Numbered
    <3>2. QED
      BY <2>3, <2>4, <3>1 DEF SentText
  <2>5. CASE k # 0
    <3>1. SentRecords' # {}
      BY <2>2, <2>3, <2>5
    <3>2. QED
      BY <1>2, <2>3, <3>1 DEF SentText
  <2>6. QED
    BY <2>3, <2>4, <2>5
<1>11. j <= k /\ Text[j] <= Text[k]
  <2>1. End[j] \in Nat /\ End[k] \in Nat /\ j \in Nat /\ k \in Nat
    BY <1>3, EndNat
  <2>2. ~(k < j)
    BY <1>3, <1>4, <1>5, <1>7, <2>1 DEF Whole
  <2>3. QED
    BY <1>3, <2>1, <2>2, EndGrows
<1>12. QED
  BY <1>2, <1>3, <1>4, <1>6, <1>10, <1>11, EndNat

\* Cells that follow those decrypted end where the peer has sent.
LEMMA IntactSent ==
  ASSUME TypeOK, NEW d \in Seq(1..sent), Intact(d)
  PROVE  End[done] + Len(d) <= sent
<1>1. Len(d) \in Nat /\ End[done] \in Nat /\ End[done] <= sent /\ sent \in Nat
  BY Basics
<1>2. Run(d, End[done])
  <2>1. d \in Seq(Nat)
    BY <1>1, Wider
  <2>2. d = Span(End[done], End[done] + Len(d))
    BY DEF Intact
  <2>3. QED
    BY <1>1, <2>1, <2>2, RunIsSpan
<1>3. CASE Len(d) = 0
  BY <1>1, <1>3
<1>4. CASE Len(d) # 0
  <2>1. Len(d) \in 1..Len(d)
    BY <1>1, <1>4
  <2>2. d[Len(d)] = End[done] + Len(d)
    BY <1>2, <2>1 DEF Run
  <2>3. d[Len(d)] \in 1..sent
    BY <1>1, <1>4
  <2>4. QED
    BY <1>1, <2>2, <2>3
<1>5. QED
  BY <1>3, <1>4

\* What is in the engine when it has decrypted d.
LEMMA DecryptTypes ==
  ASSUME TypeOK, NEW d \in Seq(1..sent), Intact(d), Len(d) <= MaxWire
  PROVE  /\ Through(d) \in 0..Cardinality(SentRecords)
         /\ Undecrypted(d) \in Seq(1..sent) /\ Len(Undecrypted(d)) <= MaxWire
         /\ Decrypted(d) \in Seq(1..SentText) /\ Len(Decrypted(d)) \in Nat
<1>1. Numbered /\ sent \in Nat /\ done \in Records /\ SentText \in Nat /\ Len(d) \in Nat
  BY Basics
<1>2. Through(d) \in Records /\ End[Through(d)] <= End[done] + Len(d)
  BY <1>1, ThroughIs
<1>3. End[Through(d)] <= sent
  <2>1. End[done] + Len(d) <= sent /\ End[done] \in Nat /\ End[Through(d)] \in Nat
    BY <1>1, <1>2, IntactSent, EndNat
  <2>2. QED
    BY <1>1, <1>2, <2>1
<1>4. Through(d) \in 0..Cardinality(SentRecords) /\ Text[Through(d)] <= SentText
  <2>1. PICK j \in Records : Whole(j)
    BY <1>1, SentWhole
  <2>2. Cardinality(SentRecords) = j /\ Through(d) <= j /\ Text[Through(d)] <= SentText
    BY <1>1, <1>2, <1>3, <2>1, WholeIs, WholeBound
  <2>3. QED
    BY <1>1, <1>2, <2>2, EndNat
<1>5. Undecrypted(d) \in Seq(1..sent) /\ Len(Undecrypted(d)) <= Len(d)
  BY <1>1, Decrypts
<1>6. Len(Undecrypted(d)) \in Nat
  BY <1>5
<1>7. Decrypted(d) \in Seq(1..SentText)
  BY <1>1, <1>4, DecryptedUnits DEF TypeOK
<1>8. QED
  BY <1>1, <1>4, <1>5, <1>6, <1>7

\* The cells that read_tls and the pump move.
LEMMA Moved ==
  ASSUME TypeOK
  PROVE  /\ ReadTls(deframer, ct) \in 0..Len(ct)
         /\ Len(deframer) + ReadTls(deframer, ct) <= MaxWire
         /\ Pumped \in 0..Len(incoming) /\ Len(deframer) + Pumped <= MaxWire
<1>1. Len(deframer) \in Nat /\ Len(ct) \in Nat /\ Len(incoming) \in Nat
  BY Basics
<1>2. Len(deframer) <= MaxWire /\ MaxWire \in Nat /\ ReadSize \in Nat
  BY DEF TypeOK
<1>3. QED
  BY <1>1, <1>2 DEF ReadTls, Pumped

LEMMA MovedTypes ==
  ASSUME TypeOK, NEW c \in Seq(1..sent), NEW k \in 0..Len(c), Len(deframer) + k <= MaxWire
  PROVE  /\ deframer \o SubSeq(c, 1, k) \in Seq(1..sent)
         /\ Len(deframer \o SubSeq(c, 1, k)) = Len(deframer) + k
         /\ Rest(c, k) \in Seq(1..sent) /\ Len(Rest(c, k)) = Len(c) - k
<1> DEFINE S == 1..sent
<1>1. deframer \in Seq(S) /\ c \in Seq(S)
  BY DEF TypeOK
<1> HIDE DEF S
<1>2. /\ SubSeq(c, 1, k) \in Seq(S) /\ Len(SubSeq(c, 1, k)) = k
      /\ Rest(c, k) \in Seq(S) /\ Len(Rest(c, k)) = Len(c) - k
  BY <1>1, Parts
<1>3. /\ deframer \o SubSeq(c, 1, k) \in Seq(S)
      /\ Len(deframer \o SubSeq(c, 1, k)) = Len(deframer) + k
  BY <1>1, <1>2, Joined
<1>4. QED
  BY <1>2, <1>3 DEF S

LEMMA PumpTypes ==
  ASSUME TypeOK, Pump
  PROVE  /\ incoming' \in Seq(1..sent)
         /\ deframer' \in Seq(1..sent) /\ Len(deframer') <= MaxWire
         /\ done' \in 0..Cardinality(SentRecords)
         /\ plain' \in Seq(1..SentText) /\ eof' = eof
<1> DEFINE d == deframer \o SubSeq(incoming, 1, Pumped)
<1>1. incoming \in Seq(1..sent) /\ Pumped \in 0..Len(incoming) /\ Len(deframer) + Pumped <= MaxWire
  BY Moved DEF TypeOK
<1>2. d \in Seq(1..sent) /\ Len(d) <= MaxWire /\ Rest(incoming, Pumped) \in Seq(1..sent)
  BY <1>1, MovedTypes
<1>3. Intact(d)
  BY DEF Pump, PumpFails
<1> HIDE DEF d
<1>4. /\ Through(d) \in 0..Cardinality(SentRecords)
      /\ Undecrypted(d) \in Seq(1..sent) /\ Len(Undecrypted(d)) <= MaxWire
      /\ Decrypted(d) \in Seq(1..SentText)
  BY <1>2, <1>3, DecryptTypes
<1>5. PutBack \in Seq(1..sent)
  <2>1. CASE PutBack = <<>>
    BY <2>1
  <2>2. CASE PutBack = Rest(incoming, Pumped)
    BY <1>2, <2>2, Zenon
  <2>3. QED
    BY <2>1, <2>2 DEF PutBack
<1>6. deframer' = Undecrypted(d) /\ done' = Through(d) /\ plain' = Decrypted(d) /\ incoming' = PutBack
      /\ eof' = eof
  BY DEF Pump, d
<1>7. QED
  BY <1>4, <1>5, <1>6

\* The plaintext that a call returns, and what is left of it.
LEMMA ReadTypes ==
  ASSUME TypeOK, n \in ReadSizes, NEW otherwise, ReadPlaintext(otherwise)
  PROVE  /\ plain' \in Seq(1..SentText) /\ peerClosed' \in BOOLEAN
         /\ \/ otherwise /\ plain' = plain
            \/ /\ pc' = "idle" /\ waiting' \in BOOLEAN
               /\ got' \in Seq(1..SentText) /\ told' \in {"open", "closed", "truncated", "failed"}
<1> DEFINE m == Least(n, Len(plain))
           S == 1..SentText
<1>1. /\ plain \in Seq(S) /\ got \in Seq(S) /\ waiting \in BOOLEAN
      /\ told \in {"open", "closed", "truncated", "failed"}
  BY DEF TypeOK
<1> HIDE DEF S
<1>2. m \in 0..Len(plain)
  <2>1. Len(plain) \in Nat /\ n \in Nat
    BY Basics
  <2>2. QED
    BY <2>1
<1> DEFINE data == SubSeq(plain, 1, m)
<1>3. data \in Seq(S) /\ Rest(plain, m) \in Seq(S)
  BY <1>1, <1>2, Parts
<1>4. got \o data \in Seq(S)
  BY <1>1, <1>3, Joined
<1>5. plain' = Rest(plain, m) /\ peerClosed' = (peerClosed \/ (m = 0 /\ Closed(done)))
  BY DEF ReadPlaintext
<1>6. CASE m > 0
  <2>1. Give(data)
    BY <1>6 DEF ReadPlaintext
  <2>2. QED
    BY <1>1, <1>3, <1>4, <1>5, <2>1 DEF Give, S
<1>7. CASE m = 0
  <2>1. Rest(plain, m) = plain
    BY <1>1, <1>7, RestNone
  <2>2. Tell("closed") \/ Tell(RaggedEof) \/ otherwise
    BY <1>7 DEF ReadPlaintext
  <2>3. ASSUME NEW what \in {"closed", "truncated"}, Tell(what)
        PROVE  pc' = "idle" /\ waiting' \in BOOLEAN /\ got' \in Seq(S)
               /\ told' \in {"open", "closed", "truncated", "failed"}
    BY <1>1, <2>3 DEF Tell
  <2>4. QED
    BY <1>3, <1>5, <2>1, <2>2, <2>3, RaggedWord, Zenon DEF S
<1>8. QED
  BY <1>2, <1>6, <1>7

\* feed_decrypt, when recv has taken the cells c from the network.
LEMMA FeedTypes ==
  ASSUME TypeOK, n \in ReadSizes, NEW c \in Seq(1..sent), NEW otherwise, Feed(c, otherwise),
         otherwise => pc' \in {"idle", "net"} /\ UNCHANGED <<waiting, got>>
                      /\ told' \in {"open", "closed", "truncated", "failed"}
  PROVE  /\ incoming' \in Seq(1..sent) /\ pendingCt' \in Seq(1..sent) /\ ct' \in Seq(1..sent)
         /\ plain' \in Seq(1..SentText) /\ UNCHANGED <<deframer, done>>
         /\ maybeBuffered' \in BOOLEAN /\ peerClosed' \in BOOLEAN
         /\ UNCHANGED <<handshakeDone, shutdownSent, shutdown>>
         /\ pc' \in {"idle", "net", "decrypt"} /\ waiting' \in BOOLEAN
         /\ got' \in Seq(1..SentText) /\ told' \in {"open", "closed", "truncated", "failed"}
<1> DEFINE S == 1..sent
           T == 1..SentText
           all == incoming \o pendingCt \o c
<1>1. /\ incoming \in Seq(S) /\ pendingCt \in Seq(S) /\ ct \in Seq(S) /\ c \in Seq(S)
      /\ plain \in Seq(T) /\ got \in Seq(T) /\ waiting \in BOOLEAN /\ maybeBuffered \in BOOLEAN
      /\ peerClosed \in BOOLEAN /\ told \in {"open", "closed", "truncated", "failed"}
  BY DEF TypeOK
<1> HIDE DEF S, T
<1>2. all \in Seq(S) /\ <<>> \in Seq(S)
  BY <1>1
<1> HIDE DEF all
<1>3. CASE peerClosed /\ Tell("closed") /\ UNCHANGED <<incoming, engineVars, flagVars, feedVars, ct>>
  BY <1>1, <1>3 DEF Tell, S, T
<1>4. CASE /\ ct' = all /\ incoming' = <<>> /\ pendingCt' = <<>> /\ Continue("decrypt")
           /\ UNCHANGED <<engineVars, flagVars, maybeBuffered>>
  BY <1>1, <1>2, <1>4 DEF Continue, S, T
<1>5. CASE /\ ReadPlaintext(otherwise) /\ maybeBuffered' = (plain # <<>>)
           /\ UNCHANGED <<incoming, pendingCt, ct>>
  <2>1. /\ plain' \in Seq(T) /\ peerClosed' \in BOOLEAN
        /\ \/ otherwise /\ plain' = plain
           \/ /\ pc' = "idle" /\ waiting' \in BOOLEAN
              /\ got' \in Seq(T) /\ told' \in {"open", "closed", "truncated", "failed"}
    BY <1>5, ReadTypes DEF T
  <2>2. /\ pc' \in {"idle", "net", "decrypt"} /\ waiting' \in BOOLEAN
        /\ got' \in Seq(T) /\ told' \in {"open", "closed", "truncated", "failed"}
    BY <1>1, <2>1
  <2>3. UNCHANGED <<deframer, done, handshakeDone, shutdownSent, shutdown>>
    BY <1>5 DEF ReadPlaintext
  <2>4. maybeBuffered' \in BOOLEAN
    BY <1>5, Zenon
  <2>5. UNCHANGED <<incoming, pendingCt, ct>>
    BY <1>5
  <2>6. QED
    BY <1>1, <2>1, <2>2, <2>3, <2>4, <2>5 DEF S, T
<1>6. QED
  BY <1>3, <1>4, <1>5 DEF Feed, all

LEMMA TypeStep == TypeOK /\ CallInv /\ [Next]_vars => TypeOK'
<1> SUFFICES ASSUME TypeOK, CallInv, [Next]_vars PROVE TypeOK'
  OBVIOUS
<1> DEFINE S == 1..sent
           T == 1..SentText
<1>1. CASE PeerSends
  <2>1. /\ End' = End /\ sent' \in 0..End[Len(script)] /\ sent <= sent' /\ sent \in Nat
        /\ 0..Cardinality(SentRecords) \subseteq 0..Cardinality(SentRecords')
    BY <1>1, SentGrows, Basics
  <2>2. Seq(1..sent) \subseteq Seq(1..sent') /\ Seq(1..SentText) \subseteq Seq(1..SentText')
    BY <1>1, <2>1, SentGrows, Wider
  <2>3. taken' \in 0..sent'
    BY <1>1, <2>1, Basics DEF PeerSends
  <2>4. script' = script /\ UNCHANGED <<use, ragged, cut, localVars>>
    BY <1>1 DEF PeerSends
  <2>5. /\ piece' \in Seq(1..sent') /\ incoming' \in Seq(1..sent') /\ deframer' \in Seq(1..sent')
        /\ pendingCt' \in Seq(1..sent') /\ ct' \in Seq(1..sent')
    BY <2>2, <2>4 DEF TypeOK
  <2>6. plain' \in Seq(1..SentText') /\ out' \in Seq(1..SentText') /\ got' \in Seq(1..SentText')
    BY <2>2, <2>4 DEF TypeOK
  <2>7. done' \in 0..Cardinality(SentRecords') /\ sent' \in 0..End'[Len(script')]
    BY <2>1, <2>4 DEF TypeOK
  <2>8. QED
    BY <2>3, <2>4, <2>5, <2>6, <2>7 DEF TypeOK
<1>2. ASSUME UNCHANGED <<script, sent>>
      PROVE  /\ sent' \in 0..End'[Len(script')] /\ sent' = sent
             /\ SentText' = SentText /\ SentRecords' = SentRecords /\ script' \in Scripts
             /\ End' = End
  BY <1>2, SameRecords DEF TypeOK
<1>3. CASE PeerCuts
  BY <1>2, <1>3 DEF PeerCuts, TypeOK
<1>4. CASE Handshake
  <2>1. /\ UNCHANGED <<script, sent, use, ragged, cut, taken, piece, body, suppress, eof, pendingCt, n, ct, out>>
        /\ UNCHANGED <<shutdownSent, peerClosed, shutdown>>
    BY <1>4 DEF Handshake, Pump
  <2>2. CASE /\ Tell(IF incoming = <<>> THEN "truncated" ELSE "failed") /\ incoming' = <<>>
             /\ UNCHANGED <<eof, engineVars, flagVars, maybeBuffered>>
    BY <1>2, <2>1, <2>2 DEF TypeOK, Tell
  <2>3. CASE /\ Pump
             /\ IF Handshaking(done')
                THEN /\ IF use = "bio" THEN WantRead ELSE Continue("pull")
                     /\ UNCHANGED <<handshakeDone, maybeBuffered>>
                ELSE /\ Continue(IF use = "bio" THEN "read" ELSE "drain")
                     /\ handshakeDone' = TRUE
                     /\ maybeBuffered' = TRUE
    <3>1. /\ incoming' \in Seq(S) /\ deframer' \in Seq(S) /\ Len(deframer') <= MaxWire
          /\ done' \in 0..Cardinality(SentRecords) /\ plain' \in Seq(T)
      BY <2>3, PumpTypes
    <3>2. pc' \in {"idle", "pull", "read", "drain"} /\ UNCHANGED <<got, told>>
          /\ waiting' \in BOOLEAN /\ handshakeDone' \in BOOLEAN /\ maybeBuffered' \in BOOLEAN
      BY <2>3 DEF WantRead, Continue, TypeOK
    <3>3. QED
      BY <1>2, <2>1, <3>1, <3>2 DEF TypeOK
  <2>4. QED
    BY <1>4, <2>2, <2>3 DEF Handshake
<1>5. ASSUME NEW k \in ReadSizes, RecvCall(k) PROVE TypeOK'
  <2>1. /\ UNCHANGED <<peerVars, taken, piece, body, bioVars, engineVars, flagVars, feedVars, ct, out>>
        /\ n' \in ReadSizes /\ suppress' = FALSE
    BY <1>5 DEF RecvCall
  <2>2. /\ pc' \in {"idle", "drain", "handshake"} /\ UNCHANGED <<waiting, got>>
        /\ told' \in {"open", "closed", "truncated", "failed"}
    BY <1>5 DEF RecvCall, Tell, Continue, TypeOK
  <2>3. /\ sent' \in 0..End'[Len(script')] /\ sent' = sent /\ script' \in Scripts
        /\ SentText' = SentText /\ SentRecords' = SentRecords
    BY <1>2, <2>1
  <2>4. /\ taken' \in 0..sent' /\ piece' \in Seq(1..sent') /\ incoming' \in Seq(1..sent')
        /\ deframer' \in Seq(1..sent') /\ pendingCt' \in Seq(1..sent') /\ ct' \in Seq(1..sent')
    BY <2>1, <2>3 DEF TypeOK
  <2>5. /\ plain' \in Seq(1..SentText') /\ out' \in Seq(1..SentText') /\ got' \in Seq(1..SentText')
        /\ done' \in 0..Cardinality(SentRecords') /\ Len(deframer') <= MaxWire
    BY <2>1, <2>2, <2>3 DEF TypeOK
  <2>6. /\ use' \in Uses /\ ragged' \in BOOLEAN /\ suppress' \in BOOLEAN /\ cut' \in BOOLEAN
        /\ body' \in Nat /\ eof' \in BOOLEAN /\ maybeBuffered' \in BOOLEAN
        /\ handshakeDone' \in BOOLEAN /\ shutdownSent' \in BOOLEAN
        /\ peerClosed' \in BOOLEAN /\ shutdown' \in BOOLEAN /\ waiting' \in BOOLEAN
    BY <2>1, <2>2 DEF TypeOK
  <2>7. n' \in ReadSizes \union {0}
    BY <2>1
  <2>8. QED
    BY <2>2, <2>3, <2>4, <2>5, <2>6, <2>7 DEF TypeOK
<1>6. ASSUME NEW k \in ReadSizes, ReadCall(k) PROVE TypeOK'
  BY <1>2, <1>6 DEF ReadCall, Tell, Continue, TypeOK
<1>7. CASE UnwrapCall
  BY <1>2, <1>7 DEF UnwrapCall, Continue, TypeOK
<1>8. CASE BioEof
  BY <1>2, <1>8 DEF BioEof, TypeOK
<1>9. CASE WouldBlock
  BY <1>2, <1>9 DEF WouldBlock, WantRead, TypeOK
<1>10. CASE TcpEof
  <2>1. CASE eof' = TRUE /\ suppress' = ragged /\ Continue("ended")
    BY <1>2, <1>10, <2>1 DEF TcpEof, Continue, TypeOK
  <2>2. CASE Tell("truncated") /\ UNCHANGED <<eof, suppress>>
    BY <1>2, <1>10, <2>2 DEF TcpEof, Tell, TypeOK
  <2>3. QED
    BY <1>10, <2>1, <2>2 DEF TcpEof
<1>11. CASE Drain
  <2>1. /\ UNCHANGED <<script, use, ragged, sent, cut, taken, piece, body, suppress, eof, n, out>>
        /\ n \in ReadSizes
    BY <1>11 DEF Drain, CallInv
  <2>2. CASE Feed(<<>>, Continue("net"))
    <3>1. <<>> \in Seq(1..sent)
      OBVIOUS
    <3>2. Continue("net") => pc' \in {"idle", "net"} /\ UNCHANGED <<waiting, got>>
                             /\ told' \in {"open", "closed", "truncated", "failed"}
      BY DEF Continue, TypeOK
    <3>3. /\ incoming' \in Seq(1..sent) /\ pendingCt' \in Seq(1..sent) /\ ct' \in Seq(1..sent)
          /\ plain' \in Seq(1..SentText) /\ UNCHANGED <<deframer, done>>
          /\ maybeBuffered' \in BOOLEAN /\ peerClosed' \in BOOLEAN
          /\ UNCHANGED <<handshakeDone, shutdownSent, shutdown>>
          /\ pc' \in {"idle", "net", "decrypt"} /\ waiting' \in BOOLEAN
          /\ got' \in Seq(1..SentText) /\ told' \in {"open", "closed", "truncated", "failed"}
      BY <2>1, <2>2, <3>1, <3>2, FeedTypes
    <3>4. QED
      BY <1>2, <2>1, <3>3 DEF TypeOK
  <2>3. CASE Continue("net") /\ UNCHANGED <<incoming, engineVars, flagVars, feedVars, ct>>
    BY <1>2, <2>1, <2>3 DEF Continue, TypeOK
  <2>4. QED
    BY <1>11, <2>2, <2>3 DEF Drain
<1>12. CASE Ended
  <2>1. /\ UNCHANGED <<script, use, ragged, sent, cut, taken, piece, body, suppress, eof, n, out>>
        /\ n \in ReadSizes
    BY <1>12 DEF Ended, CallInv
  <2>2. <<>> \in Seq(1..sent)
    OBVIOUS
  <2>3. Tell(RaggedEof) => pc' \in {"idle", "net"} /\ UNCHANGED <<waiting, got>>
                           /\ told' \in {"open", "closed", "truncated", "failed"}
    BY RaggedWord DEF Tell, TypeOK
  <2>4. /\ incoming' \in Seq(1..sent) /\ pendingCt' \in Seq(1..sent) /\ ct' \in Seq(1..sent)
        /\ plain' \in Seq(1..SentText) /\ UNCHANGED <<deframer, done>>
        /\ maybeBuffered' \in BOOLEAN /\ peerClosed' \in BOOLEAN
        /\ UNCHANGED <<handshakeDone, shutdownSent, shutdown>>
        /\ pc' \in {"idle", "net", "decrypt"} /\ waiting' \in BOOLEAN
        /\ got' \in Seq(1..SentText) /\ told' \in {"open", "closed", "truncated", "failed"}
    BY <1>12, <2>1, <2>2, <2>3, FeedTypes DEF Ended
  <2>5. QED
    BY <1>2, <2>1, <2>4 DEF TypeOK
<1>13. CASE Read
  <2>1. /\ UNCHANGED <<script, use, ragged, sent, cut, taken, piece, body, suppress, eof, pendingCt,
                      maybeBuffered>>
        /\ UNCHANGED <<n, out>> /\ n \in ReadSizes
    BY <1>13 DEF Read, CallInv
  <2>2. CASE /\ ct' = incoming /\ incoming' = <<>> /\ Continue("decrypt")
             /\ UNCHANGED <<engineVars, flagVars>>
    BY <1>2, <2>1, <2>2 DEF Continue, TypeOK
  <2>3. CASE ReadPlaintext(WantRead) /\ UNCHANGED <<incoming, ct>>
    <3>1. /\ plain' \in Seq(1..SentText) /\ peerClosed' \in BOOLEAN
          /\ \/ WantRead /\ plain' = plain
             \/ /\ pc' = "idle" /\ waiting' \in BOOLEAN
                /\ got' \in Seq(1..SentText) /\ told' \in {"open", "closed", "truncated", "failed"}
      BY <2>1, <2>3, ReadTypes
    <3>2. pc' = "idle" /\ waiting' \in BOOLEAN /\ got' \in Seq(1..SentText)
          /\ told' \in {"open", "closed", "truncated", "failed"}
      BY <3>1 DEF WantRead, TypeOK
    <3>3. UNCHANGED <<deframer, done, handshakeDone, shutdownSent, shutdown>>
      BY <2>3 DEF ReadPlaintext
    <3>4. UNCHANGED <<incoming, ct>>
      BY <2>3
    <3>5. QED
      BY <1>2, <2>1, <3>1, <3>2, <3>3, <3>4 DEF TypeOK
  <2>4. QED
    BY <1>13, <2>2, <2>3 DEF Read
<1>14. CASE Unwrap
  <2>1. UNCHANGED <<script, use, ragged, sent, cut, taken, piece, body, suppress, handshakeDone, shutdownSent,
                    pendingCt, maybeBuffered, n, ct, out>>
    BY <1>14 DEF Unwrap
  <2>2. ASSUME Unwrapped
        PROVE  /\ pc' \in {"idle", "unwrapPull"} /\ waiting' \in BOOLEAN /\ UNCHANGED got
               /\ told' \in {"open", "closed", "truncated", "failed"}
               /\ peerClosed' \in BOOLEAN /\ shutdown' \in BOOLEAN
    <3>1. shutdown' \in BOOLEAN /\ peerClosed' \in BOOLEAN
      BY <2>2 DEF Unwrapped, TypeOK
    <3>2. \/ Tell("closed") \/ Tell("truncated") \/ WantRead \/ Continue("unwrapPull")
          \/ pc' = "idle" /\ waiting' = FALSE /\ UNCHANGED <<got, told>>
      BY <2>2, <3>1 DEF Unwrapped
    <3>3. QED
      BY <3>1, <3>2 DEF Tell, WantRead, Continue, TypeOK
  <2>3. CASE incoming = <<>> /\ UNCHANGED <<bioVars, engineVars>> /\ Unwrapped
    BY <1>2, <2>1, <2>2, <2>3 DEF TypeOK
  <2>4. CASE Pump /\ Unwrapped
    <3>1. /\ incoming' \in Seq(S) /\ deframer' \in Seq(S) /\ Len(deframer') <= MaxWire
          /\ done' \in 0..Cardinality(SentRecords) /\ plain' \in Seq(T) /\ eof' = eof
      BY <2>4, PumpTypes
    <3>2. QED
      BY <1>2, <2>1, <2>2, <2>4, <3>1 DEF TypeOK
  <2>5. CASE Tell("failed") /\ incoming' = <<>> /\ UNCHANGED <<eof, engineVars, peerClosed, shutdown>>
    BY <1>2, <2>1, <2>5 DEF Tell, TypeOK
  <2>6. QED
    BY <1>14, <2>3, <2>4, <2>5 DEF Unwrap
<1>15. ASSUME NEW k \in 1..(Burst * MaxWire), BioWrite(k) PROVE TypeOK'
  <2>1. taken \in Nat /\ sent \in Nat /\ k \in 1..(sent - taken)
    BY <1>15, Basics DEF BioWrite
  <2>2. taken + k \in 0..sent /\ Span(taken, taken + k) \in Seq(1..sent)
    BY <2>1, SpanWithin
  <2>3. taken' = taken + k /\ incoming' = Span(taken, taken + k)
    BY <1>15 DEF BioWrite
  <2>4. UNCHANGED <<script, use, ragged, sent, cut, piece, body, suppress, eof, engineVars, flagVars, feedVars, pc,
                    callVars, toldVars>>
    BY <1>15 DEF BioWrite
  <2>5. taken' \in 0..sent /\ incoming' \in Seq(1..sent)
    BY <2>2, <2>3
  <2>6. QED
    BY <1>2, <2>4, <2>5 DEF TypeOK
<1>16. ASSUME NEW k \in 1..MaxWire, Receive(k) PROVE TypeOK'
  <2> DEFINE chunk == piece \o Span(taken, taken + k)
  <2>1. /\ taken \in Nat /\ sent \in Nat /\ sent <= End[Len(script)] /\ Numbered
        /\ k \in 1..Least(Needed, sent - taken)
    BY <1>16, Basics DEF Receive
  <2>2. k \in Nat /\ k <= sent - taken
    <3>1. k \in Nat /\ k <= Least(Needed, sent - taken)
      BY <2>1
    <3>2. Needed \in Int
      BY Basics DEF Needed, TypeOK
    <3>3. QED
      BY <2>1, <3>1, <3>2
  <2>3. taken + k \in 1..sent /\ Span(taken, taken + k) \in Seq(1..sent)
    <3>1. k >= 1
      BY <1>16
    <3>2. QED
      BY <2>1, <2>2, <3>1, SpanWithin
  <2>4. chunk \in Seq(1..sent)
    BY <2>3 DEF TypeOK
  <2>5. script[RecordOf(taken + k)].size \in Nat
    <3>1. taken + k \in 1..End[Len(script)]
      <4>1. End[Len(script)] \in Nat
        BY <2>1, EndNat DEF Numbered, Records
      <4>2. QED
        BY <2>1, <2>3, <4>1
    <3>2. PICK i \in Records : i < Len(script) /\ RecordOf(taken + k) = i + 1
      BY <2>1, <3>1, RecordOfCell
    <3>3. QED
      BY <2>1, <3>2, NextRecord
  <2> HIDE DEF chunk
  <2>6. /\ taken' \in 0..sent /\ piece' \in Seq(1..sent) /\ body' \in Nat
        /\ UNCHANGED <<script, use, ragged, sent, cut, suppress, eof, n, out>>
    <3>1. taken' = taken + k /\ piece' \in {<<>>, chunk}
      BY <1>16 DEF Receive, chunk
    <3>2. body' \in {body, script[RecordOf(taken + k)].size, 0}
      BY <1>16 DEF Receive
    <3>3. body' \in Nat
      BY <2>5, <3>2 DEF TypeOK
    <3>4. taken' \in 0..sent
      BY <2>3, <3>1
    <3>5. UNCHANGED <<script, use, ragged, sent, cut, suppress, eof, n, out>>
      BY <1>16 DEF Receive
    <3>6. piece' \in Seq(1..sent)
      <4>1. <<>> \in Seq(1..sent)
        OBVIOUS
      <4>2. QED
        BY <2>4, <3>1, <4>1, Zenon
    <3>7. QED
      BY <3>3, <3>4, <3>5, <3>6
  <2>7. CASE Continue(pc) /\ UNCHANGED <<incoming, engineVars, flagVars, feedVars, ct>>
    BY <1>2, <2>6, <2>7 DEF Continue, TypeOK
  <2>8. CASE pc = "net" /\ Feed(chunk, Continue("net"))
    <3>1. Continue("net") => pc' \in {"idle", "net"} /\ UNCHANGED <<waiting, got>>
                             /\ told' \in {"open", "closed", "truncated", "failed"}
      BY DEF Continue, TypeOK
    <3>2. n \in ReadSizes
      BY <2>8 DEF CallInv
    <3>3. /\ incoming' \in Seq(1..sent) /\ pendingCt' \in Seq(1..sent) /\ ct' \in Seq(1..sent)
          /\ plain' \in Seq(1..SentText) /\ UNCHANGED <<deframer, done>>
          /\ maybeBuffered' \in BOOLEAN /\ peerClosed' \in BOOLEAN
          /\ UNCHANGED <<handshakeDone, shutdownSent, shutdown>>
          /\ pc' \in {"idle", "net", "decrypt"} /\ waiting' \in BOOLEAN
          /\ got' \in Seq(1..SentText) /\ told' \in {"open", "closed", "truncated", "failed"}
      BY <2>4, <2>8, <3>1, <3>2, FeedTypes
    <3>4. QED
      BY <1>2, <2>6, <3>3 DEF TypeOK
  <2>9. CASE /\ incoming' = incoming \o chunk
             /\ Continue(IF pc = "pull" THEN "handshake" ELSE "unwrap")
             /\ UNCHANGED <<engineVars, flagVars, feedVars, ct>>
    <3>1. incoming' \in Seq(1..sent)
      BY <2>4, <2>9 DEF TypeOK
    <3>2. QED
      BY <1>2, <2>6, <2>9, <3>1 DEF Continue, TypeOK
  <2>10. QED
    BY <1>16, <2>7, <2>8, <2>9 DEF Receive, chunk
<1>17. CASE DecryptIncoming
  <2> DEFINE k == ReadTls(deframer, ct)
             d == deframer \o SubSeq(ct, 1, k)
  <2>1. UNCHANGED <<script, use, ragged, sent, cut, taken, piece, body, suppress, n>>
    BY <1>17 DEF DecryptIncoming
  <2>2. k \in 0..Len(ct) /\ Len(deframer) + k <= MaxWire
    BY Moved
  <2>3. d \in Seq(1..sent) /\ Len(d) <= MaxWire /\ Rest(ct, k) \in Seq(1..sent)
    BY <2>2, MovedTypes DEF TypeOK
  <2>4. CASE DecryptFails
    BY <1>2, <2>1, <2>4 DEF DecryptFails, Tell, TypeOK
  <2> HIDE DEF d, k
  <2>5. ASSUME Intact(d)
        PROVE  /\ Through(d) \in 0..Cardinality(SentRecords)
               /\ Undecrypted(d) \in Seq(1..sent) /\ Len(Undecrypted(d)) <= MaxWire
               /\ Decrypted(d) \in Seq(1..SentText) /\ Len(Decrypted(d)) \in Nat
    BY <2>3, <2>5, DecryptTypes
  <2>6. CASE Intact(d) /\ DecryptCloses(d)
    BY <1>2, <2>1, <2>5, <2>6 DEF DecryptCloses, Tell, TypeOK
  <2>7. CASE Intact(d) /\ DecryptTurn(d, k)
    <3> DEFINE m == Least(n - Len(out), Len(Decrypted(d)))
               data == out \o SubSeq(Decrypted(d), 1, m)
    <3>1. /\ Len(Decrypted(d)) \in Nat /\ Decrypted(d) \in Seq(1..SentText)
          /\ deframer' = Undecrypted(d) /\ done' = Through(d) /\ plain' = Rest(Decrypted(d), m)
          /\ UNCHANGED <<eof, flagVars>>
      BY <2>5, <2>7 DEF DecryptTurn
    <3>2. m \in 0..Len(Decrypted(d))
      <4>1. pc = "decrypt"
        BY <1>17 DEF DecryptIncoming
      <4>2. Len(out) < n /\ n \in ReadSizes
        BY <4>1 DEF CallInv
      <4>3. Len(out) \in Nat /\ n \in Nat
        BY <4>2, Basics
      <4>4. QED
        BY <3>1, <4>2, <4>3
    <3>3. plain' \in Seq(1..SentText) /\ SubSeq(Decrypted(d), 1, m) \in Seq(1..SentText)
      <4> DEFINE U == 1..SentText
      <4>1. Decrypted(d) \in Seq(U)
        BY <3>1
      <4> HIDE DEF U, m
      <4>2. SubSeq(Decrypted(d), 1, m) \in Seq(U) /\ Rest(Decrypted(d), m) \in Seq(U)
        BY <3>2, <4>1, Parts
      <4>3. QED
        BY <3>1, <4>2 DEF U
    <3>4. data \in Seq(1..SentText) /\ got \o data \in Seq(1..SentText)
      BY <3>3 DEF TypeOK
    <3>5. \/ ct' = <<>> /\ out' = <<>> /\ Returns(Rest(ct, k), data)
          \/ /\ ct' = Rest(ct, k) /\ out' = data /\ Continue("decrypt")
             /\ UNCHANGED <<incoming, feedVars>>
      BY <2>7 DEF DecryptTurn
    <3> HIDE DEF m, data
    <3>6. CASE /\ ct' = Rest(ct, k) /\ out' = data /\ Continue("decrypt")
               /\ UNCHANGED <<incoming, feedVars>>
      BY <1>2, <2>1, <2>3, <2>5, <2>7, <3>1, <3>3, <3>4, <3>6 DEF Continue, TypeOK
    <3>7. CASE ct' = <<>> /\ out' = <<>> /\ ReadReturns(Rest(ct, k), data)
      <4>1. incoming' \in Seq(1..sent) /\ UNCHANGED feedVars
        <5>1. incoming' = <<>> \/ incoming' = Rest(ct, k)
          BY <3>7 DEF ReadReturns
        <5>2. CASE incoming' = <<>>
          <6>1. <<>> \in Seq(1..sent)
            OBVIOUS
          <6>2. QED
            BY <3>7, <5>2, <6>1, Zenon DEF ReadReturns
        <5>3. CASE incoming' = Rest(ct, k)
          BY <2>3, <3>7, <5>3, Zenon DEF ReadReturns
        <5>4. QED
          BY <5>1, <5>2, <5>3
      <4>2. Tell("failed") \/ Give(data) \/ Continue("read")
        BY <3>7 DEF ReadReturns
      <4>3. /\ pc' \in {"idle", "read"} /\ waiting' \in BOOLEAN /\ got' \in Seq(1..SentText)
            /\ told' \in {"open", "closed", "truncated", "failed"}
        BY <3>4, <4>2 DEF Tell, Give, Continue, TypeOK
      <4>4. QED
        BY <1>2, <2>1, <2>5, <2>7, <3>1, <3>3, <3>7, <4>1, <4>3 DEF TypeOK
    <3>8. CASE ct' = <<>> /\ out' = <<>> /\ FeedReturns(Rest(ct, k), data)
      <4>1. pendingCt' \in Seq(1..sent) /\ UNCHANGED incoming /\ maybeBuffered' \in BOOLEAN
        BY <2>3, <3>8 DEF FeedReturns
      <4>2. Tell(RaggedEof) \/ Give(data) \/ Continue("net")
        BY <3>8 DEF FeedReturns
      <4>3. /\ pc' \in {"idle", "net"} /\ waiting' \in BOOLEAN /\ got' \in Seq(1..SentText)
            /\ told' \in {"open", "closed", "truncated", "failed"}
        BY <3>4, <4>2, RaggedWord DEF Tell, Give, Continue, TypeOK
      <4>4. QED
        BY <1>2, <2>1, <2>5, <2>7, <3>1, <3>3, <3>8, <4>1, <4>3 DEF TypeOK
    <3>9. QED
      BY <3>5, <3>6, <3>7, <3>8 DEF Returns
  <2>8. QED
    BY <1>17, <2>4, <2>6, <2>7 DEF DecryptIncoming, d, k
<1>18. CASE UNCHANGED vars
  BY <1>2, <1>18 DEF TypeOK
<1>19. QED
  BY <1>1, <1>3, <1>4, <1>5, <1>6, <1>7, <1>8, <1>9, <1>10, <1>11, <1>12, <1>13, <1>14, <1>15,
     <1>16, <1>17, <1>18 DEF Next, Step, Reads

-----------------------------------------------------------------------------
(* Where calls are *)

LEMMA CallStep == TypeOK /\ CallInv /\ [Next]_vars => CallInv'
<1> SUFFICES ASSUME TypeOK, CallInv, [Next]_vars PROVE CallInv'
  OBVIOUS
<1> USE DEF CallInv
<1>1. CASE PeerSends \/ PeerCuts \/ UNCHANGED vars
  BY <1>1 DEF PeerSends, PeerCuts
<1>2. CASE Handshake
  <2>1. pc = "handshake" /\ UNCHANGED <<use, piece, body, n, out, ct, shutdownSent>>
    BY <1>2 DEF Handshake
  <2>2. \/ pc' = "idle" /\ UNCHANGED handshakeDone
        \/ /\ IF use = "bio" THEN WantRead ELSE Continue("pull")
           /\ UNCHANGED handshakeDone
        \/ Continue(IF use = "bio" THEN "read" ELSE "drain") /\ handshakeDone' = TRUE
    BY <1>2 DEF Handshake, Tell
  <2>3. QED
    BY <2>1, <2>2 DEF WantRead, Continue, TypeOK
<1>3. ASSUME NEW k \in ReadSizes, RecvCall(k) \/ ReadCall(k) PROVE CallInv'
  <2>1. /\ pc = "idle" /\ told = "open" /\ UNCHANGED <<use, piece, body, out, ct>>
        /\ UNCHANGED <<handshakeDone, shutdownSent>> /\ n' \in ReadSizes
    BY <1>3 DEF RecvCall, ReadCall, Idle
  <2>2. \/ pc' = "idle"
        \/ use = "socket" /\ told' = told /\ pc' = IF handshakeDone THEN "drain" ELSE "handshake"
        \/ use = "bio" /\ told' = told /\ pc' = IF handshakeDone THEN "read" ELSE "handshake"
    BY <1>3 DEF RecvCall, ReadCall, Tell, Continue
  <2>3. QED
    BY <2>1, <2>2
<1>4. CASE UnwrapCall
  BY <1>4 DEF UnwrapCall, Continue, Idle
<1>5. CASE BioEof
  BY <1>5 DEF BioEof
<1>6. CASE WouldBlock
  <2>1. pc \in {"pull", "net", "unwrapPull"} /\ pc' = "idle"
        /\ UNCHANGED <<use, piece, body, out, ct, handshakeDone, shutdownSent>>
    BY <1>6 DEF WouldBlock, WantRead, Pulling
  <2>2. QED
    BY <2>1
<1>7. CASE TcpEof
  BY <1>7 DEF TcpEof, Tell, Continue, Pulling
<1>8. ASSUME NEW otherwise, ReadPlaintext(otherwise), otherwise => pc' \in {"idle", "net"} /\ (pc' = "net" => told' = told)
      PROVE  pc' \in {"idle", "net"} /\ (pc' = "net" => told' = told) /\ UNCHANGED <<handshakeDone, shutdownSent>>
  BY <1>8 DEF ReadPlaintext, Give, Tell
<1>9. ASSUME NEW c \in Seq(1..sent), NEW otherwise, Feed(c, otherwise), told = "open",
             otherwise => pc' \in {"idle", "net"} /\ (pc' = "net" => told' = told)
      PROVE  /\ pc' \in {"idle", "net", "decrypt"} /\ (pc' # "idle" => told' = told)
             /\ UNCHANGED <<handshakeDone, shutdownSent>>
             /\ pc' = "decrypt" => ct' # <<>>
             /\ pc' # "decrypt" => ct' = ct
  BY <1>8, <1>9 DEF Feed, Tell, Continue
<1>10. CASE Drain
  <2>1. /\ use = "socket" /\ told = "open" /\ n \in ReadSizes /\ handshakeDone /\ out = <<>> /\ ct = <<>>
        /\ UNCHANGED <<use, piece, body, n, out>> 
    BY <1>10 DEF Drain, TypeOK
  <2>2. /\ pc' \in {"idle", "net", "decrypt"} /\ (pc' # "idle" => told' = told)
        /\ UNCHANGED <<handshakeDone, shutdownSent>>
        /\ pc' = "decrypt" => ct' # <<>>
        /\ pc' # "decrypt" => ct' = ct
    <3>1. Continue("net") => pc' = "net" /\ told' = told
      BY DEF Continue
    <3>2. <<>> \in Seq(1..sent)
      OBVIOUS
    <3>3. QED
      BY <1>9, <1>10, <2>1, <3>1, <3>2 DEF Drain
  <2>3. Len(<<>>) < n
    BY <2>1
  <2>4. QED
    BY <2>1, <2>2, <2>3
<1>11. CASE Ended
  <2>1. /\ use = "socket" /\ told = "open" /\ n \in ReadSizes /\ handshakeDone /\ out = <<>> /\ ct = <<>>
        /\ UNCHANGED <<use, piece, body, n, out>> 
    BY <1>11 DEF Ended, TypeOK
  <2>2. /\ pc' \in {"idle", "net", "decrypt"} /\ (pc' # "idle" => told' = told)
        /\ UNCHANGED <<handshakeDone, shutdownSent>>
        /\ pc' = "decrypt" => ct' # <<>>
        /\ pc' # "decrypt" => ct' = ct
    <3>1. Tell(RaggedEof) => pc' = "idle"
      BY DEF Tell
    <3>2. <<>> \in Seq(1..sent)
      OBVIOUS
    <3>3. QED
      BY <1>9, <1>11, <2>1, <3>1, <3>2 DEF Ended
  <2>3. Len(<<>>) < n
    BY <2>1
  <2>4. QED
    BY <2>1, <2>2, <2>3
<1>12. CASE Read
  <2>1. /\ use = "bio" /\ told = "open" /\ n \in ReadSizes /\ handshakeDone /\ out = <<>> /\ ct = <<>>
        /\ UNCHANGED <<use, piece, body, n, out>> 
    BY <1>12 DEF Read, TypeOK
  <2>2. Len(<<>>) < n
    BY <2>1
  <2>3. CASE incoming # <<>> /\ ct' = incoming /\ Continue("decrypt") /\ UNCHANGED flagVars
    BY <2>1, <2>2, <2>3 DEF Continue
  <2>4. CASE ReadPlaintext(WantRead) /\ UNCHANGED ct
    <3>1. pc' = "idle" /\ UNCHANGED <<handshakeDone, shutdownSent>>
      BY <2>4 DEF ReadPlaintext, WantRead, Give, Tell
    <3>2. QED
      BY <2>1, <2>4, <3>1
  <2>5. QED
    BY <1>12, <2>3, <2>4 DEF Read
<1>13. CASE Unwrap
  <2>1. /\ pc = "unwrap" /\ UNCHANGED <<use, piece, body, n, out, ct, handshakeDone, shutdownSent>>
    BY <1>13 DEF Unwrap
  <2>2. pc' = "idle" \/ (use = "socket" /\ pc' = "unwrapPull" /\ told' = told)
    <3>1. ASSUME Unwrapped PROVE pc' = "idle" \/ (use = "socket" /\ pc' = "unwrapPull" /\ told' = told)
      BY <3>1 DEF Unwrapped, Tell, WantRead, Continue
    <3>2. QED
      BY <1>13, <3>1 DEF Unwrap, Tell
  <2>3. QED
    BY <2>1, <2>2
<1>14. ASSUME NEW k \in 1..(Burst * MaxWire), BioWrite(k) PROVE CallInv'
  BY <1>14 DEF BioWrite
<1>15. ASSUME NEW k \in 1..MaxWire, Receive(k) PROVE CallInv'
  <2> DEFINE chunk == piece \o Span(taken, taken + k)
  <2>1. /\ pc \in {"pull", "net", "unwrapPull"} /\ use = "socket" /\ told = "open" /\ out = <<>> /\ ct = <<>>
        /\ UNCHANGED <<use, n, out>>
    BY <1>15 DEF Receive, Pulling, TypeOK
  <2>2. CASE Continue(pc) /\ UNCHANGED <<flagVars, ct>>
    BY <2>1, <2>2 DEF Continue
  <2>3. CASE pc = "net" /\ Feed(chunk, Continue("net"))
    <3>1. Continue("net") => pc' = "net" /\ told' = told
      BY DEF Continue
    <3>2. chunk \in Seq(1..sent)
      <4>1. k \in Nat /\ taken + k <= sent /\ taken \in Nat /\ sent \in Nat
        <5>1. k \in 1..Least(Needed, sent - taken) /\ taken \in Nat /\ sent \in Nat
          BY <1>15, Basics DEF Receive
        <5>2. Needed \in Int
          BY Basics DEF Needed, TypeOK
        <5>3. QED
          BY <5>1, <5>2
      <4>2. taken <= taken + k /\ taken + k \in Nat
        BY <4>1
      <4>3. Span(taken, taken + k) \in Seq(1..sent)
        BY <4>1, <4>2, SpanWithin
      <4>4. QED
        BY <4>3 DEF TypeOK
    <3> HIDE DEF chunk
    <3>3. /\ pc' \in {"idle", "net", "decrypt"} /\ (pc' # "idle" => told' = told)
          /\ UNCHANGED <<handshakeDone, shutdownSent>>
          /\ pc' = "decrypt" => ct' # <<>>
          /\ pc' # "decrypt" => ct' = ct
      BY <1>9, <2>1, <2>3, <3>1, <3>2
    <3>4. handshakeDone /\ n \in ReadSizes
      BY <2>3
    <3>5. Len(<<>>) < n
      BY <3>4
    <3>6. QED
      BY <2>1, <2>3, <3>3, <3>4, <3>5
  <2>4. CASE /\ pc # "net" /\ Continue(IF pc = "pull" THEN "handshake" ELSE "unwrap")
             /\ UNCHANGED <<flagVars, ct>>
    BY <2>1, <2>4 DEF Continue
  <2>5. QED
    BY <1>15, <2>2, <2>3, <2>4 DEF Receive
<1>16. CASE DecryptIncoming
  <2>1. /\ pc = "decrypt" /\ told = "open" /\ n \in ReadSizes /\ handshakeDone
        /\ UNCHANGED <<use, piece, body, n>>
    BY <1>16 DEF DecryptIncoming
  <2>2. CASE DecryptFails
    BY <2>1, <2>2 DEF DecryptFails, Tell
  <2>3. ASSUME NEW d, DecryptCloses(d) PROVE CallInv'
    BY <2>1, <2>3 DEF DecryptCloses, Tell
  <2>4. ASSUME DecryptTurn(deframer \o SubSeq(ct, 1, ReadTls(deframer, ct)), ReadTls(deframer, ct)) PROVE CallInv'
    <3> DEFINE k == ReadTls(deframer, ct)
               d == deframer \o SubSeq(ct, 1, k)
               m == Least(n - Len(out), Len(Decrypted(d)))
               data == out \o SubSeq(Decrypted(d), 1, m)
    <3>1. UNCHANGED flagVars
      BY <2>4 DEF DecryptTurn
    <3>2. \/ ct' = <<>> /\ out' = <<>> /\ Returns(Rest(ct, k), data)
          \/ /\ ~(Len(data) >= n) /\ ~(Len(ct) = k)
             /\ ct' = Rest(ct, k) /\ out' = data /\ Continue("decrypt")
      BY <2>4 DEF DecryptTurn
    <3>3. CASE ct' = <<>> /\ out' = <<>> /\ Returns(Rest(ct, k), data)
      <4>1. \/ pc' = "idle"
            \/ use = "bio" /\ pc' = "read" /\ told' = told
            \/ use # "bio" /\ pc' = "net" /\ told' = told
        BY <3>3 DEF Returns, ReadReturns, FeedReturns, Tell, Give, Continue
      <4>2. QED
        BY <2>1, <3>1, <3>3, <4>1
    <3>4. CASE /\ ~(Len(data) >= n) /\ ~(Len(ct) = k)
               /\ ct' = Rest(ct, k) /\ out' = data /\ Continue("decrypt")
      <4>1. ct' # <<>>
        <5>1. ct \in Seq(Nat) /\ k \in 0..Len(ct) /\ Len(ct) \in Nat
          BY Moved, Basics
        <5> HIDE DEF k
        <5>2. Len(Rest(ct, k)) = Len(ct) - k
          BY <5>1, Parts
        <5>3. Len(Rest(ct, k)) # 0
          BY <3>4, <5>1, <5>2
        <5>4. QED
          BY <3>4, <5>3
      <4>2. Len(out') < n
        <5>1. out' \in Seq(1..SentText')
          BY TypeStep DEF TypeOK
        <5>2. Len(out') \in Nat /\ n \in Nat
          BY <2>1, <5>1
        <5>3. QED
          BY <3>4, <5>2
      <4>3. QED
        BY <2>1, <3>1, <3>4, <4>1, <4>2 DEF Continue
    <3>5. QED
      BY <3>2, <3>3, <3>4
  <2>5. QED
    BY <1>16, <2>2, <2>3, <2>4 DEF DecryptIncoming
<1>17. QED
  BY <1>1, <1>2, <1>3, <1>4, <1>5, <1>6, <1>7, <1>10, <1>11, <1>12, <1>13, <1>14, <1>15, <1>16
     DEF Next, Step, Reads

-----------------------------------------------------------------------------
(* Feeding rustls *)

Fed(c, k) == deframer \o SubSeq(c, 1, k)

LEMMA Amounts ==
  ASSUME TypeOK, Strong
  PROVE  /\ Unfed \in Nat /\ Pulled \in Nat /\ Pulled <= sent /\ Len(piece) <= taken
         /\ Pulled = End[done] + Len(deframer) + Unfed
         /\ Len(deframer) < MaxWire
         /\ done < Len(script) => Len(deframer) < 1 + script[done + 1].size
         /\ done = Len(script) => deframer = <<>> /\ Len(deframer) = 0
<1>1. /\ Numbered /\ sent \in Nat /\ taken \in Nat /\ taken <= sent /\ End[done] \in Nat
      /\ done \in Records /\ Len(piece) \in Nat /\ Len(incoming) \in Nat /\ Len(ct) \in Nat
      /\ Len(deframer) \in Nat
  BY Basics
<1>2. /\ Pulled = End[done] + Len(deframer) + Unfed
      /\ done < Len(script) => Len(deframer) < 1 + script[done + 1].size
      /\ done = Len(script) => deframer = <<>>
  BY DEF Strong, RunInv
<1>3. Unfed \in Nat /\ Pulled \in Nat /\ Pulled <= sent /\ Len(piece) <= taken
  BY <1>1, <1>2 DEF Unfed, Pulled
<1>4. done = Len(script) => Len(deframer) = 0
  BY <1>2
<1>5. Len(deframer) < MaxWire
  <2>1. done \in Nat /\ done <= Len(script) /\ Len(script) \in Nat
    BY <1>1, EndNat
  <2>2. CASE done < Len(script)
    <3>1. script[done + 1].size \in Nat /\ 1 + script[done + 1].size <= MaxWire
      BY <1>1, <2>2, NextRecord
    <3>2. QED
      BY <1>1, <1>2, <2>2, <3>1
  <2>3. CASE done = Len(script)
    BY <1>4, <2>3
  <2>4. QED
    BY <2>1, <2>2, <2>3
<1>6. QED
  BY <1>2, <1>3, <1>4, <1>5

\* rustls gets the next k of the cells c: it decrypts the records they complete, and what
\* it holds, and what is left of c, go on from there.
LEMMA FeedingCells ==
  ASSUME TypeOK, Strong, NEW c \in Seq(1..sent), Len(c) = Unfed, Run(c, End[done] + Len(deframer)),
         NEW k \in 0..Len(c), Len(deframer) + k <= MaxWire
  PROVE  /\ Intact(Fed(c, k))
         /\ Through(Fed(c, k)) \in Records /\ done <= Through(Fed(c, k))
         /\ End[Through(Fed(c, k))] <= End[done] + Len(deframer) + k
         /\ \A i \in Records : Through(Fed(c, k)) < i => End[i] > End[done] + Len(deframer) + k
         /\ Run(Undecrypted(Fed(c, k)), End[Through(Fed(c, k))])
         /\ Len(Undecrypted(Fed(c, k))) \in Nat
         /\ Through(Fed(c, k)) < Len(script) =>
              Len(Undecrypted(Fed(c, k))) < 1 + script[Through(Fed(c, k)) + 1].size
         /\ Through(Fed(c, k)) = Len(script) => Undecrypted(Fed(c, k)) = <<>>
         /\ Len(Rest(c, k)) = Len(c) - k
         /\ Run(Rest(c, k), End[Through(Fed(c, k))] + Len(Undecrypted(Fed(c, k))))
         /\ Pulled = End[Through(Fed(c, k))] + Len(Undecrypted(Fed(c, k))) + Len(Rest(c, k))
<1> DEFINE d == Fed(c, k)
           t == Through(d)
<1>1. /\ Numbered /\ sent \in Nat /\ done \in Records /\ End[done] \in Nat
      /\ deframer \in Seq(Nat) /\ Len(deframer) \in Nat
  BY Basics
<1>2. c \in Seq(Nat) /\ Len(c) \in Nat
  BY <1>1, Wider
<1>3. Run(deframer, End[done])
  BY DEF Strong, RunInv
<1>4. /\ SubSeq(c, 1, k) \in Seq(Nat) /\ Len(SubSeq(c, 1, k)) = k
      /\ Run(SubSeq(c, 1, k), End[done] + Len(deframer))
  BY <1>1, <1>2, RunPrefix
<1>5. d \in Seq(Nat) /\ Len(d) = Len(deframer) + k /\ Run(d, End[done])
  BY <1>1, <1>3, <1>4, RunConcat DEF Fed
<1>6. d \in Seq(1..sent)
  BY MovedTypes DEF Fed
<1> HIDE DEF d
<1>7. Intact(d)
  BY <1>1, <1>5, RunIsSpan DEF Intact
<1>8. Len(d) \in Nat
  BY <1>5
<1>9. /\ t \in Records /\ done <= t /\ End[t] <= End[done] + Len(d)
      /\ \A i \in Records : t < i => End[i] > End[done] + Len(d)
  BY <1>1, <1>8, ThroughIs
<1>10. /\ Undecrypted(d) \in Seq(Nat)
       /\ Len(Undecrypted(d)) = End[done] + Len(d) - End[t]
       /\ t < Len(script) => Len(Undecrypted(d)) < 1 + script[t + 1].size
  BY <1>1, <1>5, Decrypts
<1>11. Run(Undecrypted(d), End[t])
  BY <1>1, <1>5, UndecryptedRun
<1>12. End[t] \in Nat /\ Len(Undecrypted(d)) \in Nat
  BY <1>1, <1>9, <1>10, EndNat
<1>13. End[done] + Len(deframer) + k = End[t] + Len(Undecrypted(d))
  <2>1. End[done] \in Nat /\ Len(deframer) \in Nat /\ k \in Nat
    BY <1>1, <1>2
  <2>2. Len(d) = Len(deframer) + k /\ Len(Undecrypted(d)) = End[done] + Len(d) - End[t]
    BY <1>5, <1>10
  <2>3. QED
    BY <1>12, <2>1, <2>2
<1>14. t = Len(script) => Undecrypted(d) = <<>>
  <2>1. End[done] + Len(d) <= sent /\ sent <= End[Len(script)]
    BY <1>6, <1>7, IntactSent, Basics
  <2>2. ASSUME t = Len(script)
        PROVE  Len(Undecrypted(d)) = 0
    <3>1. Len(Undecrypted(d)) = End[done] + Len(d) - End[t] /\ End[t] = End[Len(script)]
      BY <1>10, <2>2
    <3>2. End[done] + Len(d) \in Nat
      BY <1>1, <1>8
    <3>3. End[Len(script)] \in Nat
      BY <1>12, <2>2
    <3>4. End[done] + Len(d) <= End[Len(script)]
      BY <1>1, <2>1, <3>2, <3>3
    <3>5. QED
      BY <1>1, <1>8, <1>12, <3>1, <3>3, <3>4
  <2>3. QED
    BY <1>10, <2>2, Empty
<1>15. /\ Len(Rest(c, k)) = Len(c) - k
       /\ Run(Rest(c, k), (End[done] + Len(deframer)) + k)
  BY <1>1, <1>2, RunRest
<1>16. Pulled = End[t] + Len(Undecrypted(d)) + Len(Rest(c, k))
  <2>1. Pulled = End[done] + Len(deframer) + Len(c)
    BY DEF Strong, RunInv
  <2>2. QED
    BY <1>1, <1>2, <1>12, <1>13, <1>15, <2>1
<1>17. Run(Rest(c, k), End[t] + Len(Undecrypted(d)))
  BY <1>13, <1>15
<1>18. QED
  <2>1. End[t] <= End[done] + Len(deframer) + k
    BY <1>1, <1>2, <1>12, <1>13
  <2>2. \A i \in Records : t < i => End[i] > End[done] + Len(deframer) + k
    <3>1. (End[done] + Len(d)) = End[done] + Len(deframer) + k
      BY <1>1, <1>2, <1>5
    <3>2. QED
      BY <1>9, <3>1
  <2>3. QED
    BY <1>7, <1>9, <1>10, <1>11, <1>12, <1>14, <1>15, <1>16, <1>17, <2>1, <2>2 DEF d

\* Their plaintext follows what rustls holds, and what is left of c is too little for more
\* than it can hold.
LEMMA FeedingUnits ==
  ASSUME TypeOK, Strong, NEW c \in Seq(1..sent), Len(c) = Unfed, Run(c, End[done] + Len(deframer)),
         NEW k \in 0..Len(c), Len(deframer) + k <= MaxWire, Unfed > 0
  PROVE  /\ ~Full
         /\ Decrypted(Fed(c, k)) \in Seq(Nat) /\ Len(Decrypted(Fed(c, k))) \in Nat
         /\ Len(Decrypted(Fed(c, k))) = Len(plain) + (Text[Through(Fed(c, k))] - Text[done])
         /\ Run(Decrypted(Fed(c, k)), Len(got) + Len(out))
         /\ Len(got) + Len(out) + Len(Decrypted(Fed(c, k))) = Text[Through(Fed(c, k))]
         /\ Len(Rest(c, k)) > 0 =>
              \E i \in Records :
                 /\ Pulled <= End[i]
                 /\ \/ i <= Through(Fed(c, k)) + 2 /\ Len(Decrypted(Fed(c, k))) = 0
                    \/ i <= Through(Fed(c, k)) + 1 /\ Len(Decrypted(Fed(c, k))) <= Limit
<1> DEFINE d == Fed(c, k)
           t == Through(d)
<1>1. /\ Numbered /\ sent \in Nat /\ done \in Records /\ End[done] \in Nat /\ Text[done] \in Nat
      /\ deframer \in Seq(Nat) /\ Len(deframer) \in Nat /\ plain \in Seq(Nat)
      /\ Len(plain) \in Nat /\ Len(got) \in Nat /\ Len(out) \in Nat
  BY Basics
<1>2. Len(d) = Len(deframer) + k /\ Len(d) \in Nat /\ Len(c) \in Nat /\ Limit \in Nat
  BY <1>1, MovedTypes DEF Fed
<1>3. /\ t \in Records /\ done <= t /\ End[t] <= End[done] + Len(deframer) + k
      /\ \A i \in Records : t < i => End[i] > End[done] + Len(deframer) + k
      /\ Pulled = End[t] + Len(Undecrypted(d)) + Len(Rest(c, k))
      /\ Len(Undecrypted(d)) \in Nat /\ Len(Rest(c, k)) = Len(c) - k
  BY FeedingCells
<1> HIDE DEF d
<1>4. /\ Run(plain, Len(got) + Len(out)) /\ Len(got) + Len(out) + Len(plain) = Text[done]
  BY DEF Strong, PlainInv
<1>5. PICK i \in Records : /\ Pulled <= End[i]
                           /\ \/ i <= done + 2 /\ plain = <<>>
                              \/ i <= done + 1 /\ Len(plain) <= Limit
  BY DEF Strong, FedInv
<1>6. ~Full
  <2>1. Len(plain) <= Limit
    BY <1>1, <1>2, <1>5
  <2>2. QED
    BY <1>1, <1>2, <2>1 DEF Full
<1>7. /\ Decrypted(d) \in Seq(Nat)
      /\ Len(Decrypted(d)) = Len(plain) + (Text[t] - Text[done])
      /\ Run(plain, Len(got) + Len(out)) /\ Len(got) + Len(out) + Len(plain) = Text[done] =>
           Run(Decrypted(d), Len(got) + Len(out))
  <2>1. Len(got) + Len(out) \in Nat
    BY <1>1
  <2>2. QED
    BY <1>1, <1>2, <2>1, DecryptedRun
<1>8. Text[t] \in Nat /\ End[t] \in Nat /\ t \in Nat /\ done \in Nat /\ i \in Nat /\ End[i] \in Nat
  BY <1>1, <1>3, EndNat
<1>9. Len(Decrypted(d)) \in Nat
  BY <1>7
<1>10. Len(got) + Len(out) + Len(Decrypted(d)) = Text[t]
  <2>1. Len(Decrypted(d)) = Len(plain) + (Text[t] - Text[done])
    BY <1>7
  <2>2. Len(got) + Len(out) + Len(plain) = Text[done]
    BY <1>4
  <2>3. /\ Len(got) \in Nat /\ Len(out) \in Nat /\ Len(plain) \in Nat
        /\ Text[t] \in Nat /\ Text[done] \in Nat
    BY <1>1, <1>8
  <2>4. QED
    BY <2>1, <2>2, <2>3
<1>11. ASSUME Len(Rest(c, k)) > 0
       PROVE  \/ i <= t + 2 /\ Len(Decrypted(d)) = 0
              \/ i <= t + 1 /\ Len(Decrypted(d)) <= Limit
  <2>1. t < i
    <3>1. End[t] < End[i]
      <4>1. Pulled = End[t] + Len(Undecrypted(d)) + Len(Rest(c, k)) /\ Pulled <= End[i]
        BY <1>3, <1>5
      <4>2. Len(Undecrypted(d)) \in Nat /\ Len(Rest(c, k)) \in Nat
        BY <1>2, <1>3
      <4>3. QED
        BY <1>8, <1>11, <4>1, <4>2
    <3>2. i <= t => End[i] <= End[t]
      BY <1>1, <1>3, EndGrows
    <3>3. QED
      BY <1>8, <3>1, <3>2
  <2>2. CASE t = done
    <3>1. Len(Decrypted(d)) = Len(plain)
      BY <1>1, <1>7, <2>2
    <3>2. plain = <<>> => Len(plain) = 0
      OBVIOUS
    <3>3. QED
      BY <1>5, <2>2, <3>1, <3>2
  <2>3. CASE t # done
    <3>1. t = done + 1 /\ i = done + 2 /\ plain = <<>>
      <4>1. (i <= done + 2 /\ plain = <<>>) \/ i <= done + 1
        BY <1>5
      <4>2. done < t
        BY <1>3, <1>8, <2>3
      <4>3. QED
        BY <1>8, <2>1, <4>1, <4>2
    <3>2. done < Len(script)
      BY <1>1, <1>3, <1>8, <3>1, EndNat
    <3>3. Text[done + 1] <= Text[done] + Limit
      BY <1>1, <3>2, NextRecord
    <3>4. Len(plain) = 0
      BY <3>1
    <3>5. Len(Decrypted(d)) <= Limit
      <4>1. Len(Decrypted(d)) = Len(plain) + (Text[done + 1] - Text[done])
        BY <1>7, <3>1
      <4>2. Text[done + 1] \in Nat
        BY <1>8, <3>1
      <4>3. QED
        BY <1>1, <1>2, <3>3, <3>4, <4>1, <4>2
    <3>6. QED
      BY <1>8, <3>1, <3>5
  <2>4. QED
    BY <2>2, <2>3
<1>12. QED
  BY <1>5, <1>6, <1>7, <1>9, <1>10, <1>11, <1>4 DEF d

\* A TLSSocket feeds a header, or the body after it, and rustls has nothing but that record.
LEMMA SocketCells ==
  ASSUME TypeOK, CallInv, Strong, use = "socket", Unfed > 0
  PROVE  /\ done < Len(script)
         /\ Len(deframer) + Unfed <= MaxWire
         /\ \/ body = 0 /\ Pulled = End[done + 1] /\ plain = <<>> /\ Len(plain) = 0
            \/ body > 0 /\ Pulled = End[done] + 1 /\ Unfed = 1
<1>1. /\ Numbered /\ done \in Records /\ End[done] \in Nat
      /\ Len(deframer) \in Nat /\ Len(ct) \in Nat /\ Len(incoming) \in Nat
  BY Basics
<1>2. Unfed \in Nat /\ Pulled = End[done] + Len(deframer) + Unfed
  BY Amounts
<1>3. body \in Nat /\ MaxWire \in Nat
  BY DEF TypeOK
<1>4. CASE body > 0
  <2>1. done < Len(script) /\ Pulled = End[done] + 1
    BY <1>4 DEF Strong, SocketInv
  <2>2. Len(deframer) = 0 /\ Unfed = 1
    BY <1>1, <1>2, <2>1
  <2>3. QED
    BY <1>3, <1>4, <2>1, <2>2
<1>5. CASE body = 0
  <2>1. done < Len(script) /\ Pulled = End[done + 1]
    <3>1. Pulled # End[done]
      BY <1>1, <1>2
    <3>2. QED
      BY <1>5, <3>1 DEF Strong, SocketInv
  <2>2. /\ End[done + 1] = End[done] + 1 + script[done + 1].size
        /\ script[done + 1].size \in Nat /\ 1 + script[done + 1].size <= MaxWire
    BY <1>1, <2>1, NextRecord
  <2>3. Len(deframer) + Unfed <= MaxWire
    <3>1. Len(deframer) + Unfed = 1 + script[done + 1].size
      <4>1. End[done] + Len(deframer) + Unfed = End[done] + 1 + script[done + 1].size
        BY <1>2, <2>1, <2>2
      <4>2. /\ End[done] \in Nat /\ Len(deframer) \in Nat /\ Unfed \in Nat
            /\ script[done + 1].size \in Nat
        BY <1>1, <1>2, <2>2
      <4>3. QED
        BY <4>1, <4>2
    <3>2. QED
      BY <2>2, <3>1
  <2>4. plain = <<>>
    <3>1. CASE incoming # <<>>
      BY <3>1 DEF Strong, SocketInv
    <3>2. CASE incoming = <<>>
      <4>1. ct # <<>>
        BY <3>2 DEF Unfed
      <4>2. pc = "decrypt"
        BY <4>1 DEF CallInv
      <4>3. QED
        BY <1>5, <4>2 DEF Strong, SocketInv
    <3>3. QED
      BY <3>1, <3>2
  <2>5. QED
    BY <1>5, <2>1, <2>3, <2>4
<1>6. QED
  BY <1>3, <1>4, <1>5

LEMMA FeedingSocket ==
  ASSUME TypeOK, CallInv, Strong, use = "socket",
         NEW c \in Seq(1..sent), Len(c) = Unfed, Run(c, End[done] + Len(deframer)),
         NEW k \in 0..Len(c), Len(deframer) + k <= MaxWire, Unfed > 0
  PROVE  /\ body > 0 => Through(Fed(c, k)) = done
         /\ body = 0 => Through(Fed(c, k)) = IF k = Len(c) THEN done + 1 ELSE done
<1> DEFINE t == Through(Fed(c, k))
<1>1. /\ Numbered /\ done \in Records /\ End[done] \in Nat /\ Len(deframer) \in Nat
      /\ sent \in Nat
  BY Basics
<1>2. /\ t \in Records /\ done <= t /\ End[t] <= End[done] + Len(deframer) + k
      /\ \A i \in Records : t < i => End[i] > End[done] + Len(deframer) + k
  BY FeedingCells
<1> HIDE DEF t
<1>3. Pulled = End[done] + Len(deframer) + Len(c) /\ Len(c) \in Nat
  BY Amounts
<1>4. /\ done < Len(script)
      /\ body = 0 => Pulled = End[done + 1]
      /\ body > 0 => Pulled = End[done] + 1
      /\ body \in Nat
  <2>1. body \in Nat
    BY DEF TypeOK
  <2>2. QED
    BY <2>1, SocketCells
<1>5. /\ done + 1 \in Records /\ script[done + 1].size \in Nat \ {0}
      /\ End[done + 1] = End[done] + 1 + script[done + 1].size
  BY <1>1, <1>4, NextRecord
<1>6. End[t] \in Nat /\ t \in Nat /\ done \in Nat /\ End[done + 1] \in Nat
  BY <1>1, <1>2, <1>5, EndNat
<1>7. k \in Nat /\ k <= Len(c)
  BY <1>3
<1>8. done + 1 <= t => End[done + 1] <= End[t]
  BY <1>1, <1>2, <1>5, EndGrows
<1>9. ASSUME End[done] + Len(deframer) + k < End[done + 1]
      PROVE  t = done
  BY <1>1, <1>2, <1>6, <1>7, <1>8, <1>9
<1>10. CASE body > 0
  <2>1. End[done] + Len(deframer) + k < End[done + 1]
    <3>1. Len(deframer) + Len(c) = 1
      BY <1>1, <1>3, <1>4, <1>10
    <3>2. End[done] \in Nat /\ Len(deframer) \in Nat /\ Len(c) \in Nat
      BY <1>1, <1>3
    <3>3. QED
      BY <1>5, <1>7, <3>1, <3>2
  <2>2. QED
    BY <1>9, <1>10, <2>1 DEF t
<1>11. CASE body = 0 /\ k # Len(c)
  <2>1. End[done] + Len(deframer) + k < End[done + 1]
    <3>1. k < Len(c) /\ Len(c) \in Nat
      BY <1>3, <1>7, <1>11
    <3>2. End[done + 1] = End[done] + Len(deframer) + Len(c)
      BY <1>3, <1>4, <1>11
    <3>3. End[done] \in Nat /\ Len(deframer) \in Nat
      BY <1>1
    <3>4. QED
      BY <1>7, <3>1, <3>2, <3>3
  <2>2. QED
    BY <1>9, <1>11, <2>1 DEF t
<1>12. CASE body = 0 /\ k = Len(c)
  <2>1. End[done] + Len(deframer) + k = End[done + 1]
    BY <1>3, <1>4, <1>12
  <2>2. ~(t < done + 1)
    BY <1>1, <1>2, <1>5, <1>6, <2>1
  <2>3. ASSUME t > done + 1
        PROVE  FALSE
    <3>1. End[done + 1] < End[t]
      BY <1>1, <1>2, <1>5, <1>6, <2>3, EndSteps
    <3>2. QED
      BY <1>2, <1>6, <2>1, <3>1
  <2>4. t = done + 1
    BY <1>6, <2>2, <2>3
  <2>5. QED
    BY <1>12, <2>4 DEF t
<1>13. QED
  BY <1>4, <1>10, <1>11, <1>12

\* close_notify is decrypted when all that came before was read.
LEMMA FeedingClose ==
  ASSUME TypeOK, CallInv, Strong, NEW c \in Seq(1..sent), Len(c) = Unfed,
         Run(c, End[done] + Len(deframer)),
         NEW k \in 0..Len(c), Len(deframer) + k <= MaxWire, Unfed > 0,
         Closed(Through(Fed(c, k)))
  PROVE  /\ Through(Fed(c, k)) = Len(script) /\ done + 1 = Len(script)
         /\ script[Len(script)].kind = "close"
         /\ Decrypted(Fed(c, k)) = <<>> /\ out = <<>>
         /\ Len(got) = SentText /\ SentClose
<1> DEFINE d == Fed(c, k)
           t == Through(d)
           L == Len(script)
<1>1. /\ Numbered /\ done \in Records /\ End[done] \in Nat /\ Text[done] \in Nat
      /\ Len(deframer) \in Nat /\ sent \in Nat /\ sent <= End[L]
      /\ Len(plain) \in Nat /\ Len(got) \in Nat
  BY Basics
<1>2. t \in Records /\ done <= t /\ End[t] <= End[done] + Len(deframer) + k
  BY FeedingCells
<1>3. /\ Decrypted(d) \in Seq(Nat) /\ Len(Decrypted(d)) = Len(plain) + (Text[t] - Text[done])
      /\ Len(got) + Len(out) + Len(Decrypted(d)) = Text[t]
  BY FeedingUnits
<1> HIDE DEF d
<1>4. t = L /\ L # 0 /\ script[L].kind = "close" /\ Text[L] = Text[L - 1] /\ L - 1 \in Records
  BY <1>1, <1>2, ClosedIsLast DEF d
<1>5. L \in Nat /\ L - 1 \in Nat /\ done \in Nat /\ End[L] \in Nat /\ End[L - 1] \in Nat /\ Text[L] \in Nat
  BY <1>1, <1>2, <1>4, EndNat
<1>6. /\ Pulled = End[done] + Len(deframer) + Len(c) /\ Pulled \in Nat /\ Len(c) \in Nat
      /\ Pulled <= sent
  BY Amounts
<1>7. Pulled = End[L] /\ sent = End[L]
  <2> HIDE DEF L
  <2>1. End[L] <= End[done] + Len(deframer) + k
    BY <1>2, <1>4
  <2>2. k \in Nat /\ k <= Len(c)
    BY <1>6
  <2>3. End[L] <= Pulled
    <3>1. End[L] \in Nat
      BY <1>5
    <3>2. End[done] \in Nat /\ Len(deframer) \in Nat
      BY <1>1
    <3>3. Pulled = End[done] + Len(deframer) + Len(c) /\ Len(c) \in Nat
      BY <1>6
    <3>4. QED
      BY <2>1, <2>2, <3>1, <3>2, <3>3
  <2>4. Pulled = End[L]
    <3>1. sent \in Nat /\ sent <= End[L]
      BY <1>1
    <3>2. End[L] \in Nat
      BY <1>5
    <3>3. Pulled \in Nat /\ Pulled <= sent
      BY <1>6
    <3>4. QED
      BY <2>3, <3>1, <3>2, <3>3
  <2>5. QED
    BY <1>1, <1>5, <1>6, <2>4
<1>8. done # L
  <2>1. ~Closed(done)
    BY DEF Strong, FlagInv
  <2>2. Closed(L)
    BY <1>4 DEF d
  <2>3. QED
    BY <2>1, <2>2
<1>9. done + 1 = L /\ plain = <<>> /\ out = <<>>
  <2>1. CASE use = "bio"
    <3>1. Pulled > End[L - 1]
      <4>1. End[L - 1] < End[L]
        <5>1. L \in Records /\ L - 1 < L
          BY <1>2, <1>4, <1>5
        <5>2. QED
          BY <1>1, <1>4, <5>1, EndSteps
      <4>2. QED
        BY <1>7, <4>1
    <3>2. QED
      BY <1>4, <1>5, <2>1, <3>1 DEF Strong, BioInv
  <2>2. CASE use = "socket"
    <3>1. /\ body > 0 => t = done
          /\ body = 0 => t = IF k = Len(c) THEN done + 1 ELSE done
      BY <2>2, FeedingSocket DEF d
    <3>2. /\ body = 0 => plain = <<>>
          /\ body \in Nat
      BY <2>2, SocketCells DEF TypeOK
    <3>3. out = <<>>
      BY <2>2 DEF Strong, SocketInv
    <3>4. QED
      BY <1>4, <1>5, <1>8, <3>1, <3>2, <3>3
  <2>3. QED
    BY <2>1, <2>2 DEF TypeOK
<1>10. Len(Decrypted(d)) = 0
  <2>1. done = L - 1 /\ Len(plain) = 0
    BY <1>5, <1>9
  <2>2. QED
    BY <1>1, <1>3, <1>4, <1>5, <2>1
<1>11. Decrypted(d) = <<>>
  BY <1>3, <1>10, Empty
<1>12. SentText = Text[L] /\ SentClose
  <2>1. L \in Records
    BY <1>5 DEF Records
  <2>2. Whole(L)
    BY <1>1, <1>5, <1>7, <2>1, WholeFrom
  <2>3. Closed(L)
    BY <1>4 DEF d
  <2>4. QED
    BY <1>1, <2>1, <2>2, <2>3, WholeIs
<1>13. Len(got) = SentText
  <2>1. Len(out) = 0
    BY <1>9
  <2>2. Len(got) + Len(out) + Len(Decrypted(d)) = Text[L]
    BY <1>3, <1>4
  <2>3. QED
    BY <1>1, <1>10, <1>12, <2>1, <2>2
<1>14. QED
  BY <1>4, <1>9, <1>11, <1>12, <1>13 DEF d

-----------------------------------------------------------------------------
(* The pump *)

\* Nothing stands in the way of the pump.
LEMMA PumpWorks ==
  ASSUME TypeOK, Strong, ct = <<>>
  PROVE  /\ ~PumpFails
         /\ incoming \in Seq(1..sent) /\ Len(incoming) = Unfed
         /\ Run(incoming, End[done] + Len(deframer))
         /\ Pumped \in 0..Len(incoming) /\ Len(deframer) + Pumped <= MaxWire
         /\ PutBack = Rest(incoming, Pumped)
<1>1. /\ incoming \in Seq(1..sent) /\ Len(incoming) \in Nat
      /\ Pumped \in 0..Len(incoming) /\ Len(deframer) + Pumped <= MaxWire
  BY Moved, Basics DEF TypeOK
<1>2. Len(incoming) = Unfed
  BY <1>1 DEF Unfed
<1>3. Run(incoming, End[done] + Len(deframer))
  BY DEF Strong, RunInv
<1>4. Intact(Fed(incoming, Pumped))
  BY <1>1, <1>2, <1>3, FeedingCells
<1>5. ~Closed(done) /\ (eof => incoming = <<>>)
  BY DEF Strong, FlagInv
<1>6. PutBack = Rest(incoming, Pumped)
  BY <1>5 DEF PutBack
<1>7. eof => PutBack = <<>>
  <2>1. CASE incoming = <<>>
    <3>1. Pumped = Len(incoming)
      BY <1>1, <2>1
    <3>2. Rest(incoming, Pumped) = <<>>
      BY <1>1, <3>1, RestNone
    <3>3. QED
      BY <1>6, <3>2
  <2>2. QED
    BY <1>5, <2>1
<1>8. QED
  BY <1>1, <1>2, <1>3, <1>4, <1>6, <1>7 DEF PumpFails, Fed

LEMMA PumpNothing ==
  ASSUME TypeOK, Strong, ct = <<>>, incoming = <<>>, Pump
  PROVE  UNCHANGED <<incoming, deframer, done, plain>>
<1>1. /\ Numbered /\ done \in Records /\ End[done] \in Nat /\ Text[done] \in Nat
      /\ deframer \in Seq(Nat) /\ Len(deframer) \in Nat /\ plain \in Seq(Nat)
  BY Basics
<1>2. Pumped \in 0..Len(incoming) /\ PutBack = Rest(incoming, Pumped)
  BY PumpWorks
<1>3. Pumped = 0
  BY <1>2
<1>4. SubSeq(incoming, 1, Pumped) = <<>>
  BY <1>3
<1>5. deframer \o SubSeq(incoming, 1, Pumped) = deframer
  <2>1. deframer \o <<>> = deframer
    BY <1>1
  <2>2. QED
    BY <1>4, <2>1, Zenon
<1>6. PutBack = <<>>
  BY <1>2, <1>3 DEF Rest
<1>7. Through(deframer) = done
  <2>1. /\ Through(deframer) \in Records /\ done <= Through(deframer)
    BY <1>1, ThroughIs
  <2>2. /\ done \in Nat /\ done <= Len(script) /\ Len(script) \in Nat
        /\ Through(deframer) \in Nat /\ Through(deframer) <= Len(script)
    BY <1>1, <2>1, EndNat
  <2>3. CASE done < Len(script)
    <3>1. /\ done + 1 \in Records /\ End[done + 1] = End[done] + 1 + script[done + 1].size
          /\ script[done + 1].size \in Nat
      BY <1>1, <2>3, NextRecord
    <3>2. Len(deframer) < 1 + script[done + 1].size
      BY <2>3 DEF Strong, RunInv
    <3>3. End[done] + Len(deframer) < End[done + 1]
      BY <1>1, <3>1, <3>2
    <3>4. Through(deframer) < done + 1
      BY <1>1, <3>1, <3>3, ThroughBelow
    <3>5. QED
      BY <2>1, <2>2, <3>4
  <2>4. CASE done = Len(script)
    BY <2>1, <2>2, <2>4
  <2>5. QED
    BY <2>2, <2>3, <2>4
<1>8. Undecrypted(deframer) = deframer
  <2>1. End[Through(deframer)] - End[done] = 0
    BY <1>1, <1>7
  <2>2. QED
    BY <1>1, <2>1, RestNone DEF Undecrypted
<1>9. Decrypted(deframer) = plain
  <2>1. Span(Text[done], Text[Through(deframer)]) = <<>>
    <3>1. Text[Through(deframer)] - Text[done] = 0
      BY <1>1, <1>7
    <3>2. QED
      BY <3>1 DEF Span
  <2>2. QED
    BY <1>1, <2>1 DEF Decrypted
<1>10. QED
  BY <1>5, <1>6, <1>7, <1>8, <1>9 DEF Pump

\* The pump keeps what holds of the cells and of the units.
LEMMA Pumping ==
  ASSUME TypeOK, CallInv, Strong, ct = <<>>, incoming # <<>>, Pump,
         UNCHANGED <<script, use, sent, taken, piece, ct, out, got>>
  PROVE  RunInv' /\ PlainInv' /\ FedInv'
<1> DEFINE d == Fed(incoming, Pumped)
           t == Through(d)
           r == Rest(incoming, Pumped)
<1>1. /\ incoming \in Seq(1..sent) /\ Len(incoming) = Unfed
      /\ Run(incoming, End[done] + Len(deframer))
      /\ Pumped \in 0..Len(incoming) /\ Len(deframer) + Pumped <= MaxWire
      /\ PutBack = Rest(incoming, Pumped)
  BY PumpWorks
<1>2. Unfed > 0 /\ Unfed \in Nat
  BY <1>1, Empty, Amounts
<1>3. /\ Run(Undecrypted(d), End[t])
      /\ t < Len(script) => Len(Undecrypted(d)) < 1 + script[t + 1].size
      /\ t = Len(script) => Undecrypted(d) = <<>>
      /\ Run(r, End[t] + Len(Undecrypted(d)))
      /\ Pulled = End[t] + Len(Undecrypted(d)) + Len(r)
      /\ Len(r) = Len(incoming) - Pumped
  BY <1>1, FeedingCells
<1>4. /\ Run(Decrypted(d), Len(got) + Len(out))
      /\ Len(got) + Len(out) + Len(Decrypted(d)) = Text[t]
      /\ Decrypted(d) \in Seq(Nat)
      /\ Len(r) > 0 => \E i \in Records :
                          /\ Pulled <= End[i]
                          /\ \/ i <= t + 2 /\ Len(Decrypted(d)) = 0
                             \/ i <= t + 1 /\ Len(Decrypted(d)) <= Limit
  BY <1>1, <1>2, FeedingUnits
<1>5. /\ deframer' = Undecrypted(d) /\ done' = t /\ plain' = Decrypted(d) /\ incoming' = r
      /\ End' = End /\ Text' = Text /\ Records' = Records /\ Pulled' = Pulled
  <2>1. End' = End /\ Text' = Text
    BY SameRecords
  <2>2. QED
    BY <1>1, <2>1 DEF Pump, Fed, Records, Pulled
<1> HIDE DEF d, t, r
<1>6. Unfed' = Len(r)
  <2>1. Len(r) \in Nat /\ Len(ct') = 0
    BY <1>1, <1>2, <1>3
  <2>2. QED
    BY <1>5, <2>1 DEF Unfed
<1>7. RunInv'
  <2>1. ct' = <<>> \/ incoming' = <<>>
    OBVIOUS
  <2>2. Run(deframer', End'[done'])
    BY <1>3, <1>5
  <2>3. Run(incoming', End'[done'] + Len(deframer'))
    BY <1>3, <1>5
  <2>4. Run(ct', End'[done'] + Len(deframer'))
    BY DEF Run
  <2>5. Run(piece', Pulled')
    BY <1>5 DEF Strong, RunInv
  <2>6. Pulled' = End'[done'] + Len(deframer') + Unfed'
    BY <1>3, <1>5, <1>6
  <2>7. /\ done' < Len(script') => Len(deframer') < 1 + script'[done' + 1].size
        /\ done' = Len(script') => deframer' = <<>>
    BY <1>3, <1>5
  <2>8. QED
    BY <2>1, <2>2, <2>3, <2>4, <2>5, <2>6, <2>7 DEF RunInv
<1>8. PlainInv'
  <2>1. Run(got', 0) /\ Run(out', Len(got'))
    BY DEF Strong, PlainInv
  <2>2. /\ Run(plain', Len(got') + Len(out'))
        /\ Len(got') + Len(out') + Len(plain') = Text'[done']
    BY <1>4, <1>5
  <2>3. QED
    BY <2>1, <2>2 DEF PlainInv
<1>9. FedInv'
  <2>1. ASSUME Unfed' > 0
        PROVE  \E i \in Records' : /\ Pulled' <= End'[i]
                                   /\ \/ i <= done' + 2 /\ plain' = <<>>
                                      \/ i <= done' + 1 /\ Len(plain') <= Limit
    <3>1. PICK i \in Records : /\ Pulled <= End[i]
                               /\ \/ i <= t + 2 /\ Len(Decrypted(d)) = 0
                                  \/ i <= t + 1 /\ Len(Decrypted(d)) <= Limit
      BY <1>4, <1>6, <2>1
    <3>2. Len(Decrypted(d)) = 0 => Decrypted(d) = <<>>
      BY <1>4, Empty
    <3>3. QED
      BY <1>5, <3>1, <3>2
  <2>2. QED
    BY <2>1 DEF FedInv
<1>10. QED
  BY <1>7, <1>8, <1>9

\* What the pump means for who uses the connection.
LEMMA PumpingEnds ==
  ASSUME TypeOK, CallInv, Strong, ct = <<>>, incoming # <<>>, Pump,
         UNCHANGED <<script, use, sent, cut, taken, piece, body, ct, out, got>>
  PROVE  /\ ~eof' /\ ~Full
         /\ Closed(done') => plain' = <<>> /\ done + 1 = Len(script)
                             /\ script[Len(script)].kind = "close"
         /\ use = "bio" /\ Unfed' > 0 /\ script[Len(script)].kind = "close"
              /\ Pulled' > End[Len(script) - 1] =>
                done' = Len(script) - 1 /\ plain' = <<>> /\ out = <<>>
         /\ use = "socket" => /\ incoming' = <<>> /\ Len(plain') <= Limit
                              /\ body = 0 => Pulled' = End[done']
                              /\ body > 0 => done' = done /\ plain' = <<>>
<1> DEFINE d == Fed(incoming, Pumped)
           t == Through(d)
           r == Rest(incoming, Pumped)
           L == Len(script)
<1>1. /\ incoming \in Seq(1..sent) /\ Len(incoming) = Unfed
      /\ Run(incoming, End[done] + Len(deframer))
      /\ Pumped \in 0..Len(incoming) /\ Len(deframer) + Pumped <= MaxWire
      /\ PutBack = Rest(incoming, Pumped)
  BY PumpWorks
<1>2. Unfed > 0 /\ Unfed \in Nat
  BY <1>1, Empty, Amounts
<1>3. /\ Numbered /\ done \in Records /\ End[done] \in Nat /\ Text[done] \in Nat
      /\ Len(deframer) \in Nat /\ sent \in Nat /\ sent <= End[L] /\ Len(plain) \in Nat
  BY Basics
<1>4. /\ deframer' = Undecrypted(d) /\ done' = t /\ plain' = Decrypted(d) /\ incoming' = r
      /\ eof' = eof /\ Pulled' = Pulled
  BY <1>1 DEF Pump, Fed, Pulled
<1>5. /\ t \in Records /\ done <= t /\ End[t] <= End[done] + Len(deframer) + Pumped
      /\ Pulled = End[t] + Len(Undecrypted(d)) + Len(r)
      /\ Len(Undecrypted(d)) \in Nat /\ Len(r) = Len(incoming) - Pumped
  BY <1>1, FeedingCells
<1>6. /\ ~Full /\ Decrypted(d) \in Seq(Nat)
      /\ Len(Decrypted(d)) = Len(plain) + (Text[t] - Text[done])
  BY <1>1, <1>2, FeedingUnits
<1>7. Closed(t) => /\ t = L /\ done + 1 = L /\ script[L].kind = "close"
                   /\ Decrypted(d) = <<>> /\ out = <<>>
  BY <1>1, <1>2, FeedingClose
<1>8. ~eof' /\ ~Full
  BY <1>4, <1>6 DEF Strong, FlagInv
<1> HIDE DEF d, t, r
<1>9. t \in Nat /\ done \in Nat /\ L \in Nat /\ End[t] \in Nat /\ Text[t] \in Nat /\ t <= L
  BY <1>3, <1>5, EndNat
<1>10. Len(incoming) \in Nat /\ Pumped \in Nat /\ Len(r) \in Nat
  BY <1>1, <1>2, <1>5
<1>11. ASSUME use = "bio", Unfed' > 0, script[L].kind = "close", Pulled' > End[L - 1]
       PROVE  done' = L - 1 /\ plain' = <<>> /\ out = <<>>
  <2>1. done = L - 1 /\ plain = <<>> /\ out = <<>>
    BY <1>2, <1>4, <1>11 DEF Strong, BioInv
  <2>2. Len(r) > 0
    <3>1. Unfed' = Len(r)
      <4>1. Len(ct') = 0
        OBVIOUS
      <4>2. QED
        BY <1>4, <1>10, <4>1 DEF Unfed
    <3>2. QED
      BY <1>11, <3>1
  <2>3. t # L
    <3>1. Pulled <= sent
      BY Amounts
    <3>2. End[t] < Pulled /\ Pulled \in Nat
      BY <1>5, <1>9, <1>10, <2>2
    <3>3. End[t] < sent
      BY <1>3, <1>9, <3>1, <3>2
    <3>4. t = L => sent <= End[t]
      BY <1>3
    <3>5. QED
      BY <1>3, <1>9, <3>3, <3>4
  <2>4. t = L - 1
    BY <1>5, <1>9, <2>1, <2>3
  <2>5. Len(Decrypted(d)) = 0
    <3>1. Text[t] = Text[done] /\ Len(plain) = 0
      BY <2>1, <2>4
    <3>2. QED
      BY <1>3, <1>6, <3>1
  <2>6. Decrypted(d) = <<>>
    BY <1>6, <2>5, Empty
  <2>7. QED
    BY <1>4, <2>1, <2>4, <2>6
<1>12. ASSUME use = "socket"
       PROVE  /\ incoming' = <<>> /\ Len(plain') <= Limit
              /\ body = 0 => Pulled' = End[done']
              /\ body > 0 => done' = done /\ plain' = <<>>
  <2>1. /\ done < L /\ Len(deframer) + Unfed <= MaxWire
        /\ body = 0 => Pulled = End[done + 1]
    BY <1>2, <1>12, SocketCells
  <2>2. plain = <<>> /\ Len(plain) = 0
    BY <1>12 DEF Strong, SocketInv
  <2>3. /\ body > 0 => t = done
        /\ body = 0 => t = IF Pumped = Len(incoming) THEN done + 1 ELSE done
    BY <1>1, <1>2, <1>12, FeedingSocket DEF d, t
  <2>4. Pumped = Len(incoming)
    <3>1. ~Closed(done) /\ ~Full
      BY <1>6 DEF Strong, FlagInv
    <3>2. Pumped = Least(MaxWire - Len(deframer), Len(incoming))
      BY <3>1 DEF Pumped
    <3>3. QED
      BY <1>1, <1>3, <1>10, <2>1, <3>2
  <2>5. r = <<>>
    BY <1>1, <2>4, RestNone DEF r
  <2>6. Text[done + 1] <= Text[done] + Limit /\ done + 1 \in Records
    BY <1>3, <2>1, NextRecord
  <2>7. Len(Decrypted(d)) <= Limit
    <3>1. CASE t = done
      <4>1. Len(Decrypted(d)) = 0
        BY <1>3, <1>6, <2>2, <3>1
      <4>2. QED
        BY <4>1
    <3>2. CASE t = done + 1
      <4>1. Len(Decrypted(d)) = Text[done + 1] - Text[done] /\ Text[done + 1] \in Nat
        BY <1>3, <1>6, <1>9, <2>2, <3>2
      <4>2. QED
        BY <1>3, <2>6, <4>1
    <3>3. body = 0 \/ body > 0
      BY DEF TypeOK
    <3>4. QED
      BY <2>3, <3>1, <3>2, <3>3
  <2>8. body > 0 => Decrypted(d) = <<>>
    <3>1. ASSUME body > 0 PROVE Len(Decrypted(d)) = 0
      BY <1>3, <1>6, <2>2, <2>3, <3>1
    <3>2. QED
      BY <1>6, <3>1, Empty
  <2>9. QED
    BY <1>4, <2>1, <2>3, <2>4, <2>5, <2>7, <2>8
<1>13. QED
  BY <1>4, <1>7, <1>8, <1>11, <1>12

-----------------------------------------------------------------------------
(* What holds until the end is told, action by action *)

LEMMA QuietStrong ==
  ASSUME TypeOK, CallInv, Strong, Kept, told = "open", told' = "open",
         \/ PeerSends \/ PeerCuts \/ UnwrapCall \/ WouldBlock \/ TcpEof \/ BioEof
         \/ \E k \in ReadSizes : RecvCall(k) \/ ReadCall(k)
  PROVE  Strong'
<1>1. /\ UNCHANGED <<script, use, taken, piece, body, incoming>>
      /\ UNCHANGED <<deframer, done, plain, pendingCt, maybeBuffered>>
      /\ UNCHANGED <<handshakeDone, peerClosed, shutdown, ct, out, got>>
  <2>1. CASE PeerSends \/ PeerCuts
    BY <2>1 DEF PeerSends, PeerCuts
  <2>2. CASE UnwrapCall
    BY <2>2 DEF UnwrapCall, Continue
  <2>3. CASE WouldBlock
    BY <2>3 DEF WouldBlock, WantRead
  <2>4. CASE TcpEof
    BY <2>4 DEF TcpEof, Continue, Tell
  <2>5. CASE BioEof
    BY <2>5 DEF BioEof
  <2>6. CASE \E k \in ReadSizes : RecvCall(k) \/ ReadCall(k)
    <3>1. PICK k \in ReadSizes : RecvCall(k) \/ ReadCall(k)
      BY <2>6
    <3>2. CASE RecvCall(k)
      BY <3>2 DEF RecvCall, Continue, Tell
    <3>3. CASE ReadCall(k)
      BY <3>3 DEF ReadCall, Continue, Tell
    <3>4. QED
      BY <3>1, <3>2, <3>3
  <2>7. QED
    BY <2>1, <2>2, <2>3, <2>4, <2>5, <2>6
<1>2. End' = End /\ Text' = Text
  BY <1>1 DEF End, Text
<1>3. Pulled' = Pulled /\ Unfed' = Unfed /\ Records' = Records
  BY <1>1 DEF Pulled, Unfed, Records
<1>4. FlagInv'
  <2>1. ~peerClosed' /\ ~shutdown' /\ pendingCt' = <<>>
    BY <1>1 DEF Strong, FlagInv
  <2>2. ~Closed(done)'
    BY <1>1 DEF Strong, FlagInv, Closed
  <2>3. ~handshakeDone' => plain' = <<>> /\ Handshaking(done)'
    BY <1>1 DEF Strong, FlagInv, Handshaking
  <2>4. eof' => cut' /\ taken' = sent' /\ ct' = <<>> /\ incoming' = <<>>
    <3>1. eof => cut /\ taken = sent /\ ct = <<>> /\ incoming = <<>>
      BY DEF Strong, FlagInv
    <3>2. CASE PeerSends
      BY <3>1, <3>2 DEF PeerSends
    <3>3. CASE PeerCuts
      BY <3>1, <3>3 DEF PeerCuts
    <3>4. CASE UnwrapCall \/ WouldBlock \/ \E k \in ReadSizes : RecvCall(k) \/ ReadCall(k)
      <4>1. UNCHANGED <<cut, taken, sent, eof>>
        <5>1. CASE UnwrapCall \/ WouldBlock
          BY <5>1 DEF UnwrapCall, WouldBlock
        <5>2. CASE \E k \in ReadSizes : RecvCall(k)
          BY <5>2 DEF RecvCall
        <5>3. CASE \E k \in ReadSizes : ReadCall(k)
          BY <5>3 DEF ReadCall
        <5>4. QED
          BY <3>4, <5>1, <5>2, <5>3
      <4>2. QED
        BY <1>1, <3>1, <4>1
    <3>5. CASE TcpEof
      <4>1. pc = "net"
        BY <3>5 DEF TcpEof, Tell
      <4>2. use = "socket"
        BY <4>1 DEF CallInv, TypeOK, Kept
      <4>3. incoming = <<>> /\ ct = <<>>
        BY <4>1, <4>2 DEF Strong, SocketInv, CallInv
      <4>4. QED
        BY <1>1, <3>5, <4>3 DEF TcpEof
    <3>6. CASE BioEof
      <4>1. Apart /\ ct = <<>>
        BY <3>6 DEF BioEof, Kept, Idle, CallInv
      <4>2. QED
        BY <1>1, <3>6, <4>1 DEF BioEof
    <3>7. QED
      BY <3>2, <3>3, <3>4, <3>5, <3>6
  <2>5. QED
    BY <2>1, <2>2, <2>3, <2>4 DEF FlagInv
<1>5. RunInv'
  BY <1>1, <1>2, <1>3 DEF Strong, RunInv
<1>6. PlainInv'
  BY <1>1, <1>2 DEF Strong, PlainInv
<1>7. FedInv'
  BY <1>1, <1>2, <1>3 DEF Strong, FedInv
<1>8. BioInv'
  <2>1. use = "bio" => /\ pc' = "idle" /\ waiting' => plain = <<>>
    <3>1. use = "bio" /\ pc = "idle" /\ waiting => plain = <<>>
      BY DEF Strong, BioInv
    <3>2. CASE PeerSends \/ PeerCuts \/ BioEof
      BY <3>1, <3>2 DEF PeerSends, PeerCuts, BioEof
    <3>3. CASE UnwrapCall \/ \E k \in ReadSizes : RecvCall(k) \/ ReadCall(k)
      <4>1. told' = "open" => pc' # "idle"
        BY <3>3 DEF UnwrapCall, RecvCall, ReadCall, Continue, Tell, Idle
      <4>2. QED
        BY <4>1
    <3>4. CASE WouldBlock \/ TcpEof
      BY <3>4 DEF WouldBlock, TcpEof, Pulling, CallInv
    <3>5. QED
      BY <3>2, <3>3, <3>4
  <2>2. QED
    BY <1>1, <1>2, <1>3, <2>1 DEF Strong, BioInv
<1>9. SocketInv'
  <2>1. ASSUME use = "socket" PROVE SocketInv'
    <3>1. CASE pc' = pc /\ shutdownSent' = shutdownSent
      BY <1>1, <1>2, <1>3, <2>1, <3>1 DEF Strong, SocketInv
    <3>2. CASE /\ pc \notin {"handshake", "decrypt", "unwrap"}
               /\ pc' \notin {"net", "decrypt", "pull", "unwrapPull"}
               /\ shutdownSent => shutdownSent'
      <4>1. /\ body = 0 => Pulled = End[done]
            /\ incoming = <<>>
            /\ plain # <<>> /\ ~maybeBuffered => shutdownSent /\ body = 0
        BY <2>1, <3>2 DEF Strong, SocketInv
      <4>2. QED
        BY <1>1, <1>2, <1>3, <2>1, <3>2, <4>1 DEF Strong, SocketInv
    <3>3. QED
      <4>1. CASE PeerSends \/ PeerCuts
        BY <3>1, <4>1 DEF PeerSends, PeerCuts
      <4>2. CASE BioEof
        BY <3>1, <4>2 DEF BioEof
      <4>3. CASE UnwrapCall
        BY <3>2, <4>3 DEF UnwrapCall, Idle, Continue
      <4>4. CASE \E k \in ReadSizes : RecvCall(k) \/ ReadCall(k)
        BY <3>2, <4>4 DEF RecvCall, ReadCall, Idle, Continue, Tell
      <4>5. CASE WouldBlock
        BY <3>2, <4>5 DEF WouldBlock, WantRead, Pulling
      <4>6. CASE TcpEof
        BY <3>2, <4>6 DEF TcpEof, Pulling, Continue, Tell
      <4>7. QED
        BY <4>1, <4>2, <4>3, <4>4, <4>5, <4>6
  <2>2. QED
    BY <1>1, <2>1 DEF SocketInv
<1>10. QED
  BY <1>4, <1>5, <1>6, <1>7, <1>8, <1>9 DEF Strong

\* Basics of the next state, when the peer sends nothing.
LEMMA BasicsNext ==
  ASSUME TypeOK, TypeOK', UNCHANGED <<script, sent>>
  PROVE  /\ End' = End /\ Text' = Text /\ Records' = Records /\ done' \in Records
         /\ \A s \in {piece', incoming', deframer', ct'} : s \in Seq(Nat) /\ Len(s) \in Nat
         /\ \A s \in {plain', out', got'} : s \in Seq(Nat) /\ Len(s) \in Nat
<1>1. End' = End /\ Text' = Text /\ SentRecords' = SentRecords /\ SentText' = SentText
  BY SameRecords
<1>2. Numbered /\ sent \in Nat /\ SentText \in Nat
  BY Basics
<1>3. \A s : s \in Seq(1..sent) \/ s \in Seq(1..SentText) => s \in Seq(Nat) /\ Len(s) \in Nat
  <2>1. Seq(1..sent) \subseteq Seq(Nat) /\ Seq(1..SentText) \subseteq Seq(Nat)
    BY <1>2, Wider
  <2>2. QED
    BY <2>1
<1>4. done' \in Records
  <2>1. PICK j \in Records : Whole(j)
    BY <1>2, SentWhole
  <2>2. Cardinality(SentRecords) = j
    BY <1>2, <2>1, WholeIs
  <2>3. done' \in 0..j
    BY <1>1, <2>2 DEF TypeOK
  <2>4. QED
    BY <1>2, <2>3, EndNat DEF Records
<1>5. \A s \in {piece', incoming', deframer', ct'} : s \in Seq(Nat) /\ Len(s) \in Nat
  <2>1. piece' \in Seq(1..sent) /\ incoming' \in Seq(1..sent)
    BY DEF TypeOK
  <2>2. deframer' \in Seq(1..sent) /\ ct' \in Seq(1..sent)
    BY DEF TypeOK
  <2>3. QED
    BY <1>3, <2>1, <2>2
<1>6. \A s \in {plain', out', got'} : s \in Seq(Nat) /\ Len(s) \in Nat
  <2>1. plain' \in Seq(1..SentText) /\ out' \in Seq(1..SentText) /\ got' \in Seq(1..SentText)
    BY <1>1 DEF TypeOK
  <2>2. QED
    BY <1>3, <2>1
<1>7. QED
  BY <1>1, <1>4, <1>5, <1>6 DEF Records

\* What the pump leaves, whether it had something to feed or not.
LEMMA AfterPump ==
  ASSUME TypeOK, CallInv, Strong, pc \in {"handshake", "unwrap"},
         Pump \/ (incoming = <<>> /\ UNCHANGED <<incoming, eof, deframer, done, plain>>),
         UNCHANGED <<script, use, sent, cut, taken, piece, body, ct, out, got>>
  PROVE  /\ RunInv' /\ PlainInv' /\ FedInv'
         /\ eof' => cut /\ taken = sent /\ ct' = <<>> /\ incoming' = <<>>
         /\ Closed(done') => plain' = <<>> /\ done + 1 = Len(script)
                             /\ script[Len(script)].kind = "close"
         /\ use = "bio" /\ Unfed' > 0 /\ script[Len(script)].kind = "close"
              /\ Pulled' > End[Len(script) - 1] =>
                done' = Len(script) - 1 /\ plain' = <<>> /\ out = <<>>
         /\ use = "socket" => /\ incoming' = <<>> /\ Len(plain') <= Limit
                              /\ body = 0 => Pulled' = End[done']
                              /\ body > 0 => done' = done /\ plain' = plain
<1>1. ct = <<>> /\ out = <<>>
  BY DEF CallInv
<1>2. CASE incoming # <<>>
  <2>1. Pump
    BY <1>2
  <2>2. RunInv' /\ PlainInv' /\ FedInv'
    BY <1>1, <1>2, <2>1, Pumping
  <2>3. /\ ~eof'
        /\ Closed(done') => plain' = <<>> /\ done + 1 = Len(script)
                            /\ script[Len(script)].kind = "close"
        /\ use = "bio" /\ Unfed' > 0 /\ script[Len(script)].kind = "close"
             /\ Pulled' > End[Len(script) - 1] =>
               done' = Len(script) - 1 /\ plain' = <<>> /\ out = <<>>
        /\ use = "socket" => /\ incoming' = <<>> /\ Len(plain') <= Limit
                             /\ body = 0 => Pulled' = End[done']
                             /\ body > 0 => done' = done /\ plain' = <<>>
    BY <1>1, <1>2, <2>1, PumpingEnds
  <2>4. use = "socket" => plain = <<>>
    BY <1>2 DEF Strong, SocketInv
  <2>5. QED
    BY <2>2, <2>3, <2>4
<1>3. CASE incoming = <<>>
  <2>1. UNCHANGED <<incoming, deframer, done, plain>>
    BY <1>1, <1>3, PumpNothing
  <2>2. eof' = eof
    BY DEF Pump
  <2>3. End' = End /\ Text' = Text /\ Records' = Records
    BY SameRecords DEF Records
  <2>4. Pulled' = Pulled /\ Unfed' = Unfed /\ Unfed = 0
    <3>1. Len(ct) = 0 /\ Len(incoming) = 0
      BY <1>1, <1>3
    <3>2. Unfed = 0
      BY <3>1 DEF Unfed
    <3>3. QED
      BY <2>1, <3>2 DEF Unfed, Pulled
  <2>5. RunInv'
    BY <2>1, <2>3, <2>4 DEF Strong, RunInv
  <2>6. PlainInv'
    BY <2>1, <2>3 DEF Strong, PlainInv
  <2>7. FedInv'
    BY <2>4 DEF FedInv
  <2>8. eof' => cut /\ taken = sent /\ ct' = <<>> /\ incoming' = <<>>
    BY <2>1, <2>2 DEF Strong, FlagInv
  <2>9. ~Closed(done')
    <3>1. ~Closed(done)
      BY DEF Strong, FlagInv
    <3>2. QED
      BY <2>1, <3>1, Zenon
  <2>10. ASSUME use = "socket"
         PROVE  /\ incoming' = <<>> /\ Len(plain') <= Limit
                /\ body = 0 => Pulled' = End[done']
                /\ body > 0 => done' = done /\ plain' = plain
    <3>1. Len(plain) <= Limit
      BY <2>10 DEF Strong, SocketInv
    <3>2. body = 0 => Pulled = End[done] \/ (done < Len(script) /\ Pulled = End[done + 1])
      BY <2>10 DEF Strong, SocketInv
    <3>3. ASSUME done < Len(script), Pulled = End[done + 1]
          PROVE  FALSE
      <4>1. Numbered /\ done \in Records /\ End[done] \in Nat /\ Len(deframer) \in Nat
        BY Basics
      <4>2. /\ End[done + 1] = End[done] + 1 + script[done + 1].size
            /\ script[done + 1].size \in Nat
        BY <3>3, <4>1, NextRecord
      <4>3. /\ Pulled = End[done] + Len(deframer) + Unfed
            /\ Len(deframer) < 1 + script[done + 1].size
        BY <3>3, Amounts
      <4>4. Pulled = End[done] + Len(deframer)
        BY <2>4, <4>1, <4>3
      <4>5. End[done] + Len(deframer) = End[done] + 1 + script[done + 1].size
        BY <3>3, <4>2, <4>4
      <4>6. End[done] \in Nat /\ Len(deframer) \in Nat
        BY <4>1
      <4>7. QED
        BY <4>2, <4>3, <4>5, <4>6
    <3>4. QED
      BY <1>3, <2>1, <2>4, <3>1, <3>2, <3>3
  <2>11. QED
    BY <2>4, <2>5, <2>6, <2>7, <2>8, <2>9, <2>10
<1>4. QED
  BY <1>2, <1>3

LEMMA HandshakeStrong ==
  ASSUME TypeOK, CallInv, Strong, Kept, told = "open", told' = "open", Handshake
  PROVE  Strong'
<1>1. pc = "handshake" /\ ~handshakeDone /\ ct = <<>> /\ out = <<>>
  BY DEF Handshake, CallInv
<1>2. plain = <<>> /\ Handshaking(done) /\ ~peerClosed /\ ~shutdown /\ pendingCt = <<>>
  BY <1>1 DEF Strong, FlagInv
<1>3. /\ Pump
      /\ UNCHANGED <<script, use, sent, cut, taken, piece, body, ct, out>>
      /\ UNCHANGED <<pendingCt, shutdownSent, peerClosed, shutdown>>
      /\ got' = got
      /\ \/ /\ Handshaking(done')
            /\ \/ use = "bio" /\ pc' = "idle" /\ waiting'
               \/ use # "bio" /\ pc' = "pull"
            /\ UNCHANGED <<handshakeDone, maybeBuffered>>
         \/ /\ ~Handshaking(done')
            /\ pc' = (IF use = "bio" THEN "read" ELSE "drain")
            /\ handshakeDone' /\ maybeBuffered'
  <2>1. CASE (eof /\ incoming = <<>>) \/ PumpFails
    <3>1. eof /\ incoming = <<>>
      BY <1>1, <2>1, PumpWorks
    <3>2. Tell("truncated")
      BY <3>1 DEF Handshake, Pump
    <3>3. QED
      BY <3>2 DEF Tell
  <2>2. CASE ~((eof /\ incoming = <<>>) \/ PumpFails)
    BY <2>2 DEF Handshake, WantRead, Continue
  <2>3. QED
    BY <2>1, <2>2
<1>4. /\ RunInv' /\ PlainInv' /\ FedInv'
      /\ eof' => cut /\ taken = sent /\ ct' = <<>> /\ incoming' = <<>>
      /\ Closed(done') => plain' = <<>> /\ done + 1 = Len(script)
                          /\ script[Len(script)].kind = "close"
      /\ use = "bio" /\ Unfed' > 0 /\ script[Len(script)].kind = "close"
           /\ Pulled' > End[Len(script) - 1] =>
             done' = Len(script) - 1 /\ plain' = <<>> /\ out = <<>>
      /\ use = "socket" => /\ incoming' = <<>> /\ Len(plain') <= Limit
                           /\ body = 0 => Pulled' = End[done']
                           /\ body > 0 => done' = done /\ plain' = plain
  BY <1>1, <1>3, AfterPump
<1>5. Numbered /\ done \in Records
  BY Basics
<1>6. /\ End' = End /\ Text' = Text /\ done' \in Records
      /\ plain' \in Seq(Nat) /\ Len(plain') \in Nat /\ Len(got') \in Nat /\ Len(out') \in Nat
  <2>1. TypeOK'
    BY TypeStep DEF Next, Step
  <2>2. QED
    BY <1>3, <2>1, BasicsNext
<1>7. ~Closed(done')
  <2>1. script[done + 1].kind = "hs"
    BY <1>2, <1>5, NoTextYet
  <2>2. QED
    BY <1>4, <2>1
<1>8. Handshaking(done') => plain' = <<>>
  <2>1. ASSUME Handshaking(done') PROVE Len(plain') = 0
    <3>1. Text[done'] = 0
      BY <1>5, <1>6, <2>1, NoTextYet
    <3>2. Len(got') + Len(out') + Len(plain') = 0
      BY <1>4, <1>6, <3>1 DEF PlainInv
    <3>3. QED
      BY <1>6, <3>2
  <2>2. QED
    BY <1>6, <2>1, Empty
<1>9. FlagInv'
  <2>1. ~Closed(done)'
    BY <1>3, <1>7 DEF Closed
  <2>2. ~handshakeDone' => plain' = <<>> /\ Handshaking(done)'
    <3>1. ~handshakeDone' => plain' = <<>> /\ Handshaking(done')
      BY <1>3, <1>8
    <3>2. QED
      BY <1>3, <3>1 DEF Handshaking
  <2>3. ~peerClosed' /\ ~shutdown' /\ pendingCt' = <<>>
    BY <1>2, <1>3
  <2>4. eof' => cut' /\ taken' = sent' /\ ct' = <<>> /\ incoming' = <<>>
    BY <1>3, <1>4
  <2>5. QED
    BY <2>1, <2>2, <2>3, <2>4 DEF FlagInv
<1>10. BioInv'
  <2>1. use = "bio" /\ pc' = "idle" => plain' = <<>>
    BY <1>3, <1>8
  <2>2. QED
    BY <1>3, <1>4, <1>6, <2>1 DEF BioInv
<1>11. SocketInv'
  <2>1. ASSUME use = "socket" PROVE SocketInv'
    <3>1. /\ out' = <<>> /\ Len(plain') <= Limit /\ incoming' = <<>> /\ pc' \in {"pull", "drain"}
      BY <1>1, <1>3, <1>4, <2>1 DEF CallInv, TypeOK
    <3>2. body' = 0 => piece' = <<>> /\ Pulled' = End'[done']
      BY <1>3, <1>4, <1>6, <2>1 DEF Strong, SocketInv
    <3>3. body' > 0 => /\ done' < Len(script') /\ Pulled' = End'[done'] + 1
                       /\ body' = script'[done' + 1].size /\ Len(piece') < body'
      <4>1. Pulled' = Pulled
        BY <1>3 DEF Pulled
      <4>2. QED
        BY <1>3, <1>4, <1>6, <2>1, <4>1 DEF Strong, SocketInv
    <3>4. plain' # <<>> => maybeBuffered'
      BY <1>3, <1>8
    <3>5. pc' = "pull" => plain' = <<>>
      BY <1>3, <1>8
    <3>6. QED
      BY <3>1, <3>2, <3>3, <3>4, <3>5 DEF SocketInv
  <2>2. QED
    BY <1>3, <2>1 DEF SocketInv
<1>12. QED
  BY <1>4, <1>9, <1>10, <1>11 DEF Strong

LEMMA UnwrapStrong ==
  ASSUME TypeOK, CallInv, Strong, Kept, told = "open", told' = "open", Unwrap
  PROVE  Strong'
<1>1. /\ pc = "unwrap" /\ ct = <<>> /\ out = <<>> /\ shutdownSent /\ handshakeDone
  BY DEF Unwrap, CallInv
<1>2. ~peerClosed /\ pendingCt = <<>>
  BY DEF Strong, FlagInv
<1>3. /\ Pump \/ (incoming = <<>> /\ UNCHANGED <<incoming, eof, deframer, done, plain>>)
      /\ Unwrapped
      /\ UNCHANGED <<script, use, sent, cut, taken, piece, body, ct, out>>
      /\ UNCHANGED <<handshakeDone, shutdownSent, pendingCt, maybeBuffered>>
  <2>1. ~(incoming # <<>> /\ PumpFails /\ Tell("failed"))
    BY <1>1, PumpWorks
  <2>2. QED
    BY <2>1 DEF Unwrap
<1>4. /\ ~shutdown' /\ ~peerClosed' /\ ~(plain' = <<>> /\ Closed(done'))
      /\ got' = got
      /\ \/ pc' = "idle" /\ (waiting' = FALSE \/ plain' = <<>>)
         \/ use = "socket" /\ pc' = "unwrapPull" /\ plain' = <<>>
  <2>1. ~shutdown'
    BY <1>3 DEF Unwrapped, Tell
  <2>2. ~peerClosed' /\ ~(plain' = <<>> /\ Closed(done'))
    BY <1>3, <2>1 DEF Unwrapped
  <2>3. CASE plain' # <<>>
    BY <1>3, <2>1, <2>3 DEF Unwrapped
  <2>4. CASE plain' = <<>>
    <3>1. ~(eof' /\ incoming' = <<>>)
      BY <1>3, <2>1, <2>4 DEF Unwrapped, Tell
    <3>2. WantRead \/ (use = "socket" /\ Continue("unwrapPull"))
      BY <1>3, <2>1, <2>4, <3>1 DEF Unwrapped
    <3>3. QED
      BY <2>1, <2>2, <2>4, <3>2 DEF WantRead, Continue
  <2>5. QED
    BY <2>1, <2>2, <2>3, <2>4
<1>5. /\ RunInv' /\ PlainInv' /\ FedInv'
      /\ eof' => cut /\ taken = sent /\ ct' = <<>> /\ incoming' = <<>>
      /\ Closed(done') => plain' = <<>>
      /\ use = "bio" /\ Unfed' > 0 /\ script[Len(script)].kind = "close"
           /\ Pulled' > End[Len(script) - 1] =>
             done' = Len(script) - 1 /\ plain' = <<>> /\ out = <<>>
      /\ use = "socket" => /\ incoming' = <<>> /\ Len(plain') <= Limit
                           /\ body = 0 => Pulled' = End[done']
                           /\ body > 0 => done' = done /\ plain' = plain
  BY <1>1, <1>3, <1>4, AfterPump
<1>6. End' = End
  BY <1>3, SameRecords
<1>7. FlagInv'
  <2>1. ~Closed(done)'
    BY <1>3, <1>4, <1>5 DEF Closed
  <2>2. QED
    BY <1>1, <1>2, <1>3, <1>4, <1>5, <2>1 DEF FlagInv
<1>8. BioInv'
  BY <1>3, <1>4, <1>5, <1>6 DEF BioInv
<1>9. SocketInv'
  <2>1. ASSUME use = "socket" PROVE SocketInv'
    <3>1. /\ out' = <<>> /\ Len(plain') <= Limit /\ incoming' = <<>> /\ pc' \in {"idle", "unwrapPull"}
          /\ pc' = "unwrapPull" => plain' = <<>>
      BY <1>1, <1>3, <1>4, <1>5, <2>1
    <3>2. body' = 0 => piece' = <<>> /\ Pulled' = End'[done']
      BY <1>3, <1>5, <1>6, <2>1 DEF Strong, SocketInv
    <3>3. body' > 0 => /\ done' < Len(script') /\ Pulled' = End'[done'] + 1
                       /\ body' = script'[done' + 1].size /\ Len(piece') < body'
      <4>1. Pulled' = Pulled
        BY <1>3 DEF Pulled
      <4>2. QED
        BY <1>3, <1>5, <1>6, <2>1, <4>1 DEF Strong, SocketInv
    <3>4. plain' # <<>> /\ ~maybeBuffered' => shutdownSent' /\ body' = 0
      <4>1. body = 0 \/ body > 0
        BY DEF TypeOK
      <4>2. plain # <<>> /\ ~maybeBuffered => body = 0
        BY <1>1, <2>1 DEF Strong, SocketInv
      <4>3. QED
        BY <1>1, <1>3, <1>5, <2>1, <4>1, <4>2
    <3>5. QED
      BY <3>1, <3>2, <3>3, <3>4 DEF SocketInv
  <2>2. QED
    BY <1>3, <2>1 DEF SocketInv
<1>10. QED
  BY <1>5, <1>7, <1>8, <1>9 DEF Strong

\* A call that reads plaintext gives the next units, or finds none and no close_notify.
LEMMA ReadUnits ==
  ASSUME TypeOK, Strong, n \in ReadSizes, out = <<>>, told = "open", told' = "open",
         NEW otherwise, ReadPlaintext(otherwise), UNCHANGED <<script, sent, out>>
  PROVE  /\ UNCHANGED <<deframer, done, handshakeDone, shutdownSent, shutdown>> /\ ~peerClosed'
         /\ \/ otherwise /\ plain = <<>> /\ plain' = <<>>
            \/ /\ plain # <<>> /\ PlainInv' /\ Len(plain') \in 0..Len(plain)
               /\ pc' = "idle" /\ ~waiting'
<1> DEFINE m == Least(n, Len(plain))
           data == SubSeq(plain, 1, m)
<1>1. /\ plain \in Seq(Nat) /\ Len(plain) \in Nat /\ got \in Seq(Nat) /\ Len(got) \in Nat
      /\ Text[done] \in Nat /\ n \in Nat \ {0}
  BY Basics
<1>2. ~peerClosed /\ ~Closed(done)
  BY DEF Strong, FlagInv
<1>3. /\ Run(got, 0) /\ Run(plain, Len(got) + Len(out))
      /\ Len(got) + Len(out) + Len(plain) = Text[done]
  BY DEF Strong, PlainInv
<1>4. m \in 0..Len(plain) /\ (m = 0 => Len(plain) = 0)
  BY <1>1
<1>5. /\ plain' = Rest(plain, m) /\ peerClosed' = (peerClosed \/ (m = 0 /\ Closed(done)))
      /\ UNCHANGED <<deframer, done, handshakeDone, shutdownSent, shutdown>>
  BY DEF ReadPlaintext
<1>6. ~peerClosed'
  BY <1>2, <1>5
<1>7. CASE m > 0
  <2>1. Give(data)
    BY <1>7 DEF ReadPlaintext
  <2>2. pc' = "idle" /\ ~waiting' /\ got' = got \o data
    BY <2>1 DEF Give
  <2> HIDE DEF m
  <2>3. Len(out) = 0 /\ Run(plain, Len(got))
    <3>1. Len(out) = 0
      OBVIOUS
    <3>2. Len(got) + Len(out) = Len(got)
      BY <1>1, <3>1
    <3>3. QED
      BY <1>3, <3>1, <3>2
  <2>4. data \in Seq(Nat) /\ Len(data) = m /\ Run(data, Len(got))
    BY <1>1, <1>4, <2>3, RunPrefix
  <2>5. /\ Rest(plain, m) \in Seq(Nat) /\ Len(Rest(plain, m)) = Len(plain) - m
        /\ Run(Rest(plain, m), Len(got) + m)
    BY <1>1, <1>4, <2>3, RunRest
  <2> HIDE DEF data
  <2>6. Len(got \o data) = Len(got) + m /\ Run(got \o data, 0)
    <3>1. Run(data, 0 + Len(got))
      BY <1>1, <2>4
    <3>2. QED
      BY <1>1, <1>3, <2>4, <3>1, RunConcat
  <2>7. Len(got') = Len(got) + m /\ Run(got', 0)
    BY <2>2, <2>6
  <2>8. Len(plain') = Len(plain) - m /\ Run(plain', Len(got) + m)
    BY <1>5, <2>5
  <2>9. m \in Nat /\ m <= Len(plain) /\ Len(out') = 0
    BY <1>1, <1>4
  <2>10. Len(plain') \in Nat /\ Len(got') \in Nat
    BY <1>1, <2>7, <2>8, <2>9
  <2>11. Run(plain', Len(got') + Len(out'))
    <3>1. Len(got') + Len(out') = Len(got) + m
      BY <2>7, <2>9, <2>10
    <3>2. QED
      BY <2>8, <3>1
  <2>12. Len(got') + Len(out') + Len(plain') = Text'[done']
    <3>1. Text'[done'] = Len(got) + Len(out) + Len(plain)
      BY <1>3, <1>5, SameRecords
    <3>2. QED
      BY <1>1, <2>3, <2>7, <2>8, <2>9, <3>1
  <2>13. Run(out', Len(got'))
    BY DEF Run
  <2>14. PlainInv'
    BY <2>7, <2>11, <2>12, <2>13 DEF PlainInv
  <2>15. plain # <<>> /\ Len(plain') \in 0..Len(plain)
    <3>1. Len(plain) # 0
      BY <1>1, <1>7, <2>9
    <3>2. QED
      BY <1>1, <2>8, <2>9, <3>1
  <2>16. QED
    BY <1>5, <1>6, <2>2, <2>14, <2>15
<1>8. CASE m = 0
  <2>1. plain = <<>> /\ plain' = <<>>
    <3>1. plain = <<>>
      BY <1>1, <1>4, <1>8, Empty
    <3>2. Rest(plain, 0) = plain
      BY <1>1, RestNone
    <3>3. QED
      BY <1>5, <1>8, <3>1, <3>2
  <2>2. otherwise
    BY <1>2, <1>8, RaggedWord DEF ReadPlaintext, Tell
  <2>3. QED
    BY <1>5, <1>6, <2>1, <2>2
<1>9. QED
  BY <1>1, <1>4, <1>7, <1>8

\* A turn of decrypt_incoming: rustls takes k of the cells, and gives m of the units.
LEMMA TurnUnits ==
  ASSUME TypeOK, Strong, NEW dec \in Seq(Nat), NEW m \in 0..Len(dec), NEW t \in Records,
         Run(dec, Len(got) + Len(out)), Len(got) + Len(out) + Len(dec) = Text[t],
         UNCHANGED <<script, sent>>, done' = t, plain' = Rest(dec, m),
         \/ out' = out \o SubSeq(dec, 1, m) /\ got' = got
         \/ out' = <<>> /\ got' = got \o (out \o SubSeq(dec, 1, m))
  PROVE  PlainInv'
<1> DEFINE part == SubSeq(dec, 1, m)
           data == out \o part
<1>1. /\ got \in Seq(Nat) /\ Len(got) \in Nat /\ out \in Seq(Nat) /\ Len(out) \in Nat
      /\ Len(dec) \in Nat /\ m \in Nat /\ m <= Len(dec)
  BY Basics
<1>2. /\ part \in Seq(Nat) /\ Len(part) = m /\ Run(part, Len(got) + Len(out))
      /\ Len(Rest(dec, m)) = Len(dec) - m /\ Run(Rest(dec, m), Len(got) + Len(out) + m)
  <2>1. Len(got) + Len(out) \in Nat
    BY <1>1
  <2>2. Len(part) = m /\ part \in Seq(Nat) /\ Run(part, Len(got) + Len(out))
    BY <2>1, RunPrefix
  <2>3. Len(Rest(dec, m)) = Len(dec) - m /\ Run(Rest(dec, m), Len(got) + Len(out) + m)
    BY <2>1, RunRest
  <2>4. QED
    BY <2>2, <2>3
<1>3. Run(got, 0) /\ Run(out, Len(got))
  BY DEF Strong, PlainInv
<1> HIDE DEF part
<1>4. data \in Seq(Nat) /\ Len(data) = Len(out) + m /\ Run(data, Len(got))
  BY <1>1, <1>2, <1>3, RunConcat
<1> HIDE DEF data
<1>5. Len(got \o data) = Len(got) + Len(out) + m /\ Run(got \o data, 0)
  <2>1. Run(data, 0 + Len(got))
    BY <1>1, <1>4
  <2>2. Len(got \o data) = Len(got) + Len(data) /\ Run(got \o data, 0)
    BY <1>1, <1>3, <1>4, <2>1, RunConcat
  <2>3. QED
    BY <1>1, <1>4, <2>2
<1>6. /\ Run(got', 0) /\ Run(out', Len(got'))
      /\ Len(got') + Len(out') = Len(got) + Len(out) + m
  <2>1. CASE out' = data /\ got' = got
    <3>1. Len(got') + Len(out') = Len(got) + (Len(out) + m)
      BY <1>4, <2>1
    <3>2. QED
      BY <1>1, <1>3, <1>4, <2>1, <3>1
  <2>2. CASE out' = <<>> /\ got' = got \o data
    <3>1. Len(out') = 0 /\ Run(out', Len(got'))
      BY <2>2 DEF Run
    <3>2. Len(got') = Len(got) + Len(out) + m /\ Run(got', 0)
      BY <1>5, <2>2
    <3>3. QED
      BY <1>1, <3>1, <3>2
  <2>3. QED
    BY <2>1, <2>2 DEF data, part
<1>7. Run(plain', Len(got') + Len(out'))
  BY <1>2, <1>6
<1>8. Len(got') + Len(out') + Len(plain') = Text'[done']
  <2>1. Text' = Text
    BY SameRecords
  <2>2. Len(plain') = Len(dec) - m
    BY <1>2
  <2>3. Len(got') + Len(out') + Len(plain') = (Len(got) + Len(out) + m) + (Len(dec) - m)
    BY <1>6, <2>2
  <2>4. Len(got) \in Nat /\ Len(out) \in Nat /\ Len(dec) \in Nat /\ m \in Nat
    BY <1>1
  <2>5. (Len(got) + Len(out) + m) + (Len(dec) - m) = Len(got) + Len(out) + Len(dec)
    BY <2>4
  <2>6. Len(got') + Len(out') + Len(plain') = Text[t]
    BY <2>3, <2>5
  <2>7. QED
    BY <2>1, <2>6
<1>9. QED
  BY <1>6, <1>7, <1>8 DEF PlainInv

\* What holds of the turn before it returns or goes on.
LEMMA DecryptHolds ==
  ASSUME TypeOK, CallInv, Strong, told = "open", told' = "open", DecryptIncoming
  PROVE  \E k \in 1..Len(ct) :
           /\ Len(ct) = Unfed /\ Len(deframer) + k <= MaxWire
           /\ Run(ct, End[done] + Len(deframer))
           /\ Unfed > 0
           /\ DecryptTurn(Fed(ct, k), k)
           /\ ~Closed(Through(Fed(ct, k)))
<1> DEFINE k == ReadTls(deframer, ct)
<1>1. pc = "decrypt" /\ ct # <<>> /\ Len(out) < n
  BY DEF DecryptIncoming, CallInv
<1>2. /\ k \in 0..Len(ct) /\ Len(deframer) + k <= MaxWire
      /\ ct \in Seq(1..sent)
  BY Moved DEF TypeOK
<1>3. /\ Len(ct) \in Nat /\ Len(incoming) \in Nat /\ ct \in Seq(Nat) /\ Len(deframer) \in Nat
      /\ Len(out) \in Nat /\ n \in Nat
  BY Basics DEF TypeOK
<1>4. incoming = <<>> /\ Run(ct, End[done] + Len(deframer)) /\ ~Closed(done)
  BY <1>1 DEF Strong, RunInv, FlagInv
<1>5. Len(ct) = Unfed /\ Unfed > 0 /\ Len(ct) # 0
  <2>1. Len(incoming) = 0 /\ Len(ct) # 0
    BY <1>1, <1>3, <1>4, Empty
  <2>2. QED
    BY <1>3, <2>1 DEF Unfed
<1>6. k \in 1..Len(ct)
  <2>1. Len(deframer) < MaxWire
    BY Amounts
  <2>2. ReadSize \in Nat \ {0} /\ MaxWire \in Nat
    OBVIOUS
  <2>3. MaxWire - Len(deframer) \in Nat \ {0} /\ Len(ct) \in Nat \ {0}
    BY <1>3, <1>5, <2>1, <2>2
  <2>4. k \in Nat \ {0}
    BY <1>4, <2>2, <2>3 DEF ReadTls
  <2>5. QED
    BY <1>2, <2>4
<1> DEFINE d == Fed(ct, k)
<1>7. Intact(d) /\ ~Full
  BY <1>2, <1>4, <1>5, FeedingCells, FeedingUnits
<1>8. DecryptTurn(d, k)
  <2>1. CASE DecryptFails
    BY <2>1 DEF DecryptFails, Tell
  <2>2. CASE DecryptCloses(d)
    BY <2>2 DEF DecryptCloses, Tell
  <2>3. QED
    BY <1>7, <2>1, <2>2 DEF DecryptIncoming, Fed
<1> HIDE DEF k
<1>9. ~Closed(Through(d))
  <2>1. ASSUME Closed(Through(d)) PROVE FALSE
    <3>1. Decrypted(d) = <<>>
      BY <1>2, <1>4, <1>5, <2>1, FeedingClose
    <3>2. Least(n - Len(out), Len(Decrypted(d))) = 0
      <4>1. Len(Decrypted(d)) = 0
        BY <3>1
      <4>2. n - Len(out) \in Nat \ {0}
        BY <1>1, <1>3
      <4>3. QED
        BY <4>1, <4>2
    <3>3. QED
      BY <1>8, <2>1, <3>2 DEF DecryptTurn
  <2>2. QED
    BY <2>1
<1>10. QED
  BY <1>2, <1>4, <1>5, <1>6, <1>8, <1>9

LEMMA DecryptStrong ==
  ASSUME TypeOK, CallInv, Strong, Kept, told = "open", told' = "open", DecryptIncoming
  PROVE  Strong'
<1>1. pc = "decrypt" /\ ct # <<>> /\ Len(out) < n /\ handshakeDone
  BY DEF DecryptIncoming, CallInv
<1>2. incoming = <<>> /\ ~eof /\ ~peerClosed /\ ~shutdown /\ pendingCt = <<>>
  BY <1>1 DEF Strong, RunInv, FlagInv
<1>3. PICK k \in 1..Len(ct) :
         /\ Len(ct) = Unfed /\ Len(deframer) + k <= MaxWire
         /\ Run(ct, End[done] + Len(deframer))
         /\ Unfed > 0
         /\ DecryptTurn(Fed(ct, k), k)
         /\ ~Closed(Through(Fed(ct, k)))
  BY DecryptHolds
<1> DEFINE d == Fed(ct, k)
           t == Through(d)
           r == Rest(ct, k)
           dec == Decrypted(d)
           und == Undecrypted(d)
           m == Least(n - Len(out), Len(dec))
           data == out \o SubSeq(dec, 1, m)
           over == Len(data) >= n \/ k + m = 0 \/ Len(ct) = k
<1>4. /\ Numbered /\ Len(ct) \in Nat /\ k \in Nat /\ k \in 0..Len(ct) /\ ct \in Seq(1..sent)
      /\ Len(out) \in Nat /\ n \in Nat /\ out \in Seq(Nat) /\ ct \in Seq(Nat)
  BY Basics DEF TypeOK
<1>5. /\ t \in Records /\ done <= t
      /\ Run(und, End[t])
      /\ t < Len(script) => Len(und) < 1 + script[t + 1].size
      /\ t = Len(script) => und = <<>>
      /\ Len(r) = Len(ct) - k
      /\ Run(r, End[t] + Len(und))
      /\ Pulled = End[t] + Len(und) + Len(r)
  BY <1>3, <1>4, FeedingCells
<1>6. /\ dec \in Seq(Nat) /\ Len(dec) \in Nat
      /\ Run(dec, Len(got) + Len(out)) /\ Len(got) + Len(out) + Len(dec) = Text[t]
      /\ Len(dec) = Len(plain) + (Text[t] - Text[done])
      /\ Len(r) > 0 => \E i \in Records :
                          /\ Pulled <= End[i]
                          /\ \/ i <= t + 2 /\ Len(dec) = 0
                             \/ i <= t + 1 /\ Len(dec) <= Limit
  BY <1>3, <1>4, FeedingUnits
<1>7. /\ deframer' = und /\ done' = t /\ plain' = Rest(dec, m)
      /\ UNCHANGED <<script, use, sent, cut, taken, piece, body, n>>
      /\ UNCHANGED <<eof, handshakeDone, shutdownSent, peerClosed, shutdown>>
  BY <1>3 DEF DecryptTurn, DecryptIncoming
<1>8. over => ct' = <<>> /\ out' = <<>> /\ Returns(r, data)
  BY <1>3 DEF DecryptTurn
<1>9. ~over => /\ ct' = r /\ out' = data /\ pc' = "decrypt" /\ UNCHANGED <<got, waiting>>
               /\ UNCHANGED <<incoming, pendingCt, maybeBuffered>>
  BY <1>3 DEF DecryptTurn, Continue
<1>10. End' = End /\ Text' = Text /\ Records' = Records /\ Pulled' = Pulled
  BY <1>7, SameRecords DEF Records, Pulled
<1>11. ~Closed(t)
  BY <1>3
<1> HIDE DEF d, t, r, dec, und
<1>12. m \in 0..Len(dec) /\ m \in Nat /\ (m = 0 => Len(dec) = 0)
  BY <1>1, <1>4, <1>6
<1> HIDE DEF m
<1>13. /\ SubSeq(dec, 1, m) \in Seq(Nat) /\ Len(SubSeq(dec, 1, m)) = m
       /\ Rest(dec, m) \in Seq(Nat) /\ Len(Rest(dec, m)) = Len(dec) - m
  <2>1. dec \in Seq(Nat) /\ m \in 0..Len(dec)
    BY <1>6, <1>12
  <2>2. QED
    BY <2>1, Parts
<1>14. data \in Seq(Nat) /\ Len(data) = Len(out) + m
  BY <1>4, <1>13, Joined
<1>15. Len(r) \in Nat /\ r \in Seq(Nat) /\ (Len(r) = 0 <=> r = <<>>) /\ (Len(r) = 0 <=> Len(ct) = k)
  <2>1. r \in Seq(Nat)
    BY <1>4, Parts DEF r
  <2>2. QED
    BY <1>4, <1>5, <2>1, Empty
<1> HIDE DEF data
\* A socket has one record in hand.
<1>16. ASSUME use = "socket"
       PROVE  /\ over => r = <<>>
              /\ ~over => /\ body = 0 /\ t = done /\ Pulled = End[done + 1] /\ done < Len(script)
                          /\ Len(dec) = 0 /\ data = <<>>
              /\ body = 0 => plain = <<>>
              /\ over /\ body = 0 => t = done + 1 /\ Pulled = End[t]
              /\ body > 0 => t = done /\ Len(dec) = Len(plain)
              /\ out = <<>> /\ Len(dec) <= Limit
  <2>1. /\ body > 0 => t = done
        /\ body = 0 => t = IF k = Len(ct) THEN done + 1 ELSE done
    BY <1>3, <1>4, <1>16, FeedingSocket DEF d, t
  <2>2. /\ done < Len(script)
        /\ \/ body = 0 /\ Pulled = End[done + 1] /\ plain = <<>> /\ Len(plain) = 0
           \/ body > 0 /\ Pulled = End[done] + 1 /\ Unfed = 1
    BY <1>3, <1>16, SocketCells
  <2>3. out = <<>> /\ Len(plain) <= Limit /\ Len(out) = 0
    BY <1>16 DEF Strong, SocketInv
  <2>4. Text[done] \in Nat /\ Len(plain) \in Nat /\ done \in Records
    BY Basics
  <2>5. Text[done + 1] <= Text[done] + Limit /\ Text[done + 1] \in Nat
    BY <1>4, <2>2, <2>4, NextRecord, EndNat
  <2>6. t = done => Len(dec) = Len(plain)
    BY <1>6, <2>4
  <2>7. t = done + 1 /\ Len(plain) = 0 => Len(dec) <= Limit
    <3>1. ASSUME t = done + 1, Len(plain) = 0 PROVE Len(dec) <= Limit
      <4>1. Len(dec) = Text[done + 1] - Text[done]
        BY <1>6, <2>4, <2>5, <3>1
      <4>2. QED
        BY <2>4, <2>5, <4>1
    <3>2. QED
      BY <3>1
  <2>8. body > 0 => k = Len(ct)
    BY <1>3, <1>4, <2>2
  <2>9. k # Len(ct) => body = 0 /\ t = done /\ Len(dec) = 0
    BY <2>1, <2>2, <2>6, <2>8
  <2>10. k # Len(ct) => ~over /\ data = <<>>
    <3>1. ASSUME k # Len(ct) PROVE ~over /\ data = <<>>
      <4>1. m = 0
        BY <1>12, <2>9, <3>1
      <4>2. Len(data) = 0
        BY <1>14, <2>3, <4>1
      <4>3. k # 0 /\ n > 0
        BY <1>1, <1>3, <1>4
      <4>4. QED
        BY <1>4, <1>14, <3>1, <4>1, <4>2, <4>3, Empty
    <3>2. QED
      BY <3>1
  <2>11. over <=> k = Len(ct)
    BY <2>10
  <2>12. over => r = <<>>
    BY <1>15, <2>11
  <2>13. Len(dec) <= Limit
    BY <2>1, <2>2, <2>3, <2>6, <2>7
  <2>14. over /\ body = 0 => t = done + 1 /\ Pulled = End[t]
    <3>1. ASSUME over, body = 0 PROVE t = done + 1 /\ Pulled = End[t]
      <4>1. t = done + 1
        BY <2>1, <2>11, <3>1
      <4>2. Pulled = End[done + 1]
        BY <2>2, <3>1
      <4>3. QED
        BY <4>1, <4>2
    <3>2. QED
      BY <3>1
  <2> HIDE DEF over
  <2>15. QED
    BY <2>1, <2>2, <2>3, <2>6, <2>9, <2>10, <2>11, <2>12, <2>13, <2>14
<1>17. ASSUME over
       PROVE  /\ ct' = <<>> /\ out' = <<>> /\ got' = got \o data
              /\ incoming' = (IF use = "bio" THEN r ELSE <<>>)
              /\ pendingCt' = <<>>
              /\ use = "bio" => pc' = "read" \/ ~waiting'
              /\ use = "socket" => /\ maybeBuffered' = (data # <<>>)
                                   /\ pc' = "idle" \/ (pc' = "net" /\ data = <<>>)
  <2>1. ct' = <<>> /\ out' = <<>> /\ Returns(r, data)
    BY <1>8, <1>17
  <2> HIDE DEF over
  <2>2. got \o <<>> = got
    BY Basics
  <2>3. CASE use = "bio"
    <3>1. ReadReturns(r, data)
      BY <2>1, <2>3 DEF Returns
    <3>2. incoming' = r /\ pendingCt' = pendingCt /\ (data # <<>> => Give(data))
          /\ (data = <<>> => Continue("read"))
      BY <1>2, <3>1 DEF ReadReturns
    <3>3. CASE data # <<>>
      BY <1>2, <2>1, <2>3, <3>2, <3>3 DEF Give
    <3>4. CASE data = <<>>
      <4>1. pc' = "read" /\ got' = got
        BY <3>2, <3>4 DEF Continue
      <4>2. got' = got \o data
        BY <2>2, <3>4, <4>1
      <4>3. QED
        BY <1>2, <2>1, <2>3, <3>2, <4>1, <4>2
    <3>5. QED
      BY <3>3, <3>4
  <2>4. CASE use = "socket"
    <3>1. FeedReturns(r, data) /\ r = <<>>
      BY <1>16, <1>17, <2>1, <2>4 DEF Returns
    <3>2. incoming' = <<>> /\ pendingCt' = <<>> /\ maybeBuffered' = (data # <<>>)
          /\ (data # <<>> => Give(data)) /\ (data = <<>> => Continue("net"))
      BY <1>2, <3>1 DEF FeedReturns
    <3>3. CASE data # <<>>
      BY <2>1, <2>4, <3>2, <3>3 DEF Give
    <3>4. CASE data = <<>>
      <4>1. pc' = "net" /\ got' = got
        BY <3>2, <3>4 DEF Continue
      <4>2. got' = got \o data
        BY <2>2, <3>4, <4>1
      <4>3. QED
        BY <2>1, <2>4, <3>2, <3>4, <4>1, <4>2
    <3>5. QED
      BY <3>3, <3>4
  <2>5. QED
    BY <2>3, <2>4 DEF TypeOK
<1>18. ASSUME ~over
       PROVE  /\ ct' = r /\ out' = data /\ got' = got /\ pc' = "decrypt"
              /\ incoming' = <<>> /\ pendingCt' = <<>> /\ maybeBuffered' = maybeBuffered
  BY <1>2, <1>9, <1>18
<1> HIDE DEF over
\* What is left of the cells is in ct or back in the BIO.
<1>19. /\ Unfed' = 0 \/ Unfed' = Len(r)
       /\ ct' = <<>> \/ incoming' = <<>>
       /\ Run(ct', End[t] + Len(und)) /\ Run(incoming', End[t] + Len(und))
       /\ Pulled = End[t] + Len(und) + Unfed'
  <2>1. \A a : Run(<<>>, a)
    BY DEF Run
  <2>2. Len(<<>>) = 0
    OBVIOUS
  <2>3. End[t] + Len(und) + Len(r) = Pulled
    BY <1>5
  <2>4. CASE ~over
    <3>1. Unfed' = Len(r)
      BY <1>15, <1>18, <2>2, <2>4 DEF Unfed
    <3>2. QED
      BY <1>5, <1>18, <2>1, <2>3, <2>4, <3>1
  <2>5. CASE over /\ use = "bio"
    <3>1. ct' = <<>> /\ incoming' = r
      BY <1>17, <2>5
    <3>2. Unfed' = Len(r)
      BY <1>15, <2>2, <3>1 DEF Unfed
    <3>3. QED
      BY <1>5, <2>1, <2>3, <3>1, <3>2
  <2>6. CASE over /\ use = "socket"
    <3>1. ct' = <<>> /\ incoming' = <<>> /\ r = <<>>
      BY <1>16, <1>17, <2>6
    <3>2. Unfed' = Len(r)
      BY <2>2, <3>1 DEF Unfed
    <3>3. QED
      BY <2>1, <2>3, <3>1, <3>2
  <2>7. QED
    BY <2>4, <2>5, <2>6 DEF TypeOK
<1>20. FlagInv'
  <2>1. ~Closed(done)'
    BY <1>7, <1>11 DEF Closed
  <2>2. pendingCt' = <<>>
    BY <1>17, <1>18
  <2>3. QED
    BY <1>1, <1>2, <1>7, <2>1, <2>2 DEF FlagInv
<1>21. RunInv'
  <2>1. Run(deframer', End'[done'])
    BY <1>5, <1>7, <1>10
  <2>2. Run(ct', End'[done'] + Len(deframer')) /\ Run(incoming', End'[done'] + Len(deframer'))
    BY <1>7, <1>10, <1>19
  <2>3. Run(piece', Pulled')
    BY <1>7, <1>10 DEF Strong, RunInv
  <2>4. Pulled' = End'[done'] + Len(deframer') + Unfed'
    BY <1>7, <1>10, <1>19
  <2>5. /\ done' < Len(script') => Len(deframer') < 1 + script'[done' + 1].size
        /\ done' = Len(script') => deframer' = <<>>
    BY <1>5, <1>7
  <2>6. QED
    BY <1>19, <2>1, <2>2, <2>3, <2>4, <2>5 DEF RunInv
<1>22. PlainInv'
  <2>1. \/ out' = out \o SubSeq(dec, 1, m) /\ got' = got
        \/ out' = <<>> /\ got' = got \o (out \o SubSeq(dec, 1, m))
    BY <1>17, <1>18 DEF data
  <2>2. QED
    BY <1>5, <1>6, <1>7, <1>12, <2>1, TurnUnits
<1>23. FedInv'
  <2>1. ASSUME Unfed' > 0
        PROVE  \E i \in Records' : /\ Pulled' <= End'[i]
                                   /\ \/ i <= done' + 2 /\ plain' = <<>>
                                      \/ i <= done' + 1 /\ Len(plain') <= Limit
    <3>1. Len(r) > 0
      BY <1>19, <2>1
    <3>2. PICK i \in Records : /\ Pulled <= End[i]
                               /\ \/ i <= t + 2 /\ Len(dec) = 0
                                  \/ i <= t + 1 /\ Len(dec) <= Limit
      BY <1>6, <3>1
    <3>3. Len(plain') = Len(dec) - m /\ m <= Len(dec)
      BY <1>6, <1>7, <1>12, <1>13
    <3>4. Len(dec) = 0 => plain' = <<>>
      <4>1. ASSUME Len(dec) = 0 PROVE Len(plain') = 0
        BY <1>6, <1>12, <3>3, <4>1
      <4>2. QED
        BY <1>7, <1>13, <4>1, Empty
    <3>5. Len(dec) <= Limit => Len(plain') <= Limit
      BY <1>6, <1>12, <3>3
    <3>6. QED
      BY <1>7, <1>10, <3>2, <3>4, <3>5
  <2>2. QED
    BY <2>1 DEF FedInv
<1>24. m = 0 => data = out /\ plain' = <<>>
  <2>1. ASSUME m = 0 PROVE data = out /\ plain' = <<>>
    <3>1. SubSeq(dec, 1, m) = <<>>
      BY <1>13, <2>1, Empty
    <3>2. out \o <<>> = out
      BY <1>4
    <3>3. data = out
      BY <3>1, <3>2, Zenon DEF data
    <3>4. Len(plain') = 0
      BY <1>7, <1>12, <1>13, <2>1
    <3>5. QED
      BY <1>7, <1>13, <3>3, <3>4, Empty
  <2>2. QED
    BY <2>1
<1>25. BioInv'
  <2>1. ASSUME use = "bio", Unfed' > 0, script[Len(script)].kind = "close",
               Pulled > End[Len(script) - 1]
        PROVE  done' = Len(script) - 1 /\ plain' = <<>> /\ out' = <<>>
    <3>1. done = Len(script) - 1 /\ plain = <<>> /\ out = <<>>
      BY <1>3, <2>1 DEF Strong, BioInv
    <3>2. done \in Nat /\ t \in Nat /\ Len(script) \in Nat /\ t <= Len(script) /\ done \in Records
          /\ Text[done] \in Nat
      BY <1>4, <1>5, Basics, EndNat
    <3>3. t # Len(script)
      <4>1. ASSUME t = Len(script) PROVE Closed(t)
        <5>1. t \in 1..t
          BY <3>1, <3>2, <4>1
        <5>2. QED
          BY <2>1, <4>1, <5>1 DEF Closed
      <4>2. QED
        BY <1>11, <4>1
    <3>4. t = done
      BY <1>5, <3>1, <3>2, <3>3
    <3>5. Len(plain) = 0
      BY <3>1
    <3>6. m = 0
      <4>1. Len(dec) = 0
        BY <1>6, <3>2, <3>4, <3>5
      <4>2. QED
        BY <1>12, <4>1
    <3>7. out' = <<>>
      BY <1>17, <1>18, <1>24, <3>1, <3>6
    <3>8. QED
      BY <1>7, <1>24, <3>1, <3>4, <3>6, <3>7
  <2>2. use = "bio" => ~(pc' = "idle" /\ waiting')
    BY <1>17, <1>18
  <2>3. QED
    BY <1>7, <1>10, <2>1, <2>2 DEF BioInv
<1>26. SocketInv'
  <2>1. ASSUME use = "socket" PROVE SocketInv'
    <3>1. /\ over => r = <<>>
          /\ ~over => /\ body = 0 /\ t = done /\ Pulled = End[done + 1] /\ done < Len(script)
                      /\ Len(dec) = 0 /\ data = <<>>
          /\ over /\ body = 0 => t = done + 1 /\ Pulled = End[t]
          /\ body > 0 => t = done
          /\ out = <<>> /\ Len(dec) <= Limit
      BY <1>16, <2>1
    <3>2. ~over => m = 0
      BY <1>12, <3>1
    <3>3. /\ out' = <<>> /\ incoming' = <<>>
          /\ over => maybeBuffered' = (data # <<>>) /\ (pc' = "idle" \/ (pc' = "net" /\ data = <<>>))
          /\ ~over => pc' = "decrypt"
      BY <1>17, <1>18, <2>1, <3>1
    <3>4. Len(plain') <= Limit
      <4>1. Len(plain') = Len(dec) - m
        BY <1>7, <1>13
      <4>2. QED
        BY <1>6, <1>12, <3>1, <4>1
    <3>5. body' = 0 => piece' = <<>>
      BY <1>7, <2>1 DEF Strong, SocketInv
    <3>6. body' = 0 => \/ Pulled' = End'[done']
                       \/ /\ done' < Len(script') /\ Pulled' = End'[done' + 1]
                          /\ pc' \in {"handshake", "decrypt", "unwrap"}
      <4>1. CASE over
        BY <1>7, <1>10, <3>1, <4>1
      <4>2. CASE ~over
        BY <1>7, <1>10, <3>1, <3>3, <4>2
      <4>3. QED
        BY <4>1, <4>2
    <3>7. body' > 0 => /\ done' < Len(script') /\ Pulled' = End'[done'] + 1
                       /\ body' = script'[done' + 1].size /\ Len(piece') < body'
      <4>1. body > 0 => /\ done < Len(script) /\ Pulled = End[done] + 1
                        /\ body = script[done + 1].size /\ Len(piece) < body
        BY <2>1 DEF Strong, SocketInv
      <4>2. QED
        BY <1>7, <1>10, <3>1, <4>1
    <3>8. plain' # <<>> => over /\ data # <<>>
      <4>1. ASSUME plain' # <<>> PROVE over /\ data # <<>>
        <5>1. m # 0 /\ over
          BY <1>24, <3>2, <4>1
        <5>2. Len(data) # 0
          BY <1>4, <1>12, <1>14, <5>1
        <5>3. QED
          BY <5>1, <5>2
      <4>2. QED
        BY <4>1
    <3>9. QED
      BY <3>3, <3>4, <3>5, <3>6, <3>7, <3>8 DEF SocketInv
  <2>2. QED
    BY <1>7, <2>1 DEF SocketInv
<1>27. QED
  BY <1>20, <1>21, <1>22, <1>23, <1>25, <1>26 DEF Strong

\* A call that has no cells to decrypt, in both uses.
LEMMA ReadsHeld ==
  ASSUME TypeOK, CallInv, Strong, told = "open", told' = "open", pc \in {"read", "drain", "ended"},
         ct = <<>>, out = <<>>, incoming = <<>>, n \in ReadSizes,
         NEW otherwise, ReadPlaintext(otherwise),
         otherwise => got' = got /\ ((pc' = "net" /\ use = "socket") \/ (use = "bio" /\ pc' = "idle")),
         UNCHANGED <<script, use, sent, cut, taken, piece, body, incoming, eof, ct, out, pendingCt>>,
         use = "socket" => maybeBuffered' = (plain # <<>>)
  PROVE  Strong'
<1>1. /\ UNCHANGED <<deframer, done, handshakeDone, shutdownSent, shutdown>> /\ ~peerClosed'
      /\ \/ otherwise /\ plain = <<>> /\ plain' = <<>>
         \/ /\ plain # <<>> /\ PlainInv' /\ Len(plain') \in 0..Len(plain)
            /\ pc' = "idle" /\ ~waiting'
  BY ReadUnits
<1>2. End' = End /\ Text' = Text /\ Records' = Records
  BY SameRecords DEF Records
<1>3. Pulled' = Pulled /\ Unfed' = Unfed /\ Unfed = 0
  <2>1. Len(ct) = 0 /\ Len(incoming) = 0
    OBVIOUS
  <2>2. QED
    BY <2>1 DEF Pulled, Unfed
<1>4. handshakeDone /\ ~shutdown /\ pendingCt = <<>>
  BY DEF CallInv, Strong, FlagInv
<1>5. FlagInv'
  <2>1. ~Closed(done)'
    BY <1>1 DEF Strong, FlagInv, Closed
  <2>2. eof' => cut' /\ taken' = sent' /\ ct' = <<>> /\ incoming' = <<>>
    BY DEF Strong, FlagInv
  <2>3. QED
    BY <1>1, <1>4, <2>1, <2>2 DEF FlagInv
<1>6. RunInv'
  BY <1>1, <1>2, <1>3 DEF Strong, RunInv
<1>7. PlainInv'
  <2>1. plain' = plain /\ got' = got => PlainInv'
    BY <1>1, <1>2 DEF Strong, PlainInv
  <2>2. QED
    BY <1>1, <2>1
<1>8. FedInv'
  BY <1>3 DEF FedInv
<1>9. BioInv'
  <2>1. pc' = "idle" /\ waiting' => plain' = <<>>
    BY <1>1
  <2>2. QED
    BY <1>3, <2>1 DEF BioInv
<1>10. SocketInv'
  <2>1. ASSUME use = "socket" PROVE SocketInv'
    <3>1. /\ Len(plain) <= Limit
          /\ body = 0 => piece = <<>> /\ Pulled = End[done]
          /\ body > 0 => /\ done < Len(script) /\ Pulled = End[done] + 1
                         /\ body = script[done + 1].size /\ Len(piece) < body
      BY <2>1 DEF Strong, SocketInv
    <3>2. /\ pc' \in {"idle", "net"}
          /\ pc' = "net" => ~maybeBuffered' /\ plain' = <<>>
          /\ plain' # <<>> => maybeBuffered'
      BY <1>1, <2>1
    <3>3. Len(plain') <= Limit
      <4>1. Len(plain) \in Nat /\ Limit \in Nat /\ Len(<<>>) = 0
        BY Basics
      <4>2. CASE plain' = <<>>
        BY <4>1, <4>2
      <4>3. CASE Len(plain') \in 0..Len(plain)
        BY <3>1, <4>1, <4>3
      <4>4. QED
        BY <1>1, <4>2, <4>3
    <3>4. QED
      BY <1>1, <1>2, <1>3, <2>1, <3>1, <3>2, <3>3 DEF SocketInv
  <2>2. QED
    BY <2>1 DEF SocketInv
<1>11. QED
  BY <1>5, <1>6, <1>7, <1>8, <1>9, <1>10 DEF Strong

LEMMA ReadStrong ==
  ASSUME TypeOK, CallInv, Strong, Kept, told = "open", told' = "open", Read
  PROVE  Strong'
<1>1. /\ pc = "read" /\ ct = <<>> /\ out = <<>> /\ n \in ReadSizes /\ use = "bio" /\ handshakeDone
  BY DEF Read, CallInv, TypeOK
<1>2. UNCHANGED <<script, use, sent, cut, taken, piece, body, eof, pendingCt, maybeBuffered, n, out>>
  BY DEF Read
<1>3. CASE incoming = <<>>
  <2>1. ReadPlaintext(WantRead) /\ UNCHANGED <<incoming, ct>>
    BY <1>3 DEF Read
  <2>2. WantRead => got' = got /\ use = "bio" /\ pc' = "idle"
    BY <1>1 DEF WantRead
  <2> DEFINE want == WantRead
  <2>3. want => got' = got /\ ((pc' = "net" /\ use = "socket") \/ (use = "bio" /\ pc' = "idle"))
    BY <2>2
  <2>4. ReadPlaintext(want)
    BY <2>1
  <2> HIDE DEF want
  <2>5. QED
    BY <1>1, <1>2, <1>3, <2>1, <2>3, <2>4, ReadsHeld
<1>4. CASE incoming # <<>>
  <2>1. /\ ct' = incoming /\ incoming' = <<>> /\ pc' = "decrypt" /\ got' = got
        /\ UNCHANGED <<deframer, done, plain>>
        /\ UNCHANGED <<handshakeDone, shutdownSent, peerClosed, shutdown>>
    BY <1>4 DEF Read, Continue
  <2>2. End' = End /\ Text' = Text /\ Records' = Records
    BY <1>2, SameRecords DEF Records
  <2>3. Pulled' = Pulled /\ Unfed' = Unfed
    <3>1. Len(incoming) \in Nat /\ Len(<<>>) = 0
      BY Basics
    <3>2. Unfed' = Unfed
      BY <1>1, <2>1, <3>1 DEF Unfed
    <3>3. QED
      BY <1>2, <3>2 DEF Pulled
  <2>4. FlagInv'
    <3>1. ~Closed(done)' /\ (eof => cut /\ taken = sent /\ incoming = <<>>)
      BY <1>2, <2>1 DEF Strong, FlagInv, Closed
    <3>2. QED
      BY <1>1, <1>2, <1>4, <2>1, <3>1 DEF Strong, FlagInv
  <2>5. RunInv'
    BY <1>1, <1>2, <2>1, <2>2, <2>3 DEF Strong, RunInv
  <2>6. PlainInv'
    BY <1>2, <2>1, <2>2 DEF Strong, PlainInv
  <2>7. FedInv'
    BY <2>1, <2>2, <2>3 DEF Strong, FedInv
  <2>8. BioInv'
    BY <1>1, <1>2, <2>1, <2>2, <2>3 DEF Strong, BioInv
  <2>9. SocketInv'
    BY <1>1, <1>2 DEF SocketInv
  <2>10. QED
    BY <2>4, <2>5, <2>6, <2>7, <2>8, <2>9 DEF Strong
<1>5. QED
  BY <1>3, <1>4

LEMMA DrainStrong ==
  ASSUME TypeOK, CallInv, Strong, Kept, told = "open", told' = "open", Drain \/ Ended
  PROVE  Strong'
<1>1. /\ pc \in {"drain", "ended"} /\ ct = <<>> /\ out = <<>> /\ n \in ReadSizes
      /\ use = "socket" /\ handshakeDone
  BY DEF Drain, Ended, CallInv, TypeOK
<1>2. UNCHANGED <<script, use, sent, cut, taken, piece, body, eof, n, out>>
  BY DEF Drain, Ended
<1>3. incoming = <<>> /\ pendingCt = <<>> /\ ~peerClosed
  BY <1>1 DEF Strong, FlagInv, SocketInv
<1>4. incoming \o pendingCt \o <<>> = <<>>
  BY <1>3
<1>5. ASSUME NEW otherwise, Feed(<<>>, otherwise)
      PROVE  /\ ReadPlaintext(otherwise) /\ maybeBuffered' = (plain # <<>>)
             /\ UNCHANGED <<incoming, pendingCt, ct>>
  BY <1>3, <1>4, <1>5 DEF Feed
<1>6. CASE Drain /\ ~Feed(<<>>, Continue("net"))
  <2>1. /\ ~maybeBuffered /\ pc = "drain" /\ pc' = "net" /\ got' = got
        /\ UNCHANGED <<incoming, deframer, done, plain, ct, pendingCt, maybeBuffered>>
        /\ UNCHANGED <<handshakeDone, shutdownSent, peerClosed, shutdown>>
    BY <1>6 DEF Drain, Continue, HasPending
  <2>2. End' = End /\ Text' = Text /\ Records' = Records
    BY <1>2, SameRecords DEF Records
  <2>3. Pulled' = Pulled /\ Unfed' = Unfed
    BY <1>2, <2>1 DEF Pulled, Unfed
  <2>4. FlagInv'
    <3>1. ~Closed(done)'
      BY <1>2, <2>1 DEF Strong, FlagInv, Closed
    <3>2. QED
      BY <1>1, <1>2, <2>1, <3>1 DEF Strong, FlagInv
  <2>5. RunInv'
    BY <1>2, <2>1, <2>2, <2>3 DEF Strong, RunInv
  <2>6. PlainInv'
    BY <1>2, <2>1, <2>2 DEF Strong, PlainInv
  <2>7. FedInv'
    BY <2>1, <2>2, <2>3 DEF Strong, FedInv
  <2>8. BioInv'
    BY <1>1, <1>2 DEF BioInv
  <2>9. SocketInv'
    <3>1. plain # <<>> => shutdownSent /\ body = 0
      BY <1>1, <2>1 DEF Strong, SocketInv
    <3>2. body = 0 => Pulled = End[done]
      BY <1>1, <2>1 DEF Strong, SocketInv
    <3>3. QED
      BY <1>1, <1>2, <1>3, <2>1, <2>2, <2>3, <3>1, <3>2 DEF Strong, SocketInv
  <2>10. QED
    BY <2>4, <2>5, <2>6, <2>7, <2>8, <2>9 DEF Strong
<1>7. CASE Drain /\ Feed(<<>>, Continue("net"))
  <2> DEFINE next == Continue("net")
  <2>1. next => got' = got /\ ((pc' = "net" /\ use = "socket") \/ (use = "bio" /\ pc' = "idle"))
    BY <1>1 DEF Continue
  <2>2. Feed(<<>>, next)
    BY <1>7
  <2> HIDE DEF next
  <2>3. ReadPlaintext(next) /\ maybeBuffered' = (plain # <<>>) /\ UNCHANGED <<incoming, pendingCt, ct>>
    BY <1>5, <2>2
  <2>4. QED
    BY <1>1, <1>2, <1>3, <2>1, <2>3, ReadsHeld
<1>8. CASE Ended
  <2> DEFINE next == Tell(RaggedEof)
  <2>1. next => got' = got /\ ((pc' = "net" /\ use = "socket") \/ (use = "bio" /\ pc' = "idle"))
    BY RaggedWord DEF Tell
  <2>2. Feed(<<>>, next)
    BY <1>8 DEF Ended
  <2> HIDE DEF next
  <2>3. ReadPlaintext(next) /\ maybeBuffered' = (plain # <<>>) /\ UNCHANGED <<incoming, pendingCt, ct>>
    BY <1>5, <2>2
  <2>4. QED
    BY <1>1, <1>2, <1>3, <2>1, <2>3, ReadsHeld
<1>9. QED
  BY <1>6, <1>7, <1>8

\* A socket takes k more cells of a header or of a body.
LEMMA ReceiveHolds ==
  ASSUME TypeOK, CallInv, Strong, Kept, NEW k \in 1..MaxWire, Receive(k)
  PROVE  /\ use = "socket" /\ incoming = <<>> /\ ct = <<>> /\ out = <<>> /\ pendingCt = <<>>
         /\ ~eof /\ ~peerClosed /\ Unfed = 0
         /\ done < Len(script)
         /\ piece \o Span(taken, taken + k) \in Seq(Nat)
         /\ Len(piece \o Span(taken, taken + k)) = Len(piece) + k
         /\ Run(piece \o Span(taken, taken + k), Pulled)
         /\ piece \o Span(taken, taken + k) # <<>>
         /\ taken' = Pulled + (Len(piece) + k)
         /\ \/ /\ body = 0 /\ k = Needed /\ Len(piece) = 0 /\ k = 1 /\ Pulled = End[done]
               /\ taken' = End[done] + 1 /\ body' = script[done + 1].size /\ body' > 0
            \/ /\ body > 0 /\ k = Needed /\ body' = 0
               /\ Pulled = End[done] + 1 /\ taken' = End[done + 1]
            \/ /\ body > 0 /\ k # Needed /\ body' = body /\ Len(piece) + k < body
<1> DEFINE span == Span(taken, taken + k)
           chunk == piece \o span
<1>1. /\ Numbered /\ done \in Records /\ End[done] \in Nat /\ sent \in Nat /\ sent <= End[Len(script)]
      /\ taken \in Nat /\ taken <= sent /\ piece \in Seq(Nat) /\ Len(piece) \in Nat
      /\ Len(incoming) \in Nat /\ Len(ct) \in Nat /\ Len(deframer) \in Nat
  BY Basics
<1>2. /\ pc \in {"pull", "net", "unwrapPull"} /\ k \in 1..Least(Needed, sent - taken)
      /\ taken' = taken + k
      /\ body' = IF k # Needed THEN body
                 ELSE IF body = 0 THEN script[RecordOf(taken + k)].size ELSE 0
  BY DEF Receive, Pulling
<1>3. use = "socket" /\ ct = <<>> /\ out = <<>> /\ body \in Nat
  BY <1>2 DEF CallInv, TypeOK
<1>4. incoming = <<>> /\ pendingCt = <<>> /\ ~peerClosed
  BY <1>2, <1>3 DEF Strong, SocketInv, FlagInv
<1>5. Unfed = 0
  <2>1. Len(ct) = 0 /\ Len(incoming) = 0
    BY <1>3, <1>4
  <2>2. QED
    BY <2>1 DEF Unfed
<1>6. k \in Nat \ {0} /\ taken + k <= sent /\ (body > 0 => Len(piece) + k <= body) /\ (body = 0 => k <= 1 - Len(piece))
  <2>1. body = 0 => Len(piece) = 0
    <3>1. body = 0 => piece = <<>>
      BY <1>3 DEF Strong, SocketInv
    <3>2. QED
      BY <3>1
  <2>2. body > 0 => Len(piece) < body
    BY <1>3 DEF Strong, SocketInv
  <2>3. Needed \in Nat
    <3>1. Needed = (IF body = 0 THEN 1 ELSE body) - Len(piece)
      BY DEF Needed
    <3>2. QED
      BY <1>1, <1>3, <2>1, <2>2, <3>1
  <2>4. sent - taken \in Nat
    BY <1>1
  <2>5. k \in Nat \ {0} /\ k <= Needed /\ k <= sent - taken
    BY <1>2, <2>3, <2>4
  <2>6. taken + k <= sent
    BY <1>1, <2>5
  <2>7. body > 0 => Len(piece) + k <= body
    <3>1. body > 0 => Needed = body - Len(piece)
      BY <1>3 DEF Needed
    <3>2. QED
      BY <1>1, <1>3, <2>3, <2>5, <3>1
  <2>8. body = 0 => k <= 1 - Len(piece)
    <3>1. body = 0 => Needed = 1 - Len(piece)
      BY DEF Needed
    <3>2. QED
      BY <2>5, <3>1
  <2>9. QED
    BY <2>5, <2>6, <2>7, <2>8
<1>7. ~eof
  <2>1. taken # sent
    BY <1>1, <1>6
  <2>2. QED
    BY <2>1 DEF Strong, FlagInv
<1>8. /\ Pulled = End[done] + Len(deframer) /\ Pulled \in Nat /\ Pulled + Len(piece) = taken
  <2>1. Pulled = End[done] + Len(deframer) + Unfed
    BY Amounts
  <2>2. Pulled = taken - Len(piece)
    BY DEF Pulled
  <2>3. QED
    BY <1>1, <1>5, <2>1, <2>2
<1>9. /\ chunk \in Seq(Nat) /\ Len(chunk) = Len(piece) + k /\ Run(chunk, Pulled)
  <2>1. Run(piece, Pulled)
    BY DEF Strong, RunInv
  <2>2. span \in Seq(Nat) /\ Len(span) = k /\ Run(span, taken)
    BY <1>1, <1>6, RunSpan
  <2>3. Run(span, Pulled + Len(piece))
    BY <1>8, <2>2
  <2> HIDE DEF span
  <2>4. QED
    BY <1>1, <1>8, <2>1, <2>2, <2>3, RunConcat
<1>10. chunk # <<>>
  <2>1. Len(chunk) # 0
    BY <1>1, <1>6, <1>9
  <2>2. QED
    BY <2>1
<1>11. taken' = Pulled + (Len(piece) + k)
  BY <1>1, <1>2, <1>6, <1>8
<1> HIDE DEF chunk, span
<1>12. CASE body > 0
  <2>1. done < Len(script) /\ Pulled = End[done] + 1 /\ body = script[done + 1].size
    BY <1>3, <1>12 DEF Strong, SocketInv
  <2>2. End[done + 1] = End[done] + 1 + script[done + 1].size
    BY <1>1, <2>1, NextRecord
  <2>3. Needed = body - Len(piece)
    BY <1>3, <1>12 DEF Needed
  <2>4. CASE k = Needed
    <3>1. Len(piece) + k = body
      BY <1>1, <1>3, <2>3, <2>4
    <3>2. taken' = End[done + 1]
      BY <1>1, <1>3, <1>11, <2>1, <2>2, <3>1
    <3>3. body' = 0
      BY <1>2, <1>12, <2>4
    <3>4. QED
      BY <1>3, <1>4, <1>5, <1>7, <1>9, <1>10, <1>11, <1>12, <2>1, <2>4, <3>2, <3>3 DEF chunk, span
  <2>5. CASE k # Needed
    <3>1. Len(piece) + k < body
      BY <1>1, <1>3, <1>6, <1>12, <2>3, <2>5
    <3>2. body' = body
      BY <1>2, <2>5
    <3>3. QED
      BY <1>3, <1>4, <1>5, <1>7, <1>9, <1>10, <1>11, <1>12, <2>1, <2>5, <3>1, <3>2 DEF chunk, span
  <2>6. QED
    BY <2>4, <2>5
<1>13. CASE body = 0
  <2>1. piece = <<>> /\ Len(piece) = 0
    BY <1>3, <1>13 DEF Strong, SocketInv
  <2>2. Pulled = End[done]
    BY <1>2, <1>3, <1>13 DEF Strong, SocketInv
  <2>3. k = 1 /\ Needed = 1
    BY <1>6, <1>13, <2>1 DEF Needed
  <2>4. taken = End[done] /\ taken + k = End[done] + 1
    BY <1>1, <1>8, <2>1, <2>2, <2>3
  <2>5. done < Len(script)
    <3>1. End[done] < End[Len(script)]
      <4>1. End[done] + 1 <= sent
        BY <1>6, <2>4
      <4>2. Len(script) \in Records /\ End[Len(script)] \in Nat
        BY <1>1, EndNat DEF Records, Numbered
      <4>3. QED
        BY <1>1, <4>1, <4>2
    <3>2. done # Len(script)
      BY <1>1, <3>1
    <3>3. QED
      BY <1>1, <3>2, EndNat
  <2>6. /\ End[done + 1] = End[done] + 1 + script[done + 1].size
        /\ script[done + 1].size \in Nat \ {0}
    BY <1>1, <2>5, NextRecord
  <2>7. RecordOf(taken + k) = done + 1
    <3>1. taken + k \in Nat /\ End[done] < taken + k /\ taken + k <= End[done + 1]
      <4>1. End[done] \in Nat
        BY <1>1
      <4>2. QED
        BY <2>4, <2>6, <4>1
    <3>2. QED
      BY <1>1, <2>5, <3>1, RecordOfIs
  <2>8. body' = script[done + 1].size /\ body' > 0
    BY <1>2, <1>13, <2>3, <2>6, <2>7
  <2>9. taken' = End[done] + 1
    BY <1>2, <2>4
  <2>10. QED
    BY <1>3, <1>4, <1>5, <1>7, <1>9, <1>10, <1>11, <1>13, <2>1, <2>2, <2>3, <2>5, <2>8, <2>9 DEF chunk, span
<1>14. QED
  BY <1>3, <1>12, <1>13

LEMMA ReceiveStrong ==
  ASSUME TypeOK, CallInv, Strong, Kept, told = "open", told' = "open",
         NEW k \in 1..MaxWire, Receive(k)
  PROVE  Strong'
<1> DEFINE chunk == piece \o Span(taken, taken + k)
           whole == k = Needed
<1>1. /\ use = "socket" /\ incoming = <<>> /\ ct = <<>> /\ out = <<>> /\ pendingCt = <<>>
      /\ ~eof /\ ~peerClosed /\ Unfed = 0
      /\ done < Len(script)
      /\ chunk \in Seq(Nat) /\ Len(chunk) = Len(piece) + k /\ Run(chunk, Pulled) /\ chunk # <<>>
      /\ taken' = Pulled + (Len(piece) + k)
      /\ \/ /\ body = 0 /\ k = Needed /\ Len(piece) = 0 /\ k = 1 /\ Pulled = End[done]
            /\ taken' = End[done] + 1 /\ body' = script[done + 1].size /\ body' > 0
         \/ /\ body > 0 /\ k = Needed /\ body' = 0
            /\ Pulled = End[done] + 1 /\ taken' = End[done + 1]
         \/ /\ body > 0 /\ k # Needed /\ body' = body /\ Len(piece) + k < body
  BY ReceiveHolds
<1>2. /\ Numbered /\ done \in Records /\ End[done] \in Nat /\ Len(piece) \in Nat
      /\ Len(plain) \in Nat /\ Len(deframer) \in Nat
  BY Basics
<1>3. /\ pc \in {"pull", "net", "unwrapPull"}
      /\ piece' = IF whole THEN <<>> ELSE chunk
      /\ UNCHANGED <<script, use, sent, cut, eof, n, out>>
      /\ \/ ~whole /\ Continue(pc) /\ UNCHANGED <<incoming, engineVars, flagVars, feedVars, ct>>
         \/ whole /\ pc = "net" /\ Feed(chunk, Continue("net"))
         \/ /\ whole /\ pc # "net" /\ incoming' = incoming \o chunk
            /\ Continue(IF pc = "pull" THEN "handshake" ELSE "unwrap")
            /\ UNCHANGED <<engineVars, flagVars, feedVars, ct>>
  BY DEF Receive, Pulling
<1> HIDE DEF chunk
<1>4. /\ incoming \o chunk = chunk /\ incoming \o pendingCt \o chunk = chunk
  <2>1. <<>> \o chunk = chunk /\ <<>> \o <<>> \o chunk = chunk
    BY <1>1
  <2>2. QED
    BY <1>1, <2>1
<1>5. /\ UNCHANGED <<deframer, done, plain, got, pendingCt, maybeBuffered>>
      /\ UNCHANGED <<handshakeDone, shutdownSent, peerClosed, shutdown>>
      /\ \/ ~whole /\ pc' = pc /\ incoming' = <<>> /\ ct' = <<>>
         \/ whole /\ pc = "net" /\ pc' = "decrypt" /\ incoming' = <<>> /\ ct' = chunk
         \/ /\ whole /\ pc \in {"pull", "unwrapPull"} /\ pc' \in {"handshake", "unwrap"}
            /\ incoming' = chunk /\ ct' = <<>>
  <2>1. CASE ~whole
    BY <1>1, <1>3, <2>1 DEF Continue
  <2>2. CASE whole /\ pc = "net"
    <3> DEFINE next == Continue("net")
    <3>1. Feed(chunk, next)
      BY <1>3, <2>2
    <3> HIDE DEF next
    <3>2. /\ ct' = chunk /\ incoming' = <<>> /\ pendingCt' = <<>> /\ Continue("decrypt")
          /\ UNCHANGED <<engineVars, flagVars, maybeBuffered>>
      BY <1>1, <1>4, <3>1 DEF Feed
    <3>3. QED
      BY <1>1, <2>2, <3>2 DEF Continue
  <2>3. CASE whole /\ pc # "net"
    BY <1>1, <1>3, <1>4, <2>3 DEF Continue
  <2>4. QED
    BY <2>1, <2>2, <2>3
<1>6. End' = End /\ Text' = Text /\ Records' = Records
  BY <1>3, SameRecords DEF Records
<1>7. /\ done + 1 \in Records /\ End[done + 1] \in Nat /\ script[done + 1].size \in Nat \ {0}
      /\ End[done + 1] = End[done] + 1 + script[done + 1].size
  BY <1>1, <1>2, NextRecord, EndNat
<1>8. Pulled \in Nat /\ Pulled = End[done] + Len(deframer)
  BY <1>1, <1>2, Amounts
<1>9. ~whole => Pulled' = Pulled /\ Unfed' = 0
  <2>1. ASSUME ~whole PROVE Pulled' = Pulled /\ Unfed' = 0
    <3>1. Len(piece') = Len(piece) + k
      BY <1>1, <1>3, <2>1
    <3>2. Pulled' = (Pulled + (Len(piece) + k)) - (Len(piece) + k)
      BY <1>1, <3>1 DEF Pulled
    <3>3. Len(piece) + k \in Nat
      BY <1>2
    <3>4. Pulled' = Pulled
      BY <1>8, <3>2, <3>3
    <3>5. Len(ct') = 0 /\ Len(incoming') = 0
      BY <1>5, <2>1
    <3>6. QED
      BY <3>4, <3>5 DEF Unfed
  <2>2. QED
    BY <2>1
<1>10. whole => Pulled' = taken' /\ Unfed' = Len(chunk) /\ piece' = <<>>
  <2>1. ASSUME whole PROVE Pulled' = taken' /\ Unfed' = Len(chunk) /\ piece' = <<>>
    <3>1. piece' = <<>> /\ Len(piece') = 0
      BY <1>3, <2>1
    <3>2. Len(chunk) \in Nat /\ Len(<<>>) = 0
      BY <1>1
    <3>3. Unfed' = Len(chunk)
      BY <1>5, <2>1, <3>2 DEF Unfed
    <3>4. Pulled' = (Pulled + (Len(piece) + k)) - Len(piece')
      BY <1>1 DEF Pulled
    <3>5. Pulled \in Nat /\ Len(piece) \in Nat /\ k \in Nat
      BY <1>2, <1>8
    <3>6. Pulled' = taken'
      BY <1>1, <3>1, <3>4, <3>5
    <3>7. QED
      BY <3>1, <3>3, <3>6
  <2>2. QED
    BY <2>1
<1>11. /\ whole => /\ Run(ct', Pulled) /\ Run(incoming', Pulled)
                   /\ Pulled' = Pulled + Unfed' /\ Run(piece', Pulled')
       /\ ~whole => Run(ct', Pulled) /\ Run(incoming', Pulled) /\ Run(piece', Pulled')
  <2>1. \A a : Run(<<>>, a)
    BY DEF Run
  <2>2. whole => Run(ct', Pulled) /\ Run(incoming', Pulled) /\ Run(piece', Pulled')
    BY <1>1, <1>5, <1>10, <2>1
  <2>3. whole => Pulled' = Pulled + Unfed'
    BY <1>1, <1>10
  <2>4. ~whole => Run(ct', Pulled) /\ Run(incoming', Pulled) /\ Run(piece', Pulled')
    BY <1>1, <1>3, <1>5, <1>9, <2>1
  <2>5. QED
    BY <2>2, <2>3, <2>4
<1> HIDE DEF whole
<1>12. FlagInv'
  <2>1. ~Closed(done)'
    BY <1>3, <1>5 DEF Strong, FlagInv, Closed
  <2>2. ~handshakeDone' => plain' = <<>> /\ Handshaking(done)'
    BY <1>3, <1>5 DEF Strong, FlagInv, Handshaking
  <2>3. QED
    BY <1>1, <1>3, <1>5, <2>1, <2>2 DEF Strong, FlagInv
<1>13. RunInv'
  <2>1. Run(deframer', End'[done'])
    BY <1>5, <1>6 DEF Strong, RunInv
  <2>2. Run(ct', End'[done'] + Len(deframer')) /\ Run(incoming', End'[done'] + Len(deframer'))
    BY <1>5, <1>6, <1>8, <1>11
  <2>3. Pulled' = End'[done'] + Len(deframer') + Unfed'
    <3>1. Pulled' = Pulled + Unfed'
      BY <1>8, <1>9, <1>11
    <3>2. QED
      BY <1>5, <1>6, <1>8, <3>1
  <2>4. /\ done' < Len(script') => Len(deframer') < 1 + script'[done' + 1].size
        /\ done' = Len(script') => deframer' = <<>>
    BY <1>3, <1>5 DEF Strong, RunInv
  <2>5. ct' = <<>> \/ incoming' = <<>>
    BY <1>5
  <2>6. QED
    BY <1>11, <2>1, <2>2, <2>3, <2>4, <2>5 DEF RunInv
<1>14. PlainInv'
  BY <1>3, <1>5, <1>6 DEF Strong, PlainInv
<1>15. FedInv'
  <2>1. ASSUME Unfed' > 0 PROVE FedInv'
    <3>1. whole
      BY <1>9, <2>1
    <3>2. Pulled' <= End[done + 1]
      BY <1>1, <1>2, <1>7, <1>10, <3>1 DEF whole
    <3>3. Len(plain) <= Limit
      BY <1>1 DEF Strong, SocketInv
    <3>4. done + 1 <= done + 1
      BY <1>2, EndNat
    <3>5. QED
      BY <1>5, <1>6, <1>7, <3>2, <3>3, <3>4 DEF FedInv
  <2>2. QED
    BY <2>1 DEF FedInv
<1>16. BioInv'
  BY <1>1, <1>3 DEF BioInv
<1>17. SocketInv'
  <2>1. /\ Len(plain) <= Limit
        /\ plain # <<>> /\ ~maybeBuffered => shutdownSent /\ body = 0
        /\ pc = "net" => ~maybeBuffered
        /\ pc \in {"unwrapPull", "pull"} => plain = <<>>
        /\ body > 0 => /\ done < Len(script) /\ Pulled = End[done] + 1
                       /\ body = script[done + 1].size /\ Len(piece) < body
    BY <1>1, <1>3 DEF Strong, SocketInv
  <2>2. out' = <<>> /\ Len(plain') <= Limit
    BY <1>1, <1>3, <1>5, <2>1
  <2>3. CASE ~whole
    <3>1. body > 0 /\ body' = body /\ Len(piece') < body'
      BY <1>1, <1>3, <2>3 DEF whole
    <3>2. QED
      BY <1>3, <1>5, <1>6, <1>9, <2>1, <2>2, <2>3, <3>1 DEF SocketInv
  <2>4. CASE whole /\ body = 0
    <3>1. /\ body' > 0 /\ body' = script[done + 1].size /\ Pulled' = End[done] + 1
          /\ Len(chunk) = 1 /\ piece' = <<>> /\ Len(piece') = 0
      BY <1>1, <1>10, <2>4
    <3>2. CASE pc = "net"
      <4>1. pc' = "decrypt" /\ incoming' = <<>> /\ Len(ct') = 1
        BY <1>5, <2>4, <3>1, <3>2
      <4>2. QED
        BY <1>1, <1>3, <1>5, <1>6, <2>1, <2>2, <3>1, <3>2, <4>1 DEF SocketInv
    <3>3. CASE pc # "net"
      <4>1. pc' \in {"handshake", "unwrap"} /\ plain' = <<>>
        BY <1>3, <1>5, <2>1, <2>4, <3>3
      <4>2. QED
        BY <1>1, <1>3, <1>5, <1>6, <2>1, <2>2, <3>1, <4>1 DEF SocketInv
    <3>4. QED
      BY <3>2, <3>3
  <2>5. CASE whole /\ body > 0
    <3>1. body' = 0 /\ Pulled' = End[done + 1] /\ piece' = <<>>
      BY <1>1, <1>10, <2>5 DEF whole
    <3>2. plain' = <<>>
      BY <1>3, <1>5, <2>1, <2>5
    <3>3. pc' \in {"handshake", "decrypt", "unwrap"}
      BY <1>5, <2>5
    <3>4. incoming' # <<>> => pc' \in {"handshake", "unwrap"}
      BY <1>5, <2>5
    <3>5. QED
      BY <1>1, <1>3, <1>5, <1>6, <2>2, <3>1, <3>2, <3>3, <3>4 DEF SocketInv
  <2>6. body = 0 \/ body > 0
    BY DEF TypeOK
  <2>7. QED
    BY <2>3, <2>4, <2>5, <2>6
<1>18. QED
  BY <1>12, <1>13, <1>14, <1>15, <1>16, <1>17 DEF Strong

LEMMA BioWriteStrong ==
  ASSUME TypeOK, CallInv, Strong, Kept, told = "open", told' = "open",
         NEW k \in 1..(Burst * MaxWire), BioWrite(k)
  PROVE  Strong'
<1> DEFINE last == RecordOf(taken + k)
           L == Len(script)
<1>1. /\ use = "bio" /\ pc = "idle" /\ waiting /\ ~eof /\ incoming = <<>> /\ ct = <<>> /\ out = <<>>
      /\ piece = <<>> /\ plain = <<>>
  BY DEF BioWrite, Idle, CallInv, Strong, BioInv
<1>2. /\ k \in 1..(sent - taken) /\ taken' = taken + k /\ incoming' = Span(taken, taken + k)
      /\ last - RecordOf(taken + 1) < Burst
      /\ Apart /\ script[last].kind = "close" => RecordOf(taken + 1) = last
      /\ UNCHANGED <<script, use, sent, cut, piece, body, eof>>
      /\ UNCHANGED <<deframer, done, plain, pendingCt, maybeBuffered>>
      /\ UNCHANGED <<handshakeDone, shutdownSent, peerClosed, shutdown>>
      /\ UNCHANGED <<pc, n, ct, out, waiting, got>>
  BY DEF BioWrite
<1>3. Apart /\ Burst <= 2 /\ Burst \in Nat
  BY <1>1 DEF Kept
<1>4. /\ Numbered /\ done \in Records /\ End[done] \in Nat /\ sent \in Nat /\ sent <= End[L]
      /\ taken \in Nat /\ taken <= sent /\ Len(deframer) \in Nat
  BY Basics
<1>5. k \in Nat \ {0} /\ taken + k <= sent
  <2>1. sent - taken \in Nat
    BY <1>4
  <2>2. k \in Nat \ {0} /\ k <= sent - taken
    BY <1>2, <2>1
  <2>3. QED
    BY <1>4, <2>2
<1>6. Unfed = 0 /\ Pulled = taken /\ taken = End[done] + Len(deframer)
  <2>1. Len(ct) = 0 /\ Len(incoming) = 0 /\ Len(piece) = 0
    BY <1>1
  <2>2. Unfed = 0
    BY <2>1 DEF Unfed
  <2>3. Pulled = taken
    BY <1>4, <2>1 DEF Pulled
  <2>4. QED
    BY <1>4, <2>2, <2>3, Amounts
<1>7. done < L
  <2>1. done # L
    <3>1. ASSUME done = L PROVE FALSE
      <4>1. End[L] <= taken
        BY <1>4, <1>6, <3>1
      <4>2. taken < sent
        BY <1>4, <1>5
      <4>3. End[L] \in Nat
        BY <1>4, <3>1
      <4>4. QED
        BY <1>4, <4>1, <4>2, <4>3
    <3>2. QED
      BY <3>1
  <2>2. QED
    BY <1>4, <2>1, EndNat
<1>8. /\ done + 1 \in Records /\ script[done + 1].size \in Nat
      /\ End[done + 1] = End[done] + 1 + script[done + 1].size
  BY <1>4, <1>7, NextRecord
<1>9. RecordOf(taken + 1) = done + 1
  <2>1. Len(deframer) < 1 + script[done + 1].size
    BY <1>7, Amounts
  <2>2. taken + 1 \in Nat /\ End[done] < taken + 1 /\ taken + 1 <= End[done + 1]
    BY <1>4, <1>6, <1>8, <2>1
  <2>3. QED
    BY <1>4, <1>7, <2>2, RecordOfIs
<1>10. PICK i \in Records : i < L /\ last = i + 1 /\ End[i] < taken + k /\ taken + k <= End[i + 1]
  <2>1. L \in Records /\ End[L] \in Nat
    BY <1>4, EndNat DEF Records, Numbered
  <2>2. taken + k \in 1..End[L]
    BY <1>4, <1>5, <2>1
  <2>3. QED
    BY <1>4, <2>2, RecordOfCell
<1>11. i \in Nat /\ done \in Nat /\ L \in Nat /\ i + 1 \in Records
  BY <1>4, <1>10, EndNat, NextRecord
<1> HIDE DEF last
<1>12. i + 1 <= done + 2
  BY <1>2, <1>3, <1>9, <1>10, <1>11
<1>13. End' = End /\ Text' = Text /\ Records' = Records
  BY <1>2, SameRecords DEF Records
<1>14. /\ incoming' \in Seq(Nat) /\ Len(incoming') = k /\ Run(incoming', taken)
  BY <1>2, <1>4, <1>5, RunSpan
<1>15. Unfed' = k /\ Pulled' = taken + k
  <2>1. Len(ct') = 0 /\ Len(piece') = 0
    BY <1>1, <1>2
  <2>2. Unfed' = k
    BY <1>5, <1>14, <2>1 DEF Unfed
  <2>3. Pulled' = taken + k
    BY <1>2, <1>4, <1>5, <2>1 DEF Pulled
  <2>4. QED
    BY <2>2, <2>3
<1>16. FlagInv'
  <2>1. ~Closed(done)'
    BY <1>2 DEF Strong, FlagInv, Closed
  <2>2. ~handshakeDone' => plain' = <<>> /\ Handshaking(done)'
    BY <1>2 DEF Strong, FlagInv, Handshaking
  <2>3. QED
    BY <1>1, <1>2, <2>1, <2>2 DEF Strong, FlagInv
<1>17. RunInv'
  <2>1. Run(deframer', End'[done'])
    BY <1>2, <1>13 DEF Strong, RunInv
  <2>2. Run(incoming', End'[done'] + Len(deframer'))
    BY <1>2, <1>6, <1>13, <1>14
  <2>3. Run(ct', End'[done'] + Len(deframer')) /\ Run(piece', Pulled') /\ ct' = <<>>
    BY <1>1, <1>2 DEF Run
  <2>4. Pulled' = End'[done'] + Len(deframer') + Unfed'
    BY <1>2, <1>6, <1>13, <1>15
  <2>5. /\ done' < Len(script') => Len(deframer') < 1 + script'[done' + 1].size
        /\ done' = Len(script') => deframer' = <<>>
    BY <1>2 DEF Strong, RunInv
  <2>6. QED
    BY <2>1, <2>2, <2>3, <2>4, <2>5 DEF RunInv
<1>18. PlainInv'
  BY <1>2, <1>13 DEF Strong, PlainInv
<1>19. FedInv'
  <2>1. i + 1 \in Records' /\ Pulled' <= End'[i + 1] /\ i + 1 <= done' + 2 /\ plain' = <<>>
    BY <1>1, <1>2, <1>10, <1>11, <1>12, <1>13, <1>15
  <2>2. QED
    BY <2>1 DEF FedInv
<1>20. BioInv'
  <2>1. ASSUME script[L].kind = "close", Pulled' > End[L - 1]
        PROVE  done = L - 1
    <3>1. L - 1 \in Records /\ L - 1 \in Nat /\ L - 1 < L /\ (L - 1) + 1 = L /\ End[L - 1] \in Nat
      <4>1. L - 1 \in Records
        BY <1>11, <1>7 DEF Records
      <4>2. QED
        BY <1>4, <1>11, <4>1, EndNat
    <3>2. taken + k \in Nat /\ End[L - 1] < taken + k /\ taken + k <= End[L]
      <4>1. End[L] \in Nat
        BY <1>4, <1>11, EndNat DEF Records
      <4>2. QED
        BY <1>4, <1>5, <1>15, <2>1, <3>1, <4>1
    <3>3. last = L
      <4>1. RecordOf(taken + k) = (L - 1) + 1
        BY <1>4, <3>1, <3>2, RecordOfIs
      <4>2. QED
        BY <3>1, <4>1 DEF last
    <3>4. done + 1 = L
      BY <1>2, <1>3, <1>9, <2>1, <3>3
    <3>5. QED
      BY <1>11, <3>4
  <2>2. QED
    BY <1>1, <1>2, <1>13, <2>1 DEF BioInv
<1>21. SocketInv'
  BY <1>1, <1>2 DEF SocketInv
<1>22. QED
  BY <1>16, <1>17, <1>18, <1>19, <1>20, <1>21 DEF Strong

\* Only the peer goes on when the application has been told of the end.
LEMMA OwnStep ==
  ASSUME CallInv, Step \/ Reads \/ UnwrapCall
  PROVE  told = "open" /\ UNCHANGED <<script, use, ragged, sent, cut>>
<1>1. told = "open"
  <2>1. CASE Reads \/ UnwrapCall
    BY <2>1 DEF Reads, RecvCall, ReadCall, BioWrite, BioEof, UnwrapCall, Idle
  <2>2. CASE Step
    <3>1. pc # "idle"
      BY <2>2 DEF Step, Handshake, Drain, DecryptIncoming, Ended, Read, Unwrap, WouldBlock,
                  TcpEof, Receive, Pulling
    <3>2. QED
      BY <3>1 DEF CallInv
  <2>3. QED
    BY <2>1, <2>2
<1>2. UNCHANGED <<script, use, ragged, sent, cut>>
  <2>1. CASE Reads \/ UnwrapCall
    BY <2>1 DEF Reads, RecvCall, ReadCall, BioWrite, BioEof, UnwrapCall
  <2>2. CASE Step
    <3>1. CASE Handshake \/ Drain \/ DecryptIncoming \/ Ended
      BY <3>1 DEF Handshake, Drain, DecryptIncoming, Ended
    <3>2. CASE Read \/ Unwrap \/ WouldBlock \/ TcpEof
      BY <3>2 DEF Read, Unwrap, WouldBlock, TcpEof
    <3>3. CASE \E k \in 1..MaxWire : Receive(k)
      BY <3>3 DEF Receive
    <3>4. QED
      BY <2>2, <3>1, <3>2, <3>3 DEF Step
  <2>3. QED
    BY <2>1, <2>2
<1>3. QED
  BY <1>1, <1>2

\* IInv is inductive.
LEMMA StrongStep == IInv /\ [Next]_vars => OpenInv'
<1> SUFFICES ASSUME TypeOK, CallInv, OpenInv, [Next]_vars, told' = "open", Kept'
             PROVE  Strong'
  BY DEF IInv, OpenInv
<1>1. told = "open" /\ UNCHANGED <<script, use>>
  <2>1. CASE UNCHANGED vars \/ PeerSends \/ PeerCuts
    BY <2>1 DEF PeerSends, PeerCuts
  <2>2. CASE Step \/ Reads \/ UnwrapCall
    BY <2>2, OwnStep
  <2>3. QED
    BY <2>1, <2>2 DEF Next
<1>2. Kept
  BY <1>1 DEF Kept
<1>3. Strong
  BY <1>1, <1>2 DEF OpenInv
<1>4. CASE UNCHANGED vars
  <2>1. End' = End /\ Text' = Text /\ Records' = Records
    BY <1>4, SameRecords DEF Records
  <2>2. Pulled' = Pulled /\ Unfed' = Unfed
    BY <1>4 DEF Pulled, Unfed
  <2>3. FlagInv'
    BY <1>3, <1>4 DEF Strong, FlagInv, Closed, Handshaking
  <2>4. RunInv'
    BY <1>3, <1>4, <2>1, <2>2 DEF Strong, RunInv
  <2>5. PlainInv' /\ FedInv'
    BY <1>3, <1>4, <2>1, <2>2 DEF Strong, PlainInv, FedInv
  <2>6. BioInv'
    BY <1>3, <1>4, <2>1, <2>2 DEF Strong, BioInv
  <2>7. SocketInv'
    BY <1>3, <1>4, <2>1, <2>2 DEF Strong, SocketInv
  <2>8. QED
    BY <2>3, <2>4, <2>5, <2>6, <2>7 DEF Strong
<1>5. CASE \/ PeerSends \/ PeerCuts \/ UnwrapCall \/ WouldBlock \/ TcpEof \/ BioEof
           \/ \E k \in ReadSizes : RecvCall(k) \/ ReadCall(k)
  BY <1>1, <1>2, <1>3, <1>5, QuietStrong
<1>6. CASE Handshake
  BY <1>1, <1>2, <1>3, <1>6, HandshakeStrong
<1>7. CASE Drain \/ Ended
  BY <1>1, <1>2, <1>3, <1>7, DrainStrong
<1>8. CASE DecryptIncoming
  BY <1>1, <1>2, <1>3, <1>8, DecryptStrong
<1>9. CASE Read
  BY <1>1, <1>2, <1>3, <1>9, ReadStrong
<1>10. CASE Unwrap
  BY <1>1, <1>2, <1>3, <1>10, UnwrapStrong
<1>11. CASE \E k \in 1..MaxWire : Receive(k)
  BY <1>1, <1>2, <1>3, <1>11, ReceiveStrong
<1>12. CASE \E k \in 1..(Burst * MaxWire) : BioWrite(k)
  BY <1>1, <1>2, <1>3, <1>12, BioWriteStrong
<1>13. QED
  BY <1>4, <1>5, <1>6, <1>7, <1>8, <1>9, <1>10, <1>11, <1>12 DEF Next, Step, Reads

-----------------------------------------------------------------------------
(* The invariant of Spec *)

LEMMA InitStrong == Init => IInv
<1> SUFFICES ASSUME Init PROVE IInv
  OBVIOUS
<1>1. /\ script \in Scripts /\ use \in Uses /\ sent = 0 /\ taken = 0 /\ piece = <<>> /\ body = 0
      /\ incoming = <<>> /\ deframer = <<>> /\ done = 0 /\ plain = <<>> /\ ct = <<>> /\ out = <<>>
      /\ got = <<>> /\ pendingCt = <<>> /\ n = 0
      /\ ~cut /\ ~eof /\ ~maybeBuffered /\ ~handshakeDone /\ ~shutdownSent /\ ~peerClosed /\ ~shutdown
      /\ pc = "idle" /\ waiting /\ told = "open"
  BY DEF Init
<1>2. Numbered /\ script[1].kind = "hs" /\ Len(script) \in Nat \ {0}
  BY <1>1, Numbers, ScriptShape, RecordsAssumption
<1>3. /\ 0 \in Records /\ End[0] = 0 /\ Text[0] = 0 /\ Len(script) \in Records
      /\ End[Len(script)] \in Nat
  BY <1>2, EndNat DEF Numbered, Records
<1>4. Unfed = 0 /\ Pulled = 0
  <2>1. Len(ct) = 0 /\ Len(incoming) = 0 /\ Len(piece) = 0
    BY <1>1
  <2>2. Unfed = 0
    BY <2>1 DEF Unfed
  <2>3. Pulled = 0
    <3>1. \A a, b \in Nat : a = 0 /\ b = 0 => a - b = 0
      OBVIOUS
    <3>2. taken \in Nat /\ Len(piece) \in Nat /\ taken = 0 /\ Len(piece) = 0
      BY <1>1, <2>1
    <3>3. QED
      BY <3>1, <3>2, Zenon DEF Pulled
  <2>4. QED
    BY <2>2, <2>3
<1>5. TypeOK
  <2>1. 0 \in 0..Cardinality(SentRecords)
    <3>1. PICK j \in Records : Whole(j)
      BY <1>1, <1>2, SentWhole
    <3>2. Cardinality(SentRecords) = j /\ j \in Nat
      BY <1>1, <1>2, <3>1, WholeIs, EndNat
    <3>3. QED
      BY <3>2
  <2>2. 0 \in 0..End[Len(script)]
    BY <1>3
  <2>3. \A S : <<>> \in Seq(S)
    OBVIOUS
  <2>4. Len(<<>>) <= MaxWire
    OBVIOUS
  <2>5. /\ cut \in BOOLEAN /\ eof \in BOOLEAN /\ maybeBuffered \in BOOLEAN
        /\ handshakeDone \in BOOLEAN /\ shutdownSent \in BOOLEAN /\ peerClosed \in BOOLEAN
        /\ shutdown \in BOOLEAN /\ waiting \in BOOLEAN /\ ragged \in BOOLEAN /\ suppress \in BOOLEAN
    BY DEF Init
  <2>6. /\ incoming \in Seq(1..sent) /\ piece \in Seq(1..sent) /\ deframer \in Seq(1..sent)
        /\ pendingCt \in Seq(1..sent) /\ ct \in Seq(1..sent) /\ plain \in Seq(1..SentText)
        /\ out \in Seq(1..SentText) /\ got \in Seq(1..SentText)
    BY <1>1, <2>3
  <2>7. taken \in 0..sent /\ body \in Nat /\ Len(deframer) <= MaxWire
    BY <1>1, <2>4
  <2>8. sent \in 0..End[Len(script)] /\ done \in 0..Cardinality(SentRecords)
    BY <1>1, <2>1, <2>2
  <2>9. /\ pc = "idle" /\ n \in ReadSizes \union {0} /\ told = "open"
        /\ script \in Scripts /\ use \in Uses
    BY <1>1
  <2>10. QED
    BY <2>5, <2>6, <2>7, <2>8, <2>9 DEF TypeOK
<1>6. CallInv
  BY <1>1 DEF CallInv
<1>7. \A a : Run(<<>>, a)
  BY DEF Run
<1>8. FlagInv
  <2>1. ~Closed(0)
    BY DEF Closed
  <2>2. Handshaking(0)
    <3>1. 1 \in (0 + 1)..Len(script)
      BY <1>2
    <3>2. QED
      BY <1>2, <3>1 DEF Handshaking
  <2>3. QED
    BY <1>1, <2>1, <2>2 DEF FlagInv
<1>9. RunInv
  <2>1. Len(<<>>) = 0 /\ script[0 + 1].size \in Nat
    BY <1>2, <1>3, NextRecord
  <2>2. QED
    BY <1>1, <1>3, <1>4, <1>7, <2>1 DEF RunInv
<1>10. PlainInv
  <2>1. Len(<<>>) + Len(<<>>) + Len(<<>>) = 0
    OBVIOUS
  <2>2. QED
    BY <1>1, <1>3, <1>7, <2>1 DEF PlainInv
<1>11. FedInv /\ BioInv
  BY <1>1, <1>4 DEF FedInv, BioInv
<1>12. SocketInv
  <2>1. Len(<<>>) <= Limit
    OBVIOUS
  <2>2. QED
    BY <1>1, <1>3, <1>4, <2>1 DEF SocketInv
<1>13. QED
  BY <1>5, <1>6, <1>8, <1>9, <1>10, <1>11, <1>12 DEF IInv, SuppressInv, Init, OpenInv, Strong

LEMMA SuppressStep == CallInv /\ SuppressInv /\ [Next]_vars => SuppressInv'
<1> SUFFICES ASSUME CallInv, SuppressInv, [Next]_vars PROVE SuppressInv'
  OBVIOUS
<1>1. CASE PeerSends \/ PeerCuts \/ UNCHANGED vars
  BY <1>1 DEF PeerSends, PeerCuts, SuppressInv
<1>2. CASE Step \/ Reads \/ UnwrapCall
  <2>1. UNCHANGED <<ragged, cut>>
    BY <1>2, OwnStep
  <2>2. suppress' \in {suppress, FALSE} \/ (suppress' = ragged /\ cut)
    <3>1. CASE Reads \/ UnwrapCall
      BY <3>1 DEF Reads, RecvCall, ReadCall, BioWrite, BioEof, UnwrapCall
    <3>2. CASE Handshake \/ Drain \/ DecryptIncoming \/ Ended
      BY <3>2 DEF Handshake, Drain, DecryptIncoming, Ended
    <3>3. CASE Read \/ Unwrap \/ WouldBlock \/ TcpEof
      BY <3>3 DEF Read, Unwrap, WouldBlock, TcpEof
    <3>4. CASE \E k \in 1..MaxWire : Receive(k)
      BY <3>4 DEF Receive
    <3>5. QED
      BY <1>2, <3>1, <3>2, <3>3, <3>4 DEF Step
  <2>3. QED
    BY <2>1, <2>2 DEF SuppressInv
<1>3. QED
  BY <1>1, <1>2 DEF Next

LEMMA IInvStep == IInv /\ [Next]_vars => IInv'
BY TypeStep, CallStep, SuppressStep, StrongStep DEF IInv

\* Every buffer between the transport and the program, and every flag of the connection,
\* has its type, and the buffers hold no cell and no unit the peer has not sent.
THEOREM TypeCorrect == Spec => []TypeOK
<1>1. Init => IInv
  BY InitStrong
<1>2. IInv /\ [Next]_vars => IInv'
  BY IInvStep
<1>3. IInv => TypeOK
  BY DEF IInv
<1>4. QED
  BY <1>1, <1>2, <1>3, PTL DEF Spec

\* recv waits for the network only when rustls and _pending_ct hold nothing that it could
\* give, and no close_notify that it did not report (_recv_tls).
THEOREM DrainsFirst == Spec => []DrainedFirst
<1>1. Init => IInv
  BY InitStrong
<1>2. IInv /\ [Next]_vars => IInv'
  BY IInvStep
<1>3. IInv => DrainedFirst
  <2>1. SUFFICES ASSUME IInv, pc = "net", ~shutdownSent
                 PROVE  plain = <<>> /\ pendingCt = <<>> /\ ~Closed(done)
    BY DEF DrainedFirst
  <2>2. use = "socket" /\ told = "open"
    BY <2>1 DEF IInv, CallInv, TypeOK
  <2>3. Strong
    BY <2>1, <2>2 DEF IInv, OpenInv, Kept
  <2>4. QED
    BY <2>1, <2>2, <2>3 DEF Strong, FlagInv, SocketInv
<1>4. QED
  BY <1>1, <1>2, <1>3, PTL DEF Spec

-----------------------------------------------------------------------------
(* The stream *)

\* Nothing that the peer sent is on its way: the end of the transport is the end of the stream.
LEMMA AllRead ==
  ASSUME TypeOK, CallInv, Strong, plain = <<>>, out = <<>>, ct = <<>>, incoming = <<>>,
         taken = sent, cut
  PROVE  ~SentClose /\ Len(got) = SentText
<1>1. /\ Numbered /\ done \in Records /\ End[done] \in Nat /\ sent \in Nat /\ End[done] <= sent
      /\ Len(deframer) \in Nat /\ Len(piece) \in Nat /\ taken \in Nat /\ Len(got) \in Nat
  BY Basics
<1>2. Len(ct) = 0 /\ Len(incoming) = 0 /\ Len(plain) = 0 /\ Len(out) = 0
  OBVIOUS
<1>3. Unfed = 0
  BY <1>2 DEF Unfed
<1>4. Pulled = End[done] + Len(deframer) /\ Pulled = taken - Len(piece)
  BY <1>1, <1>3, Amounts DEF Pulled
<1>5. sent = End[done] + Len(deframer) + Len(piece)
  BY <1>1, <1>4
<1>6. done < Len(script) => sent < End[done + 1]
  <2>1. SUFFICES ASSUME done < Len(script) PROVE sent < End[done + 1]
    OBVIOUS
  <2>2. /\ script[done + 1].size \in Nat
        /\ End[done + 1] = End[done] + 1 + script[done + 1].size
    BY <1>1, <2>1, NextRecord
  <2>3. Len(deframer) < 1 + script[done + 1].size
    BY <2>1, Amounts
  <2>4. CASE Len(piece) = 0
    BY <1>1, <1>5, <2>2, <2>3, <2>4
  <2>5. CASE Len(piece) # 0
    <3>1. use = "socket" /\ body # 0 /\ body \in Nat
      <4>1. piece # <<>>
        BY <2>5
      <4>2. QED
        BY <4>1 DEF CallInv, TypeOK, Strong, SocketInv
    <3>2. /\ Pulled = End[done] + 1 /\ body = script[done + 1].size /\ Len(piece) < body
      BY <3>1 DEF Strong, SocketInv
    <3>3. sent = End[done] + 1 + Len(piece)
      BY <1>4, <1>5, <3>2
    <3>4. QED
      BY <1>1, <2>2, <3>2, <3>3
  <2>6. QED
    BY <2>4, <2>5
<1>7. Whole(done)
  BY <1>1, <1>6, WholeFrom
<1>8. SentText = Text[done] /\ (SentClose <=> Closed(done))
  BY <1>1, <1>7, WholeIs
<1>9. Len(got) = Text[done]
  <2>1. Len(got) + Len(out) + Len(plain) = Text[done]
    BY DEF Strong, PlainInv
  <2>2. QED
    BY <1>1, <1>2, <2>1
<1>10. QED
  BY <1>8, <1>9 DEF Strong, FlagInv

\* How the application is told of the end.
TellsClose == told' = "closed" /\ SentClose /\ Len(got) = SentText
TellsTruncated == told' = "truncated" /\ cut /\ ~SentClose /\ Len(got) = SentText
TellsCut == told' \in {"truncated", RaggedEof} /\ cut /\ ~SentClose /\ Len(got) = SentText

LEMMA ReadTells ==
  ASSUME TypeOK, CallInv, Strong, told = "open", told' # "open", n \in ReadSizes,
         ct = <<>>, out = <<>>, incoming = <<>>, NEW otherwise, ReadPlaintext(otherwise),
         otherwise => told' = told \/ (eof /\ Tell(RaggedEof))
  PROVE  got' = got /\ TellsCut
<1> DEFINE m == Least(n, Len(plain))
<1>1. ~Closed(done) /\ (eof => cut /\ taken = sent)
  BY DEF Strong, FlagInv
<1>2. /\ plain \in Seq(Nat) /\ Len(plain) \in Nat /\ n \in Nat \ {0}
  BY Basics
<1>3. m = 0
  <2>1. ASSUME m > 0 PROVE FALSE
    BY <2>1 DEF ReadPlaintext, Give
  <2>2. m \in Nat
    BY <1>2
  <2>3. QED
    BY <2>1, <2>2
<1>4. plain = <<>>
  <2>1. Len(plain) = 0
    BY <1>2, <1>3
  <2>2. QED
    BY <1>2, <2>1, Empty
<1>5. eof /\ Tell(RaggedEof)
  <2>1. CASE eof
    BY <1>1, <1>3, <2>1 DEF ReadPlaintext
  <2>2. CASE ~eof
    BY <1>1, <1>3, <2>2 DEF ReadPlaintext
  <2>3. QED
    BY <2>1, <2>2
<1>6. ~SentClose /\ Len(got) = SentText
  BY <1>1, <1>4, <1>5, AllRead
<1>7. QED
  BY <1>1, <1>5, <1>6 DEF Tell, TellsCut

LEMMA FeedTells ==
  ASSUME TypeOK, CallInv, Strong, told = "open", told' # "open", n \in ReadSizes,
         ct = <<>>, out = <<>>, NEW c \in Seq(1..sent), NEW otherwise, Feed(c, otherwise),
         otherwise => told' = told \/ (eof /\ Tell(RaggedEof))
  PROVE  got' = got /\ TellsCut
<1> DEFINE all == incoming \o pendingCt \o c
<1>1. ~peerClosed
  BY DEF Strong, FlagInv
<1>2. all = <<>> /\ ReadPlaintext(otherwise)
  BY <1>1 DEF Feed, Continue
<1>3. incoming = <<>>
  <2>1. /\ incoming \in Seq(1..sent) /\ pendingCt \in Seq(1..sent)
        /\ Len(incoming) \in Nat /\ Len(pendingCt) \in Nat /\ Len(c) \in Nat
    BY DEF TypeOK
  <2>2. Len(all) = Len(incoming) + Len(pendingCt) + Len(c)
    BY <2>1
  <2>3. Len(all) = 0
    BY <1>2
  <2>4. Len(incoming) = 0
    BY <2>1, <2>2, <2>3
  <2>5. QED
    BY <2>1, <2>4
<1>4. QED
  BY <1>2, <1>3, ReadTells

LEMMA HandshakeTells ==
  ASSUME TypeOK, CallInv, Strong, told = "open", told' # "open", Handshake
  PROVE  got' = got /\ TellsTruncated
<1>1. ct = <<>> /\ out = <<>> /\ plain = <<>>
  BY DEF Handshake, CallInv, Strong, FlagInv
<1>2. ~PumpFails
  BY <1>1, PumpWorks
<1>3. eof /\ incoming = <<>>
  <2>1. SUFFICES ASSUME ~(eof /\ incoming = <<>>) PROVE FALSE
    OBVIOUS
  <2>2. QED
    BY <1>2, <2>1 DEF Handshake, WantRead, Continue
<1>4. Tell("truncated")
  BY <1>3 DEF Handshake
<1>5. cut /\ taken = sent
  BY <1>3 DEF Strong, FlagInv
<1>6. ~SentClose /\ Len(got) = SentText
  BY <1>1, <1>3, <1>5, AllRead
<1>7. QED
  BY <1>4, <1>5, <1>6 DEF Tell, TellsTruncated

LEMMA UnwrapTells ==
  ASSUME TypeOK, CallInv, Strong, told = "open", told' # "open", Unwrap
  PROVE  got' = got /\ (TellsClose \/ TellsTruncated)
<1>1. ct = <<>> /\ out = <<>>
  BY DEF Unwrap, CallInv
<1>2. ~peerClosed /\ ~Closed(done) /\ (eof => cut /\ taken = sent /\ incoming = <<>>)
  BY DEF Strong, FlagInv
<1>3. /\ incoming \in Seq(1..sent) /\ Len(incoming) = Unfed /\ ~PumpFails
      /\ Run(incoming, End[done] + Len(deframer))
      /\ Pumped \in 0..Len(incoming) /\ Len(deframer) + Pumped <= MaxWire
  BY <1>1, PumpWorks
<1>4. CASE incoming = <<>>
  <2>1. Unwrapped /\ UNCHANGED <<incoming, eof, deframer, done, plain>>
    BY <1>4 DEF Unwrap
  <2>2. ~shutdown'
    BY <1>2, <2>1 DEF Unwrapped
  <2>3. plain = <<>> /\ eof /\ Tell("truncated")
    BY <2>1, <2>2 DEF Unwrapped, WantRead, Continue
  <2>4. ~SentClose /\ Len(got) = SentText
    BY <1>1, <1>2, <1>4, <2>3, AllRead
  <2>5. QED
    BY <1>2, <2>3, <2>4 DEF Tell, TellsTruncated
<1>5. CASE incoming # <<>>
  <2>1. Pump /\ Unwrapped /\ ~eof
    BY <1>2, <1>3, <1>5 DEF Unwrap
  <2>2. ~eof' /\ done' = Through(Fed(incoming, Pumped))
    BY <2>1 DEF Pump, Fed
  <2>3. shutdown' /\ Tell("closed")
    BY <2>1, <2>2 DEF Unwrapped, WantRead, Continue
  <2>4. Closed(Through(Fed(incoming, Pumped)))
    BY <1>2, <2>1, <2>2, <2>3 DEF Unwrapped
  <2>5. Unfed > 0
    <3>1. Unfed \in Nat /\ Len(incoming) # 0
      BY <1>3, <1>5, Amounts
    <3>2. QED
      BY <1>3, <3>1
  <2>6. SentClose /\ Len(got) = SentText
    BY <1>3, <2>4, <2>5, FeedingClose
  <2>7. QED
    BY <2>3, <2>6 DEF Tell, TellsClose
<1>6. QED
  BY <1>4, <1>5

LEMMA DecryptTells ==
  ASSUME TypeOK, CallInv, Strong, told = "open", told' # "open", DecryptIncoming
  PROVE  got' = got /\ TellsClose
<1> DEFINE k == ReadTls(deframer, ct)
           d == Fed(ct, k)
<1>1. pc = "decrypt" /\ ct # <<>>
  BY DEF DecryptIncoming, CallInv
<1>2. /\ k \in 0..Len(ct) /\ Len(deframer) + k <= MaxWire
      /\ ct \in Seq(1..sent) /\ Len(ct) \in Nat
  BY Moved DEF TypeOK
<1>3. incoming = <<>> /\ Run(ct, End[done] + Len(deframer)) /\ ~eof
  BY <1>1 DEF Strong, RunInv, FlagInv
<1>4. Len(ct) = Unfed /\ Unfed > 0
  <2>1. Len(incoming) = 0 /\ Len(ct) # 0
    BY <1>1, <1>2, <1>3
  <2>2. QED
    BY <1>2, <2>1 DEF Unfed
<1>5. Intact(d) /\ ~Full
  BY <1>2, <1>3, <1>4, FeedingCells, FeedingUnits
<1>6. ~DecryptTurn(d, k)
  <2>1. SUFFICES ASSUME DecryptTurn(d, k) PROVE FALSE
    OBVIOUS
  <2> DEFINE m == Least(n - Len(out), Len(Decrypted(d)))
             data == out \o SubSeq(Decrypted(d), 1, m)
             rest == Rest(ct, k)
  <2>2. Continue("decrypt") \/ Returns(rest, data)
    BY <2>1 DEF DecryptTurn
  <2> HIDE DEF data, rest
  <2>3. ~Continue("decrypt")
    BY DEF Continue
  <2>4. ~ReadReturns(rest, data)
    BY <1>3 DEF ReadReturns, Give, Continue
  <2>5. ~FeedReturns(rest, data)
    BY <1>3 DEF FeedReturns, Give, Continue
  <2>6. QED
    BY <2>2, <2>3, <2>4, <2>5 DEF Returns
<1>7. DecryptCloses(d) /\ Closed(Through(d))
  BY <1>5, <1>6 DEF DecryptIncoming, Fed
<1> HIDE DEF k
<1>8. SentClose /\ Len(got) = SentText
  BY <1>2, <1>3, <1>4, <1>7, FeedingClose
<1>9. QED
  BY <1>7, <1>8 DEF DecryptCloses, Tell, TellsClose

\* The chunk that a socket has, of a header or of a body.
LEMMA ReceiveTells ==
  ASSUME TypeOK, CallInv, Strong, Kept, told = "open", NEW k \in 1..MaxWire, Receive(k)
  PROVE  told' = told
<1> DEFINE chunk == piece \o Span(taken, taken + k)
           next == Continue("net")
<1>1. chunk # <<>> /\ ~peerClosed /\ incoming = <<>> /\ pendingCt = <<>> /\ chunk \in Seq(Nat)
  BY ReceiveHolds
<1>2. Feed(chunk, next) \/ \E where \in {pc, "handshake", "unwrap"} : Continue(where)
  BY DEF Receive
<1> HIDE DEF chunk, next
<1>3. ASSUME Feed(chunk, next) PROVE told' = told
  <2>1. incoming \o pendingCt \o chunk = chunk
    BY <1>1
  <2>2. Continue("decrypt")
    BY <1>1, <1>3, <2>1 DEF Feed
  <2>3. QED
    BY <2>2 DEF Continue
<1>4. ASSUME NEW where, Continue(where) PROVE told' = told
  BY <1>4 DEF Continue
<1>5. QED
  BY <1>2, <1>3, <1>4

\* A step that tells the application of the end, tells it what is so.
LEMMA Tells ==
  ASSUME TypeOK, CallInv, Strong, Kept, told = "open", told' # "open", Step \/ Reads \/ UnwrapCall
  PROVE  got' = got /\ (TellsClose \/ TellsCut)
<1>1. /\ ~peerClosed /\ ~shutdown /\ (eof => cut /\ taken = sent /\ incoming = <<>>)
  BY DEF Strong, FlagInv
<1>2. CASE Handshake
  BY <1>2, HandshakeTells DEF TellsTruncated, TellsCut
<1>3. CASE DecryptIncoming
  BY <1>3, DecryptTells
<1>4. CASE Unwrap
  BY <1>4, UnwrapTells DEF TellsTruncated, TellsCut
<1>5. ASSUME NEW k \in 1..MaxWire, Receive(k) PROVE FALSE
  BY <1>5, ReceiveTells
<1>6. CASE Drain
  <2> DEFINE next == Continue("net")
  <2>1. Feed(<<>>, next)
    BY <1>6 DEF Drain, Continue
  <2>2. next => told' = told
    BY DEF Continue
  <2>3. n \in ReadSizes /\ ct = <<>> /\ out = <<>> /\ <<>> \in Seq(1..sent)
    BY <1>6 DEF Drain, CallInv
  <2> HIDE DEF next
  <2>4. QED
    BY <2>1, <2>2, <2>3, FeedTells
<1>7. CASE Ended
  <2> DEFINE next == Tell(RaggedEof)
  <2>1. Feed(<<>>, next)
    BY <1>7 DEF Ended
  <2>2. n \in ReadSizes /\ ct = <<>> /\ out = <<>> /\ <<>> \in Seq(1..sent) /\ eof
    BY <1>7 DEF Ended, CallInv
  <2>3. next => eof /\ Tell(RaggedEof)
    BY <2>2
  <2> HIDE DEF next
  <2>4. QED
    BY <2>1, <2>2, <2>3, FeedTells
<1>8. CASE Read
  <2> DEFINE next == WantRead
  <2>1. incoming = <<>> /\ ReadPlaintext(next)
    BY <1>8 DEF Read, Continue
  <2>2. next => told' = told
    BY DEF WantRead
  <2>3. n \in ReadSizes /\ ct = <<>> /\ out = <<>>
    BY <1>8 DEF Read, CallInv
  <2> HIDE DEF next
  <2>4. QED
    BY <2>1, <2>2, <2>3, ReadTells
<1>9. CASE TcpEof
  <2>1. pc \in {"pull", "unwrapPull"} /\ Tell("truncated") /\ taken = sent /\ cut
    BY <1>9 DEF TcpEof, Pulling, Continue
  <2>2. use = "socket" /\ ct = <<>> /\ out = <<>>
    BY <2>1 DEF CallInv, TypeOK
  <2>3. plain = <<>> /\ incoming = <<>>
    BY <2>1, <2>2 DEF Strong, SocketInv
  <2>4. ~SentClose /\ Len(got) = SentText
    BY <2>1, <2>2, <2>3, AllRead
  <2>5. QED
    BY <2>1, <2>4 DEF Tell, TellsCut
<1>10. ASSUME WouldBlock \/ UnwrapCall PROVE FALSE
  BY <1>10 DEF WouldBlock, WantRead, UnwrapCall, Continue
<1>11. ASSUME Reads PROVE FALSE
  BY <1>1, <1>11 DEF Reads, RecvCall, ReadCall, BioWrite, BioEof, Continue
<1>12. QED
  BY <1>2, <1>3, <1>4, <1>5, <1>6, <1>7, <1>8, <1>9, <1>10, <1>11 DEF Step

\* What the application was given is never taken back.
LEMMA Given ==
  ASSUME TypeOK, NEW data \in Seq(Nat), Give(data)
  PROVE  Len(got') \in Nat /\ Len(got) <= Len(got')
<1>1. got \in Seq(Nat) /\ Len(got) \in Nat
  BY Basics
<1>2. got' = got \o data
  BY DEF Give
<1>3. Len(got') = Len(got) + Len(data) /\ Len(data) \in Nat
  BY <1>1, <1>2
<1>4. QED
  BY <1>1, <1>3

LEMMA ReadGives ==
  ASSUME TypeOK, Strong, told = "open", told' = "open", n \in ReadSizes,
         NEW otherwise, ReadPlaintext(otherwise), otherwise => got' = got
  PROVE  got' = got \/ (Len(got') \in Nat /\ Len(got) <= Len(got'))
<1> DEFINE m == Least(n, Len(plain))
           data == SubSeq(plain, 1, m)
<1>1. plain \in Seq(Nat) /\ Len(plain) \in Nat /\ n \in Nat
  BY Basics
<1>2. m \in 0..Len(plain)
  BY <1>1
<1>3. Give(data) \/ otherwise
  BY RaggedWord DEF ReadPlaintext, Tell
<1> HIDE DEF m
<1>4. data \in Seq(Nat)
  BY <1>1, <1>2, Parts
<1> HIDE DEF data
<1>5. QED
  BY <1>3, <1>4, Given

LEMMA FeedGives ==
  ASSUME TypeOK, Strong, told = "open", told' = "open", n \in ReadSizes,
         NEW c, NEW otherwise, Feed(c, otherwise), otherwise => got' = got
  PROVE  got' = got \/ (Len(got') \in Nat /\ Len(got) <= Len(got'))
<1>1. ReadPlaintext(otherwise) \/ got' = got
  BY DEF Feed, Tell, Continue
<1>2. QED
  BY <1>1, ReadGives

LEMMA DecryptGives ==
  ASSUME TypeOK, CallInv, Strong, told = "open", told' = "open", DecryptIncoming
  PROVE  got' = got \/ (Len(got') \in Nat /\ Len(got) <= Len(got'))
<1>1. PICK k \in 1..Len(ct) : /\ Len(ct) = Unfed /\ Len(deframer) + k <= MaxWire
                              /\ Run(ct, End[done] + Len(deframer))
                              /\ Unfed > 0
                              /\ DecryptTurn(Fed(ct, k), k)
  BY DecryptHolds
<1> DEFINE dec == Decrypted(Fed(ct, k))
           m == Least(n - Len(out), Len(dec))
           data == out \o SubSeq(dec, 1, m)
           rest == Rest(ct, k)
<1>2. out \in Seq(Nat) /\ Len(out) \in Nat /\ n \in Nat /\ Len(ct) \in Nat /\ ct \in Seq(1..sent)
  BY Basics DEF TypeOK
<1>3. Len(out) < n
  BY DEF DecryptIncoming, CallInv
<1>4. dec \in Seq(Nat) /\ Len(dec) \in Nat
  <2>1. k \in 0..Len(ct)
    BY <1>2
  <2>2. QED
    BY <1>1, <1>2, <2>1, FeedingUnits
<1>5. Continue("decrypt") \/ Returns(rest, data)
  BY <1>1 DEF DecryptTurn
<1> HIDE DEF dec
<1>6. m \in 0..Len(dec)
  BY <1>2, <1>3, <1>4
<1> HIDE DEF m
<1>7. data \in Seq(Nat)
  <2>1. SubSeq(dec, 1, m) \in Seq(Nat)
    BY <1>4, <1>6, Parts
  <2>2. QED
    BY <1>2, <2>1
<1> HIDE DEF data, rest
<1>8. Give(data) \/ got' = got
  BY <1>5 DEF Returns, ReadReturns, FeedReturns, Continue, Tell
<1>9. QED
  BY <1>7, <1>8, Given

LEMMA GotGrows ==
  ASSUME TypeOK, CallInv, Strong, Kept, told = "open", told' = "open", Step \/ Reads \/ UnwrapCall
  PROVE  Len(got') \in Nat /\ Len(got) <= Len(got')
<1>1. Len(got) \in Nat
  BY Basics
<1> DEFINE grows == got' = got \/ (Len(got') \in Nat /\ Len(got) <= Len(got'))
<1>2. CASE DecryptIncoming
  BY <1>2, DecryptGives
<1>3. CASE Drain
  <2> DEFINE next == Continue("net")
  <2>1. Feed(<<>>, next) \/ got' = got
    BY <1>3 DEF Drain, Continue
  <2>2. next => got' = got
    BY DEF Continue
  <2>3. n \in ReadSizes
    BY <1>3 DEF Drain, CallInv
  <2> HIDE DEF next
  <2>4. QED
    BY <1>1, <2>1, <2>2, <2>3, FeedGives
<1>4. CASE Ended
  <2> DEFINE next == Tell(RaggedEof)
  <2>1. Feed(<<>>, next)
    BY <1>4 DEF Ended
  <2>2. next => got' = got
    BY DEF Tell
  <2>3. n \in ReadSizes
    BY <1>4 DEF Ended, CallInv
  <2> HIDE DEF next
  <2>4. QED
    BY <1>1, <2>1, <2>2, <2>3, FeedGives
<1>5. CASE Read
  <2> DEFINE next == WantRead
  <2>1. ReadPlaintext(next) \/ got' = got
    BY <1>5 DEF Read, Continue
  <2>2. next => got' = got
    BY DEF WantRead
  <2>3. n \in ReadSizes
    BY <1>5 DEF Read, CallInv
  <2> HIDE DEF next
  <2>4. QED
    BY <1>1, <2>1, <2>2, <2>3, ReadGives
<1>6. CASE \E k \in 1..MaxWire : Receive(k)
  <2>1. PICK k \in 1..MaxWire : Receive(k)
    BY <1>6
  <2> DEFINE next == Continue("net")
             chunk == piece \o Span(taken, taken + k)
  <2>2. Feed(chunk, next) \/ got' = got
    BY <2>1 DEF Receive, Continue
  <2>3. next => got' = got
    BY DEF Continue
  <2> HIDE DEF next, chunk
  <2>4. pc = "net" => n \in ReadSizes
    BY DEF CallInv
  <2>5. pc # "net" => got' = got
    BY <2>1 DEF Receive, Continue
  <2>6. QED
    BY <1>1, <2>2, <2>3, <2>4, <2>5, FeedGives
<1>7. CASE Handshake
  <2>1. got' = got
    BY <1>7 DEF Handshake, Tell, WantRead, Continue
  <2>2. QED
    BY <1>1, <2>1
<1>8. CASE Unwrap
  <2>1. got' = got
    BY <1>8 DEF Unwrap, Unwrapped, Tell, WantRead, Continue
  <2>2. QED
    BY <1>1, <2>1
<1>9. CASE WouldBlock \/ TcpEof
  <2>1. got' = got
    BY <1>9 DEF WouldBlock, TcpEof, Tell, WantRead, Continue
  <2>2. QED
    BY <1>1, <2>1
<1>10. CASE Reads \/ UnwrapCall
  <2>1. got' = got
    BY <1>10 DEF Reads, RecvCall, ReadCall, BioWrite, BioEof, UnwrapCall, Tell, Continue
  <2>2. QED
    BY <1>1, <2>1
<1>11. QED
  BY <1>2, <1>3, <1>4, <1>5, <1>6, <1>7, <1>8, <1>9, <1>10 DEF Step

-----------------------------------------------------------------------------
(* TlsConnection implements TlsStream *)

LEMMA InitMaps == Init => Stream!Init
<1> SUFFICES ASSUME Init PROVE Stream!Init
  OBVIOUS
<1>1. /\ script \in Scripts /\ sent = 0 /\ cut = FALSE /\ ragged \in BOOLEAN /\ got = <<>>
      /\ told = "open"
  BY DEF Init
<1>2. Numbered
  BY <1>1, Numbers
<1>3. PICK j \in Records : Whole(j)
  BY <1>1, <1>2, SentWhole
<1>4. j = 0
  <2>1. j \in Nat /\ End[j] <= 0 /\ End[j] \in Nat
    BY <1>1, <1>2, <1>3, EndNat DEF Whole
  <2>2. 0 \in Records /\ End[0] = 0
    BY <1>2 DEF Numbered, Records
  <2>3. ASSUME 0 < j PROVE FALSE
    <3>1. 1 \in Records /\ 1 <= j
      BY <1>3, <2>1, <2>3 DEF Records
    <3>2. End[1] <= End[j] /\ End[1] \in Nat
      BY <1>2, <1>3, <3>1, EndGrows, EndNat
    <3>3. End[1] > 0
      <4>1. 0 < Len(script) /\ 0 + 1 = 1
        BY <1>2 DEF Numbered
      <4>2. End[0 + 1] = End[0] + 1 + script[0 + 1].size /\ script[0 + 1].size \in Nat
        BY <1>2, <2>2, <4>1, NextRecord
      <4>3. QED
        BY <2>2, <4>2
    <3>4. QED
      BY <2>1, <3>2, <3>3
  <2>4. QED
    BY <2>1, <2>3
<1>5. SentText = 0 /\ ~SentClose
  <2>1. SentText = Text[0] /\ (SentClose <=> Closed(0))
    BY <1>1, <1>2, <1>3, <1>4, WholeIs
  <2>2. Text[0] = 0 /\ ~Closed(0)
    BY <1>2 DEF Numbered, Closed
  <2>3. QED
    BY <2>1, <2>2
<1>6. SentClose = FALSE
  BY <1>5 DEF SentClose
<1>7. QED
  BY <1>1, <1>5, <1>6 DEF Stream!Init

\* The peer, which sends nothing after close_notify.
LEMMA SendMaps == TypeOK /\ PeerSends => Stream!Send
<1> SUFFICES ASSUME TypeOK, PeerSends PROVE Stream!Send
  OBVIOUS
<1>1. /\ Numbered /\ sent \in Nat
  BY Basics
<1>2. ~cut /\ sent < End[Len(script)] /\ UNCHANGED <<cut, ragged, got, told>>
  BY DEF PeerSends
<1>3. SentText \in Nat /\ SentText' \in Nat /\ SentText <= SentText'
  BY SentGrows
<1>4. ~SentClose
  <2>1. PICK j \in Records : Whole(j)
    BY <1>1, SentWhole
  <2>2. SUFFICES ASSUME SentClose PROVE FALSE
    OBVIOUS
  <2>3. Closed(j)
    BY <1>1, <2>1, <2>2, WholeIs
  <2>4. j = Len(script)
    BY <1>1, <2>1, <2>3, ClosedIsLast
  <2>5. End[Len(script)] <= sent /\ End[Len(script)] \in Nat
    BY <1>1, <2>1, <2>4, EndNat DEF Whole
  <2>6. QED
    BY <1>1, <1>2, <2>5
<1>5. SentClose' \in BOOLEAN
  BY DEF SentClose
<1>6. SentText' >= SentText
  BY <1>3
<1>7. QED
  BY <1>2, <1>3, <1>4, <1>5, <1>6 DEF Stream!Send

\* A step that gives the application some of what was decrypted, or nothing.
LEMMA DeliverMaps ==
  ASSUME TypeOK, TypeOK', Strong, Strong', told = "open", told' = "open",
         UNCHANGED <<script, sent, cut, ragged>>, Len(got') \in Nat, Len(got) <= Len(got')
  PROVE  Stream!Deliver
<1>1. /\ SentText' = SentText /\ (SentClose' <=> SentClose)
  BY SameRecords
<1>2. SentClose' = SentClose
  BY <1>1, SameRecords DEF SentClose
<1>3. got' \in Seq(1..SentText) /\ got' \in Seq(Nat) /\ SentText \in Nat
  BY <1>1, Basics, BasicsNext DEF TypeOK
<1>4. Run(got', 0)
  BY DEF Strong, PlainInv
<1>5. Len(got') <= SentText
  <2>1. CASE Len(got') = 0
    BY <1>3, <2>1
  <2>2. CASE Len(got') # 0
    <3>1. Len(got') \in 1..Len(got')
      BY <1>3, <2>2
    <3>2. got'[Len(got')] = Len(got')
      BY <1>4, <3>1 DEF Run
    <3>3. got'[Len(got')] \in 1..SentText
      BY <1>3, <3>1
    <3>4. QED
      BY <1>3, <3>2, <3>3
  <2>3. QED
    BY <2>1, <2>2
<1>6. got' = [i \in 1..Len(got') |-> i]
  BY <1>3, <1>4 DEF Run
<1>7. Len(got') \in Len(got)..SentText
  <2>1. Len(got) \in Nat /\ SentText \in Nat
    BY Basics
  <2>2. QED
    BY <1>3, <1>5, <2>1
<1>8. QED
  BY <1>1, <1>2, <1>6, <1>7 DEF Stream!Deliver

LEMMA StepMaps == IInv /\ IInv' /\ Kept /\ [Next]_vars => [Stream!Next]_Stream!vars
<1> SUFFICES ASSUME IInv, IInv', Kept, [Next]_vars PROVE [Stream!Next]_Stream!vars
  OBVIOUS
<1>1. TypeOK /\ CallInv /\ TypeOK'
  BY DEF IInv
<1>2. ASSUME UNCHANGED <<script, sent>>
      PROVE  SentText' = SentText /\ SentClose' = SentClose
  BY <1>2, SameRecords DEF SentClose
<1>3. CASE UNCHANGED vars
  <2>1. UNCHANGED Stream!vars
    BY <1>2, <1>3 DEF Stream!vars
  <2>2. QED
    BY <2>1
<1>4. CASE PeerSends
  BY <1>1, <1>4, SendMaps DEF Stream!Next
<1>5. CASE PeerCuts
  <2>1. Stream!Cut
    BY <1>2, <1>5 DEF PeerCuts, Stream!Cut
  <2>2. QED
    BY <2>1 DEF Stream!Next
<1>6. CASE Step \/ Reads \/ UnwrapCall
  <2>1. told = "open"
    BY <1>1, <1>6, OwnStep
  <2>2. UNCHANGED <<script, use, ragged, sent, cut>>
    BY <1>1, <1>6, OwnStep
  <2>3. Strong
    BY <2>1 DEF IInv, OpenInv
  <2>4. CASE told' = "open"
    <3>1. Strong'
      BY <2>2, <2>4 DEF IInv, OpenInv, Kept
    <3>2. Len(got') \in Nat /\ Len(got) <= Len(got')
      BY <1>1, <1>6, <2>1, <2>3, <2>4, GotGrows
    <3>3. Stream!Deliver
      BY <1>1, <2>1, <2>2, <2>3, <2>4, <3>1, <3>2, DeliverMaps
    <3>4. QED
      BY <3>3 DEF Stream!Next
  <2>5. CASE told' # "open"
    <3>1. got' = got /\ (TellsClose \/ TellsCut)
      BY <1>1, <1>6, <2>1, <2>3, <2>5, Tells
    <3>2. SentText' = SentText /\ SentClose' = SentClose
      BY <1>2, <2>2
    <3>3. CASE TellsClose
      <4>1. Stream!Close
        BY <2>1, <2>2, <3>1, <3>2, <3>3 DEF TellsClose, Stream!Close
      <4>2. QED
        BY <4>1 DEF Stream!Next
    <3>4. CASE TellsCut
      <4>1. CASE told' = "truncated"
        <5>1. Stream!Truncate
          BY <2>1, <2>2, <3>1, <3>2, <3>4, <4>1 DEF TellsCut, Stream!Truncate
        <5>2. QED
          BY <5>1 DEF Stream!Next
      <4>2. CASE told' = "closed" /\ suppress
        <5>1. ragged /\ cut
          BY <4>2 DEF IInv, SuppressInv
        <5>2. Stream!Close
          BY <2>1, <2>2, <3>1, <3>2, <3>4, <4>2, <5>1 DEF TellsCut, Stream!Close
        <5>3. QED
          BY <5>2 DEF Stream!Next
      <4>3. QED
        BY <3>4, <4>1, <4>2 DEF TellsCut, RaggedEof
    <3>5. QED
      BY <3>1, <3>3, <3>4
  <2>6. QED
    BY <2>4, <2>5
<1>7. QED
  BY <1>3, <1>4, <1>5, <1>6 DEF Next

\* What the application reads is what the peer sent, in order and once; it is told of the
\* end after the last byte: with b"" of a close_notify, or of a cut connection when the socket
\* suppresses ragged ends, with SSLEOFError only of a cut without close_notify; no call fails
\* (_object.py read and feed_decrypt, _socket.py _recv_tls).  A program with a MemoryBIO has
\* to keep to Apart, and put at most two records there at a time.
THEOREM ImplementsTheStream ==
  ASSUME "bio" \in Uses => Apart /\ Burst <= 2
  PROVE  Spec => ImplementsStream
<1>1. Init => IInv /\ Stream!Init
  BY InitStrong, InitMaps
<1>2. IInv /\ [Next]_vars => IInv'
  BY IInvStep
<1>3. IInv => Kept
  BY DEF IInv, TypeOK, Kept
<1>4. IInv /\ IInv' /\ [Next]_vars => [Stream!Next]_Stream!vars
  BY <1>3, StepMaps
<1>5. QED
  BY <1>1, <1>2, <1>4, PTL DEF Spec, ImplementsStream, Stream!Spec

\* _peer_closed is set by the step that tells the application of a clean end.
LEMMA ClosedIsTold ==
  ASSUME TypeOK, CallInv, Strong, told = "open", Step \/ Reads \/ UnwrapCall, peerClosed'
  PROVE  got' = got /\ TellsClose
<1>1. ~peerClosed /\ ~shutdown /\ ~Closed(done)
  BY DEF Strong, FlagInv
<1>2. peerClosed' # peerClosed
  BY <1>1
<1>3. ASSUME NEW otherwise, ReadPlaintext(otherwise) PROVE FALSE
  BY <1>1, <1>3 DEF ReadPlaintext
<1>4. ASSUME NEW c, NEW otherwise, Feed(c, otherwise) PROVE FALSE
  BY <1>1, <1>2, <1>3, <1>4 DEF Feed
<1>5. CASE DecryptIncoming
  <2>1. PICK d : DecryptCloses(d)
    BY <1>2, <1>5 DEF DecryptIncoming, DecryptFails, DecryptTurn
  <2>2. told' = "closed"
    BY <2>1 DEF DecryptCloses, Tell
  <2>3. QED
    BY <1>5, <2>2, DecryptTells
<1>6. CASE Unwrap
  <2>1. Unwrapped
    BY <1>2, <1>6 DEF Unwrap
  <2>2. Tell("closed")
    BY <2>1 DEF Unwrapped
  <2>3. told' = "closed"
    BY <2>2 DEF Tell
  <2>4. QED
    BY <1>6, <2>3, UnwrapTells DEF TellsTruncated
<1>7. ASSUME Drain \/ Ended \/ \E k \in 1..MaxWire : Receive(k) PROVE FALSE
  <2>1. \E c, otherwise : Feed(c, otherwise)
    <3>1. CASE Drain
      BY <1>2, <1>7, <3>1 DEF Drain
    <3>2. CASE Ended
      BY <3>2 DEF Ended
    <3>3. CASE \E k \in 1..MaxWire : Receive(k)
      BY <1>2, <3>3 DEF Receive
    <3>4. QED
      BY <1>7, <3>1, <3>2, <3>3
  <2>2. QED
    BY <1>4, <2>1
<1>8. ASSUME Read PROVE FALSE
  <2>1. ReadPlaintext(WantRead)
    BY <1>2, <1>8 DEF Read
  <2>2. QED
    BY <1>3, <2>1
<1>9. ASSUME Handshake \/ WouldBlock \/ TcpEof PROVE FALSE
  BY <1>2, <1>9 DEF Handshake, WouldBlock, TcpEof
<1>10. ASSUME Reads \/ UnwrapCall PROVE FALSE
  BY <1>2, <1>10 DEF Reads, RecvCall, ReadCall, BioWrite, BioEof, UnwrapCall
<1>11. QED
  BY <1>5, <1>6, <1>7, <1>8, <1>9, <1>10 DEF Step

ClosedInv == peerClosed => told = "closed" /\ SentClose /\ Len(got) = SentText

LEMMA ClosedStep == IInv /\ IInv' /\ Kept /\ ClosedInv /\ [Next]_vars => ClosedInv'
<1> SUFFICES ASSUME IInv, IInv', Kept, ClosedInv, [Next]_vars PROVE ClosedInv'
  OBVIOUS
<1>1. TypeOK /\ CallInv
  BY DEF IInv
<1>2. CASE UNCHANGED vars
  BY <1>2, SameRecords DEF ClosedInv
<1>3. CASE PeerCuts
  BY <1>3, SameRecords DEF PeerCuts, ClosedInv
<1>4. CASE PeerSends
  <2>1. ~SentClose
    BY <1>1, <1>4, SendMaps DEF Stream!Send
  <2>2. ~peerClosed
    BY <2>1 DEF ClosedInv
  <2>3. QED
    BY <1>4, <2>2 DEF PeerSends, ClosedInv
<1>5. CASE Step \/ Reads \/ UnwrapCall
  <2>1. told = "open" /\ Strong /\ UNCHANGED <<script, sent>>
    BY <1>1, <1>5, OwnStep DEF IInv, OpenInv
  <2>2. SentText' = SentText /\ (SentClose' <=> SentClose)
    BY <2>1, SameRecords
  <2>3. peerClosed' => got' = got /\ TellsClose
    BY <1>1, <1>5, <2>1, ClosedIsTold
  <2>4. QED
    BY <2>2, <2>3 DEF ClosedInv, TellsClose
<1>6. QED
  BY <1>2, <1>3, <1>4, <1>5 DEF Next

\* What the comment on _peer_closed says (_TLSConnection.__init__) is so where the stream is
\* implemented: for a socket, and for a program that keeps to Apart.
THEOREM ConsumedAtClose ==
  ASSUME "bio" \in Uses => Apart /\ Burst <= 2
  PROVE  Spec => []AllConsumedAtClose
<1>1. Init => IInv /\ ClosedInv
  BY InitStrong DEF Init, ClosedInv
<1>2. IInv /\ [Next]_vars => IInv'
  BY IInvStep
<1>3. IInv => Kept
  BY DEF IInv, TypeOK, Kept
<1>4. IInv /\ IInv' /\ ClosedInv /\ [Next]_vars => ClosedInv'
  BY <1>3, ClosedStep
<1>5. ClosedInv => AllConsumedAtClose
  BY DEF ClosedInv, AllConsumedAtClose
<1>6. QED
  BY <1>1, <1>2, <1>4, <1>5, PTL DEF Spec
=============================================================================
