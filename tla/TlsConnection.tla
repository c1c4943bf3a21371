--------------------------- MODULE TlsConnection ---------------------------
(***************************************************************************)
(* The receiving side of a client's TLS connection: _TLSConnection of      *)
(* src/rust-cpython/overlay/Lib/rtls/_object.py over a rustls connection,  *)
(* used in the two ways the package offers: by a TLSSocket (_socket.py),   *)
(* which reads one record header or body at a time, and by a program that  *)
(* feeds a MemoryBIO and calls read, as asyncio does.                      *)
(*                                                                         *)
(* The peer's records are a sequence of cells: one for a header, then one  *)
(* for each unit of the body, which in a data record is a unit of          *)
(* plaintext.  Cells and units are numbered from 1, and buffers hold those *)
(* numbers; rustls can decrypt a record only if it got all its cells, in   *)
(* order, after those of the records before.                               *)
(*                                                                         *)
(* One thread calls the connection.  Not modelled: the server's acceptor,  *)
(* callbacks, and what is sent, but for close_notify (see TlsFlush).       *)
(***************************************************************************)
EXTENDS Naturals, Sequences, FiniteSets

CONSTANTS Scripts,     \* the sequences of records [kind, size] the peer may send
          Uses,        \* subset of {"socket", "bio"}
          ReadSizes,   \* the sizes the application asks for
          ReadSize,    \* READ_SIZE of rustls: cells read_tls takes at a time
          MaxWire,     \* MAX_WIRE_SIZE: cells rustls holds undecrypted
          Limit,       \* DEFAULT_RECEIVED_PLAINTEXT_LIMIT
          Burst,       \* records a program puts into the BIO at a time
          Apart        \* it puts a close_notify, and the end, there apart from other records

Kinds == {"hs", "data", "ticket", "close"}

ASSUME ScriptsAssumption == Scripts \subseteq Seq([kind : Kinds, size : Nat \ {0}])

\* A peer that follows the protocol: the handshake comes first, and nothing after
\* close_notify.  rustls is built to hold any record, and the plaintext of one.
ASSUME RecordsAssumption ==
  \A s \in Scripts :
    /\ s # <<>> /\ s[1].kind = "hs"
    /\ \A i \in DOMAIN s :
         /\ s[i].kind = "hs" => \A j \in 1..i : s[j].kind = "hs"
         /\ s[i].kind = "close" => i = Len(s)
         /\ s[i].kind = "data" => s[i].size <= Limit
         /\ 1 + s[i].size <= MaxWire

ASSUME SizesAssumption ==
  /\ Uses \subseteq {"socket", "bio"}
  /\ ReadSizes \subseteq Nat \ {0}
  /\ ReadSize \in Nat \ {0} /\ MaxWire \in Nat \ {0} /\ Limit \in Nat /\ Burst \in Nat \ {0}
  /\ Apart \in BOOLEAN

VARIABLES script,         \* what the peer sends
          use,            \* who uses the connection
          ragged,         \* suppress_ragged_eofs, with which recv calls _recv_tls
          sent,           \* cells the peer has sent
          cut,            \* its end of the transport is closed
          taken,          \* cells taken from the transport
          piece,          \* _handshake_record: the header or body being received
          body,           \* _handshake_record_size: 0 while a header is expected
          suppress,       \* an SSLEOFError of this call is caught, for ragged
          incoming, eof,  \* the incoming BIO
          deframer,       \* cells rustls has not decrypted
          done,           \* records it has decrypted
          plain,          \* received_plaintext
          pendingCt,      \* _pending_ct
          maybeBuffered,  \* _maybe_buffered
          handshakeDone, shutdownSent, peerClosed, shutdown,   \* the flags of these names
          pc,             \* where the application's call is
          n,              \* the size it asked for
          ct, out,        \* decrypt_incoming: ciphertext to go, plaintext so far
          waiting,        \* history: the last call raised SSLWantReadError
          got,            \* history: what the application was given
          told            \* history: what it was told of the end

peerVars == <<script, use, ragged, sent, cut>>
socketVars == <<taken, piece, body, suppress>>
bioVars == <<incoming, eof>>
engineVars == <<deframer, done, plain>>
flagVars == <<handshakeDone, shutdownSent, peerClosed, shutdown>>
feedVars == <<pendingCt, maybeBuffered>>
callVars == <<n, ct, out>>
toldVars == <<waiting, got, told>>
vars == <<peerVars, socketVars, bioVars, engineVars, flagVars, feedVars, pc, callVars, toldVars>>

-----------------------------------------------------------------------------
(* The peer's records *)

\* The last cell of record i, and the plaintext up to there.
End == LET e[i \in 0..Len(script)] == IF i = 0 THEN 0 ELSE e[i - 1] + 1 + script[i].size IN e
Text == LET t[i \in 0..Len(script)] ==
              IF i = 0 THEN 0
              ELSE t[i - 1] + (IF script[i].kind = "data" THEN script[i].size ELSE 0)
        IN t

RecordOf(cell) == CHOOSE i \in 1..Len(script) : End[i - 1] < cell /\ cell <= End[i]
SentRecords == {i \in 1..Len(script) : End[i] <= sent}
SentText == IF SentRecords = {} THEN 0 ELSE Text[Cardinality(SentRecords)]
SentClose == \E i \in SentRecords : script[i].kind = "close"

Span(a, b) == [i \in 1..(b - a) |-> a + i]
Rest(s, k) == SubSeq(s, k + 1, Len(s))
Least(a, b) == IF a < b THEN a ELSE b

TypeOK ==
  /\ script \in Scripts /\ use \in Uses /\ ragged \in BOOLEAN /\ suppress \in BOOLEAN
  /\ sent \in 0..End[Len(script)] /\ cut \in BOOLEAN
  /\ taken \in 0..sent /\ piece \in Seq(1..sent) /\ body \in Nat
  /\ incoming \in Seq(1..sent) /\ eof \in BOOLEAN
  /\ deframer \in Seq(1..sent) /\ Len(deframer) <= MaxWire
  /\ done \in 0..Cardinality(SentRecords)
  /\ plain \in Seq(1..SentText)
  /\ pendingCt \in Seq(1..sent) /\ maybeBuffered \in BOOLEAN
  /\ handshakeDone \in BOOLEAN /\ shutdownSent \in BOOLEAN
  /\ peerClosed \in BOOLEAN /\ shutdown \in BOOLEAN
  /\ pc \in {"idle", "handshake", "pull", "drain", "net", "read", "decrypt", "ended",
            "unwrap", "unwrapPull"}
  /\ n \in ReadSizes \union {0}
  /\ ct \in Seq(1..sent) /\ out \in Seq(1..SentText)
  /\ waiting \in BOOLEAN /\ got \in Seq(1..SentText)
  /\ told \in {"open", "closed", "truncated", "failed"}

Init ==
  /\ script \in Scripts /\ use \in Uses
  /\ ragged \in (IF use = "socket" THEN BOOLEAN ELSE {FALSE}) /\ suppress = FALSE
  /\ sent = 0 /\ cut = FALSE
  /\ taken = 0 /\ piece = <<>> /\ body = 0
  /\ incoming = <<>> /\ eof = FALSE
  /\ deframer = <<>> /\ done = 0 /\ plain = <<>>
  /\ pendingCt = <<>> /\ maybeBuffered = FALSE
  /\ handshakeDone = FALSE /\ shutdownSent = FALSE /\ peerClosed = FALSE /\ shutdown = FALSE
  /\ pc = "idle" /\ n = 0 /\ ct = <<>> /\ out = <<>>
  /\ waiting = TRUE /\ got = <<>> /\ told = "open"

localVars == <<socketVars, bioVars, engineVars, flagVars, feedVars, pc, callVars, toldVars>>

PeerSends ==
  /\ ~cut
  /\ sent < End[Len(script)]
  /\ sent' = sent + 1
  /\ UNCHANGED <<script, use, ragged, cut, localVars>>

\* At the end of the script, or in the middle of it.
PeerCuts ==
  /\ ~cut
  /\ cut' = TRUE
  /\ UNCHANGED <<script, use, ragged, sent, localVars>>
-----------------------------------------------------------------------------
(* rustls, as native.rs presents it *)

Closed(k) == \E i \in 1..k : script[i].kind = "close"
Handshaking(k) == \E i \in (k + 1)..Len(script) : script[i].kind = "hs"
Full == Len(plain) > Limit

\* The cells of c that read_tls copies in one call; none after a close_notify.
ReadTls(d, c) == IF Closed(done) THEN 0 ELSE Least(Least(ReadSize, MaxWire - Len(d)), Len(c))

\* Cells that follow those decrypted, without a gap.
Intact(d) == d = Span(End[done], End[done] + Len(d))

\* Mutant: a record is taken for complete one cell early.
EarlyThrough(d) == CHOOSE j \in done..Len(script) :
                     /\ End[j] - End[done] <= Len(d) + 1
                     /\ \A i \in (j + 1)..Len(script) : End[i] - End[done] > Len(d) + 1

\* process_new_packets decrypts every complete record of d.
Through(d) == CHOOSE j \in done..Len(script) :
                /\ End[j] - End[done] <= Len(d)
                /\ \A i \in (j + 1)..Len(script) : End[i] - End[done] > Len(d)
Undecrypted(d) == Rest(d, End[Through(d)] - End[done])
Decrypted(d) == plain \o Span(Text[done], Text[Through(d)])

-----------------------------------------------------------------------------
(* How a call ends *)

\* How an SSLEOFError reaches the application: as one, unless recv catches it and returns
\* b"", the word for a clean end.
RaggedEof == IF suppress THEN "closed" ELSE "truncated"

WantRead ==
  /\ pc' = "idle"
  /\ waiting' = TRUE
  /\ UNCHANGED <<got, told>>

Tell(what) ==
  /\ pc' = "idle"
  /\ told' = IF told = "open" THEN what ELSE told
  /\ UNCHANGED <<waiting, got>>

\* The bytes of data are returned.
Give(data) ==
  /\ pc' = "idle"
  /\ got' = got \o data
  /\ waiting' = FALSE
  /\ UNCHANGED told

Continue(where) == pc' = where /\ UNCHANGED toldVars

\* A call that has nothing to decrypt: read_plaintext, then end of file, then none.
ReadPlaintext(otherwise) ==
  LET m == Least(n, Len(plain)) IN
  /\ plain' = Rest(plain, m)
  /\ peerClosed' = (peerClosed \/ (m = 0 /\ Closed(done)))
  /\ CASE m > 0 -> Give(SubSeq(plain, 1, m))
       [] m = 0 /\ Closed(done) -> Tell("closed")
       [] m = 0 /\ ~Closed(done) /\ eof /\ incoming = <<>> -> Tell(RaggedEof)
       [] OTHER -> otherwise
  /\ UNCHANGED <<deframer, done, handshakeDone, shutdownSent, shutdown>>

-----------------------------------------------------------------------------
(* decrypt_incoming: one turn of its loop *)

\* Mutant: what was not consumed is not put back.
DropUnconsumed(rest, data) ==
  /\ incoming' = <<>>
  /\ IF data # <<>> THEN Give(data) ELSE Continue("read")
  /\ UNCHANGED feedVars

\* read puts the ciphertext that was not consumed back into the BIO, which refuses it
\* after write_eof; without plaintext it goes on with read_plaintext.
ReadReturns(rest, data) ==
  /\ incoming' = IF eof THEN <<>> ELSE rest
  /\ IF rest # <<>> /\ eof THEN Tell("failed")
     ELSE IF data # <<>> THEN Give(data) ELSE Continue("read")
  /\ UNCHANGED feedVars

\* Mutant: plaintext left in rustls is not remembered.
FeedForgets(rest, data) ==
  /\ pendingCt' = rest
  /\ maybeBuffered' = (rest # <<>>)
  /\ CASE data # <<>> -> Give(data)
       [] data = <<>> /\ eof -> Tell(RaggedEof)
       [] OTHER -> Continue("net")
  /\ UNCHANGED incoming

\* feed_decrypt keeps it for the next call; without plaintext recv goes to the network.
FeedReturns(rest, data) ==
  /\ pendingCt' = rest
  /\ maybeBuffered' = (rest # <<>> \/ data # <<>>)
  /\ CASE data # <<>> -> Give(data)
       [] data = <<>> /\ eof -> Tell(RaggedEof)
       [] OTHER -> Continue("net")
  /\ UNCHANGED incoming

Returns(rest, data) == IF use = "bio" THEN ReadReturns(rest, data) ELSE FeedReturns(rest, data)

\* SSLError: the ciphertext in ct and the plaintext in out are gone with the call.
DecryptFails ==
  /\ Tell("failed")
  /\ ct' = <<>> /\ out' = <<>>
  /\ UNCHANGED <<bioVars, engineVars, flagVars, feedVars>>

\* SSLZeroReturnError: so they are when close_notify follows them.
DecryptCloses(d) ==
  /\ Tell("closed")
  /\ peerClosed' = TRUE
  /\ deframer' = Undecrypted(d)
  /\ done' = Through(d)
  /\ ct' = <<>> /\ out' = <<>>
  /\ UNCHANGED <<plain, bioVars, handshakeDone, shutdownSent, shutdown, feedVars>>

DecryptTurn(d, k) ==
  LET m == Least(n - Len(out), Len(Decrypted(d)))
      data == out \o SubSeq(Decrypted(d), 1, m)
      over == Len(data) >= n \/ k + m = 0 \/ Len(ct) = k
  IN
  /\ ~(m = 0 /\ Closed(Through(d)))
  /\ deframer' = Undecrypted(d)
  /\ done' = Through(d)
  /\ plain' = Rest(Decrypted(d), m)
  /\ IF over THEN ct' = <<>> /\ out' = <<>> /\ Returns(Rest(ct, k), data)
             ELSE /\ ct' = Rest(ct, k) /\ out' = data /\ Continue("decrypt")
                  /\ UNCHANGED <<incoming, feedVars>>
  /\ UNCHANGED <<eof, flagVars>>

DecryptIncoming ==
  LET k == ReadTls(deframer, ct)
      d == deframer \o SubSeq(ct, 1, k)
  IN
  /\ pc = "decrypt"
  /\ \/ (Full \/ ~Intact(d)) /\ DecryptFails
     \/ /\ ~Full /\ Intact(d)
        /\ \/ DecryptTurn(d, k)
           \/ Decrypted(d) = <<>> /\ Closed(Through(d)) /\ DecryptCloses(d)
  /\ UNCHANGED <<peerVars, socketVars, n>>

-----------------------------------------------------------------------------
(* _pump_incoming and process_new_packets, in do_handshake and unwrap *)

\* What the pump does not feed is put back, unless the peer has closed.
Pumped == IF Full \/ Closed(done) THEN 0 ELSE Least(MaxWire - Len(deframer), Len(incoming))
PutBack == IF Closed(done) /\ ~Full THEN <<>> ELSE Rest(incoming, Pumped)
PumpFails == (PutBack # <<>> /\ eof) \/ ~Intact(deframer \o SubSeq(incoming, 1, Pumped))

Pump ==
  LET d == deframer \o SubSeq(incoming, 1, Pumped) IN
  /\ ~PumpFails
  /\ incoming' = PutBack
  /\ deframer' = Undecrypted(d)
  /\ done' = Through(d)
  /\ plain' = Decrypted(d)
  /\ UNCHANGED eof

\* do_handshake of the connection; the peer's last flight may bring data with it.
Handshake ==
  /\ pc = "handshake"
  /\ \/ /\ (eof /\ incoming = <<>>) \/ PumpFails
        /\ Tell(IF incoming = <<>> THEN "truncated" ELSE "failed")
        /\ incoming' = <<>>
        /\ UNCHANGED <<eof, engineVars, flagVars, maybeBuffered>>
     \/ /\ ~(eof /\ incoming = <<>>)
        /\ Pump
        /\ IF Handshaking(done')
             THEN /\ IF use = "bio" THEN WantRead ELSE Continue("pull")
                  /\ UNCHANGED <<handshakeDone, maybeBuffered>>
             ELSE /\ Continue(IF use = "bio" THEN "read" ELSE "drain")
                  /\ handshakeDone' = TRUE
                  /\ maybeBuffered' = TRUE
        /\ UNCHANGED <<shutdownSent, peerClosed, shutdown>>
  /\ UNCHANGED <<peerVars, socketVars, pendingCt, callVars>>

-----------------------------------------------------------------------------
(* recv of a TLSSocket *)

Idle == pc = "idle" /\ told = "open"

RecvCall(k) ==
  /\ use = "socket" /\ Idle
  /\ n' = k
  /\ suppress' = FALSE
  /\ IF shutdown THEN Tell("closed")
     ELSE Continue(IF handshakeDone THEN "drain" ELSE "handshake")
  /\ UNCHANGED <<peerVars, taken, piece, body, bioVars, engineVars, flagVars, feedVars, ct, out>>

\* feed_decrypt: what rustls did not take comes before the new ciphertext c.
Feed(c, otherwise) ==
  LET all == incoming \o pendingCt \o c IN
  \/ /\ peerClosed
     /\ Tell("closed")
     /\ UNCHANGED <<incoming, engineVars, flagVars, feedVars, ct>>
  \/ /\ ~peerClosed /\ all # <<>>
     /\ ct' = all
     /\ incoming' = <<>>
     /\ pendingCt' = <<>>
     /\ Continue("decrypt")
     /\ UNCHANGED <<engineVars, flagVars, maybeBuffered>>
  \/ /\ ~peerClosed /\ all = <<>>
     /\ ReadPlaintext(otherwise)
     /\ maybeBuffered' = (plain # <<>>)
     /\ UNCHANGED <<incoming, pendingCt, ct>>

\* Mutant: plaintext that rustls may hold is forgotten.
CiphertextPending == peerClosed \/ pendingCt # <<>>

HasPending == peerClosed \/ pendingCt # <<>> \/ maybeBuffered

Drain ==
  /\ pc = "drain"
  /\ \/ (HasPending \/ incoming # <<>>) /\ Feed(<<>>, Continue("net"))
     \/ /\ ~(HasPending \/ incoming # <<>>)
        /\ Continue("net")
        /\ UNCHANGED <<incoming, engineVars, flagVars, feedVars, ct>>
  /\ UNCHANGED <<peerVars, socketVars, eof, n, out>>

Pulling == pc \in {"pull", "net", "unwrapPull"}

\* _read_tls_record asks the transport for the rest of a header or of a body.
Needed == (IF body = 0 THEN 1 ELSE body) - Len(piece)

Receive(k) ==
  LET chunk == piece \o Span(taken, taken + k)
      whole == k = Needed
  IN
  /\ Pulling
  /\ k \in 1..Least(Needed, sent - taken)
  /\ taken' = taken + k
  /\ piece' = IF whole THEN <<>> ELSE chunk
  /\ body' = IF ~whole THEN body
             ELSE IF body = 0 THEN script[RecordOf(taken + k)].size ELSE 0
  /\ \/ /\ ~whole
        /\ Continue(pc)
        /\ UNCHANGED <<incoming, engineVars, flagVars, feedVars, ct>>
     \/ /\ whole /\ pc = "net"
        /\ Feed(chunk, Continue("net"))
     \/ /\ whole /\ pc # "net"
        /\ incoming' = incoming \o chunk
        /\ Continue(IF pc = "pull" THEN "handshake" ELSE "unwrap")
        /\ UNCHANGED <<engineVars, flagVars, feedVars, ct>>
  /\ UNCHANGED <<peerVars, suppress, eof, n, out>>

\* A socket that does not block, or whose timeout is over; the record begun is kept.
WouldBlock ==
  /\ Pulling
  /\ taken = sent /\ ~cut
  /\ WantRead
  /\ UNCHANGED <<peerVars, socketVars, bioVars, engineVars, flagVars, feedVars, callVars>>

\* From here on recv catches the SSLEOFError of feed_decrypt; that of the first drain, of
\* do_handshake and of unwrap reaches the application.
TcpEof ==
  /\ Pulling
  /\ taken = sent /\ cut
  /\ IF pc = "net" THEN eof' = TRUE /\ suppress' = ragged /\ Continue("ended")
                   ELSE Tell("truncated") /\ UNCHANGED <<eof, suppress>>
  /\ UNCHANGED <<peerVars, taken, piece, body, incoming, engineVars, flagVars, feedVars, callVars>>

\* After the end of the transport, what rustls holds is still read.
Ended ==
  /\ pc = "ended"
  /\ Feed(<<>>, Tell(RaggedEof))
  /\ UNCHANGED <<peerVars, socketVars, eof, n, out>>

-----------------------------------------------------------------------------
(* MemoryBIO and read *)

\* A program puts the next k cells into the BIO when a read has asked for more.
BioWrite(k) ==
  /\ use = "bio" /\ Idle /\ waiting /\ ~eof
  /\ incoming = <<>>
  /\ k \in 1..(sent - taken)
  /\ LET last == RecordOf(taken + k)
         first == RecordOf(taken + 1)
     IN /\ last - first < Burst
        /\ Apart /\ script[last].kind = "close" => first = last
  /\ incoming' = Span(taken, taken + k)
  /\ taken' = taken + k
  /\ UNCHANGED <<peerVars, piece, body, suppress, eof, engineVars, flagVars, feedVars, pc, callVars, toldVars>>

BioEof ==
  /\ use = "bio" /\ Idle /\ waiting /\ ~eof
  /\ taken = sent /\ cut
  /\ Apart => incoming = <<>>
  /\ eof' = TRUE
  /\ UNCHANGED <<peerVars, socketVars, incoming, engineVars, flagVars, feedVars, pc, callVars, toldVars>>

\* A program that was told to wait calls again when there is something to read.
ReadCall(k) ==
  /\ use = "bio" /\ Idle
  /\ ~waiting \/ incoming # <<>> \/ eof
  /\ n' = k
  /\ IF shutdown \/ peerClosed THEN Tell("closed")
     ELSE Continue(IF handshakeDone THEN "read" ELSE "handshake")
  /\ UNCHANGED <<peerVars, socketVars, bioVars, engineVars, flagVars, feedVars, ct, out>>

Read ==
  /\ pc = "read"
  /\ \/ /\ incoming # <<>>
        /\ ct' = incoming
        /\ incoming' = <<>>
        /\ Continue("decrypt")
        /\ UNCHANGED <<engineVars, flagVars>>
     \/ /\ incoming = <<>>
        /\ ReadPlaintext(WantRead)
        /\ UNCHANGED <<incoming, ct>>
  /\ UNCHANGED <<peerVars, socketVars, eof, feedVars, n, out>>

-----------------------------------------------------------------------------
(* unwrap *)

UnwrapCall ==
  /\ Idle /\ handshakeDone
  /\ Continue("unwrap")
  /\ shutdownSent' = TRUE
  /\ UNCHANGED <<peerVars, socketVars, bioVars, engineVars, handshakeDone, peerClosed, shutdown,
                 feedVars, callVars>>

\* What unwrap finds once the records that are there are decrypted.  The application has to
\* read the plaintext first.  pendingCt is not looked at.
Unwrapped ==
  /\ shutdown' = (peerClosed \/ (plain' = <<>> /\ Closed(done')))
  /\ peerClosed' = shutdown'
  /\ CASE shutdown' -> Tell("closed")
       [] ~shutdown' /\ plain' # <<>> ->
            pc' = "idle" /\ waiting' = FALSE /\ UNCHANGED <<got, told>>
       [] ~shutdown' /\ plain' = <<>> /\ eof' /\ incoming' = <<>> -> Tell("truncated")
       [] OTHER -> WantRead \/ (use = "socket" /\ Continue("unwrapPull"))

Unwrap ==
  /\ pc = "unwrap"
  /\ \/ /\ incoming = <<>>
        /\ UNCHANGED <<bioVars, engineVars>>
        /\ Unwrapped
     \/ /\ incoming # <<>> /\ Pump
        /\ Unwrapped
     \/ /\ incoming # <<>> /\ PumpFails
        /\ Tell("failed")
        /\ incoming' = <<>>
        /\ UNCHANGED <<eof, engineVars, peerClosed, shutdown>>
  /\ UNCHANGED <<peerVars, socketVars, handshakeDone, shutdownSent, feedVars, callVars>>

-----------------------------------------------------------------------------
Step ==
  \/ Handshake \/ Drain \/ DecryptIncoming \/ Ended \/ Read \/ Unwrap
  \/ WouldBlock \/ TcpEof
  \/ \E k \in 1..MaxWire : Receive(k)

\* A program that goes on reading, and feeding its BIO, until it is told of the end.
Reads ==
  \/ \E k \in ReadSizes : RecvCall(k) \/ ReadCall(k)
  \/ \E k \in 1..(Burst * MaxWire) : BioWrite(k)
  \/ BioEof

Next == PeerSends \/ PeerCuts \/ Step \/ Reads \/ UnwrapCall

Spec == Init /\ [][Next]_vars

\* Calls that were begun go on, and the program does not stop reading.  Nothing is assumed
\* of the peer or of the network.
FairSpec == Spec /\ WF_vars(Step) /\ SF_vars(Reads)

-----------------------------------------------------------------------------
Stream == INSTANCE TlsStream WITH sent <- SentText, bye <- SentClose

\* What the application reads is what the peer sent, in order and once; b"" and SSLEOFError
\* come after the last byte, b"" when the peer closed or, of a socket that suppresses ragged
\* ends, when the connection was cut, SSLEOFError only when it was cut without close_notify;
\* no call fails (_object.py read and feed_decrypt, _socket.py _recv_tls).  For programs that
\* keep to Apart and Burst; ReadNeverFails and AllConsumedAtClose are about the others.
ImplementsStream == Stream!Spec

\* recv asks the network for a record only when rustls holds neither plaintext nor a
\* close_notify that it did not report (_recv_tls, "without touching the network"): it
\* would wait for a peer that has nothing more to say.  After unwrap it may: unwrap decrypts
\* data without setting _maybe_buffered.
DrainedFirst == pc = "net" /\ ~shutdownSent => plain = <<>> /\ pendingCt = <<>> /\ ~Closed(done)

\* Once the peer has closed, with close_notify or without, a program that goes on reading
\* is told so: no byte, and not the end, stays in one of the four buffers between the
\* transport and the program.
StreamEnds == (SentClose \/ cut) ~> told # "open"

\* read does not fail with the bytes it was given: decrypt_incoming handles "buffer-full
\* looping internally" (line 335), and what it leaves goes back into the BIO (line 379).
ReadNeverFails == handshakeDone /\ ~shutdownSent => told # "failed"

\* The comment on _peer_closed in _TLSConnection.__init__: set only once the peer's
\* close_notify and all plaintext are consumed.
AllConsumedAtClose == peerClosed => SentClose /\ Len(got) = SentText
=============================================================================
