------------------------------ MODULE TlsFlush ------------------------------
(***************************************************************************)
(* The sending side of a TLSSocket used by several threads                 *)
(* (src/rust-cpython/overlay/Lib/rtls/_socket.py, with write and           *)
(* _flush_outgoing of _object.py): plaintext is encrypted by rustls, the   *)
(* ciphertext is moved into the outgoing BIO, and whoever holds            *)
(* _ciphertext_write_in_progress moves it on to the socket.  Threads that  *)
(* receive take part, for they flush what rustls wants to say (key         *)
(* updates, alerts).                                                       *)
(*                                                                         *)
(* A cell is a piece of ciphertext; cells are numbered in the order of     *)
(* their encryption, which is the order in which the peer must get them.   *)
(* Every call of the engine lets other threads run.  Not modelled: the     *)
(* handshake, sendfile, a transport that fails.                            *)
(***************************************************************************)
EXTENDS Naturals, Sequences, FiniteSets

CONSTANTS Senders,     \* threads that call send and sendall
          Receivers,   \* threads that call recv
          Timeouts,    \* subset of {"none", "zero", "some"}: of the socket
          RecordSize,  \* cells of a record
          MaxCells,    \* bound on the cells encrypted
          WriteBuffer, \* _SOCKET_WRITE_BUFFER_SIZE
          Room         \* cells the network holds before send blocks

Threads == Senders \union Receivers

ASSUME ThreadsAssumption == Senders \intersect Receivers = {}
ASSUME TimeoutsAssumption == Timeouts \subseteq {"none", "zero", "some"}
ASSUME FlushSizes == /\ {RecordSize, WriteBuffer, Room} \subseteq Nat \ {0}
                     /\ MaxCells \in Nat

VARIABLES timeout,     \* of the socket
          made,        \* cells encrypted
          engine,      \* ciphertext in rustls
          bio,         \* _outgoing
          pending,     \* _pending_ciphertext
          busy,        \* _ciphertext_write_in_progress
          wire,        \* history: what was sent
          order,       \* history: what was put into _outgoing, in that order
          crossed,     \* history: two threads have been between rustls and _outgoing at once
          room,        \* free space in the network
          pc, doing,   \* each thread's place, and call
          stage,       \* "before", "after" or "final": which flush of the call
          held,        \* what its write_tls returned
          data, count, \* what its flush sends, and how much of that was sent
          failed,      \* the exception that its flush raises, or "no"
          mine,        \* history: the last cell it encrypted
          outcome      \* history: how its last call ended

threadVars == <<pc, doing, stage, held, data, count, failed, mine, outcome>>
pipeVars == <<made, engine, bio, pending, busy, wire, order, crossed, room>>
vars == <<timeout, pipeVars, threadVars>>

Span(a, b) == [i \in 1..(b - a) |-> a + i]
Rest(s, k) == SubSeq(s, k + 1, Len(s))
Least(a, b) == IF a < b THEN a ELSE b

Inside(t) == pc[t] \in {"take", "put"}
Flushing(t) == pc[t] \in {"load", "send", "sent", "leave"}

Cells == Seq(1..made)

TypeOK ==
  /\ timeout \in Timeouts
  /\ made \in 0..MaxCells
  /\ engine \in Cells /\ bio \in Cells /\ pending \in Cells /\ wire \in Cells
  /\ order \in Cells /\ crossed \in BOOLEAN
  /\ busy \in BOOLEAN
  /\ room \in 0..Room
  /\ pc \in [Threads -> {"idle", "wait", "blocked", "load", "send", "sent", "leave",
                         "inside", "take", "put"}]
  /\ doing \in [Threads -> {"send", "sendall", "recv"}]
  /\ stage \in [Threads -> {"before", "after", "final"}]
  /\ held \in [Threads -> Cells] /\ data \in [Threads -> Cells]
  /\ count \in [Threads -> Nat]
  /\ failed \in [Threads -> {"no", "want", "timeout"}]
  /\ mine \in [Threads -> 0..made]
  /\ outcome \in [Threads -> {"none", "returned", "raised"}]

Init ==
  /\ timeout \in Timeouts
  /\ made = 0
  /\ engine = <<>> /\ bio = <<>> /\ pending = <<>> /\ wire = <<>>
  /\ order = <<>> /\ crossed = FALSE
  /\ busy = FALSE
  /\ room = Room
  /\ pc = [t \in Threads |-> "idle"]
  /\ doing = [t \in Threads |-> "recv"]
  /\ stage = [t \in Threads |-> "before"]
  /\ held = [t \in Threads |-> <<>>]
  /\ data = [t \in Threads |-> <<>>]
  /\ count = [t \in Threads |-> 0]
  /\ failed = [t \in Threads |-> "no"]
  /\ mine = [t \in Threads |-> 0]
  /\ outcome = [t \in Threads |-> "none"]

\* The cells that calls under way will still encrypt: what keeps made within its bound.
Reserved ==
  RecordSize * Cardinality({t \in Senders : pc[t] # "idle" /\ stage[t] = "before"})

Goto(t, where) == pc' = [pc EXCEPT ![t] = where]

\* send, sendall and recv begin with a flush.
Call(t, what) ==
  /\ pc[t] = "idle"
  /\ \/ t \in Receivers /\ what = "recv"
     \/ /\ t \in Senders /\ what \in {"send", "sendall"}
        /\ made + Reserved + RecordSize <= MaxCells
  /\ Goto(t, "wait")
  /\ doing' = [doing EXCEPT ![t] = what]
  /\ stage' = [stage EXCEPT ![t] = "before"]
  /\ outcome' = [outcome EXCEPT ![t] = "none"]
  /\ UNCHANGED <<timeout, pipeVars, held, data, count, failed, mine>>

-----------------------------------------------------------------------------
(* _flush_outgoing of the socket *)

\* Mutant: the flag is not looked at.
AlwaysFree == TRUE

Free == ~busy

\* The flag is found clear and set under the condition's lock.
Enter(t) ==
  /\ pc[t] \in {"wait", "blocked"}
  /\ Free
  /\ busy' = TRUE
  /\ Goto(t, "load")
  /\ UNCHANGED <<timeout, made, engine, bio, pending, wire, order, crossed, room,
                 doing, stage, held, data, count, failed, mine, outcome>>

Block(t) ==
  /\ pc[t] = "wait"
  /\ busy /\ timeout # "zero"
  /\ Goto(t, "blocked")
  /\ UNCHANGED <<timeout, pipeVars, doing, stage, held, data, count, failed, mine, outcome>>

\* Mutant: SSLWantWriteError is swallowed wherever it is raised.
RaisesTimeout(t, f) == f = "timeout"

\* send reports its bytes as written even if they could not be sent yet.
Raises(t, f) == f # "no" /\ ~(stage[t] = "after" /\ f = "want")

\* How the call goes on after its flush, which raised f unless f is "no".
AfterFlush(t, f) ==
  LET raised == Raises(t, f)
      next == CASE stage[t] = "before" -> "inside"
                [] stage[t] = "after" /\ doing[t] = "sendall" -> "wait"
                [] OTHER -> "idle"
  IN
  /\ Goto(t, IF raised THEN "idle" ELSE next)
  /\ stage' = [stage EXCEPT ![t] = IF next = "wait" THEN "final" ELSE @]
  /\ outcome' = [outcome EXCEPT ![t] = CASE raised -> "raised"
                                        [] ~raised /\ next = "idle" -> "returned"
                                        [] OTHER -> @]
  /\ failed' = [failed EXCEPT ![t] = "no"]

\* Someone else is flushing: SSLWantWriteError at once, or a timeout.
Refused(t) ==
  /\ \/ pc[t] = "wait" /\ busy /\ timeout = "zero" /\ AfterFlush(t, "want")
     \/ pc[t] = "blocked" /\ timeout = "some" /\ AfterFlush(t, "timeout")
  /\ UNCHANGED <<timeout, pipeVars, doing, held, data, count, mine>>

Refill == pending = <<>>

Load(t) ==
  LET k == Least(WriteBuffer, Len(bio)) IN
  /\ pc[t] = "load"
  /\ IF Refill THEN pending' = SubSeq(bio, 1, k) /\ bio' = Rest(bio, k)
               ELSE UNCHANGED <<pending, bio>>
  /\ data' = [data EXCEPT ![t] = pending']
  /\ Goto(t, IF pending' = <<>> THEN "leave" ELSE "send")
  /\ UNCHANGED <<timeout, made, engine, busy, wire, order, crossed, room,
                 doing, stage, held, count, failed, mine, outcome>>

\* The socket takes some of the data.
SocketSend(t, k) ==
  /\ pc[t] = "send"
  /\ k \in 1..Least(Len(data[t]), room)
  /\ wire' = wire \o SubSeq(data[t], 1, k)
  /\ room' = room - k
  /\ count' = [count EXCEPT ![t] = k]
  /\ Goto(t, "sent")
  /\ UNCHANGED <<timeout, made, engine, bio, pending, busy, order, crossed,
                 doing, stage, held, data, failed, mine, outcome>>

\* It does not: BlockingIOError, or its timeout.
SocketFull(t) ==
  /\ pc[t] = "send"
  /\ room = 0 /\ timeout # "none"
  /\ failed' = [failed EXCEPT ![t] = IF timeout = "zero" THEN "want" ELSE "timeout"]
  /\ Goto(t, "leave")
  /\ UNCHANGED <<timeout, pipeVars, doing, stage, held, data, count, mine, outcome>>

\* Mutant: after a partial send all of it is sent again.
DeleteWhole(t) ==
  /\ pc[t] = "sent"
  /\ pending' = IF count[t] = Len(pending) THEN <<>> ELSE pending
  /\ count' = [count EXCEPT ![t] = 0]
  /\ Goto(t, "load")
  /\ UNCHANGED <<timeout, made, engine, bio, busy, wire, order, crossed, room,
                 doing, stage, held, data, failed, mine, outcome>>

DeleteSent(t) ==
  /\ pc[t] = "sent"
  /\ pending' = Rest(pending, count[t])
  /\ count' = [count EXCEPT ![t] = 0]
  /\ Goto(t, "load")
  /\ UNCHANGED <<timeout, made, engine, bio, busy, wire, order, crossed, room,
                 doing, stage, held, data, failed, mine, outcome>>

\* Mutant: the return in the middle of the loop leaves the flag set.
LeaveIfRaised(t) ==
  /\ pc[t] = "leave"
  /\ busy' = (failed[t] = "no")
  /\ data' = [data EXCEPT ![t] = <<>>]
  /\ AfterFlush(t, failed[t])
  /\ UNCHANGED <<timeout, made, engine, bio, pending, wire, order, crossed, room,
                 doing, held, count, mine>>

\* finally: the flag is cleared, and those who wait are told.
Leave(t) ==
  /\ pc[t] = "leave"
  /\ busy' = FALSE
  /\ data' = [data EXCEPT ![t] = <<>>]
  /\ AfterFlush(t, failed[t])
  /\ UNCHANGED <<timeout, made, engine, bio, pending, wire, order, crossed, room,
                 doing, held, count, mine>>

-----------------------------------------------------------------------------
(* write, feed_decrypt and _flush_outgoing of the connection *)

\* Mutant: the cells are not counted.
Uncounted(size) == made

Counted(size) == made + size

\* write encrypts a record; decrypting may leave rustls with something to say, or not.
Engine(t) ==
  /\ pc[t] = "inside"
  /\ crossed' = (crossed \/ \E u \in Threads : Inside(u))
  /\ \E size \in (IF t \in Senders THEN {RecordSize} ELSE {0, 1}) :
       /\ t \in Receivers /\ size = 1 => made + Reserved + size <= MaxCells
       /\ made' = Counted(size)
       /\ engine' = engine \o Span(made, made + size)
       /\ mine' = IF t \in Senders THEN [mine EXCEPT ![t] = made + size] ELSE mine
  /\ Goto(t, "take")
  /\ stage' = [stage EXCEPT ![t] = "after"]
  /\ UNCHANGED <<timeout, bio, pending, busy, wire, order, room,
                 doing, held, data, count, failed, outcome>>

\* wants_write and write_tls.  A sender then flushes; recv returns what it read.
WriteTls(t) ==
  /\ pc[t] = "take"
  /\ held' = [held EXCEPT ![t] = engine]
  /\ engine' = <<>>
  /\ Goto(t, CASE engine # <<>> -> "put"
               [] engine = <<>> /\ t \in Senders -> "wait"
               [] OTHER -> "idle")
  /\ outcome' = [outcome EXCEPT ![t] = IF engine = <<>> /\ t \in Receivers THEN "returned" ELSE @]
  /\ UNCHANGED <<timeout, made, bio, pending, busy, wire, order, crossed, room,
                 doing, stage, data, count, failed, mine>>

OutgoingWrite(t) ==
  /\ pc[t] = "put"
  /\ bio' = bio \o held[t]
  /\ order' = order \o held[t]
  /\ held' = [held EXCEPT ![t] = <<>>]
  /\ Goto(t, "take")
  /\ UNCHANGED <<timeout, made, engine, pending, busy, wire, crossed, room,
                 doing, stage, data, count, failed, mine, outcome>>

\* The peer reads what the network holds.
PeerReads ==
  /\ room < Room
  /\ room' = Room
  /\ UNCHANGED <<timeout, made, engine, bio, pending, busy, wire, order, crossed, threadVars>>

-----------------------------------------------------------------------------
Step(t) ==
  \/ Block(t) \/ Refused(t) \/ Load(t) \/ SocketFull(t) \/ DeleteSent(t) \/ Leave(t)
  \/ \E k \in 1..Room : SocketSend(t, k)
  \/ Enter(t) \/ Engine(t) \/ WriteTls(t) \/ OutgoingWrite(t)

Next ==
  \/ PeerReads
  \/ \E t \in Threads :
       \/ \E what \in {"send", "sendall", "recv"} : Call(t, what)
       \/ Step(t)

Spec == Init /\ [][Next]_vars

\* Threads run, the peer reads, and no thread is passed over for ever by those who find the
\* flag clear before it.  Calls need not be made.
FairSpec ==
  /\ Spec
  /\ WF_vars(PeerReads)
  /\ \A t \in Threads : SF_vars(Step(t))

-----------------------------------------------------------------------------
\* What is put into _outgoing goes to the peer once, in that order, whatever sends were
\* partial, refused or timed out, and whichever threads took turns (_flush_outgoing of the
\* socket).
FlushKeepsOrder == wire = SubSeq(order, 1, Len(wire))

\* So every cell goes to the peer in the order of encryption, as long as no two threads were
\* between rustls and _outgoing at once.  Nothing in the code keeps them from it
\* (_flush_outgoing of the connection): one may take cells and be late to put them there.
WireInOrder == ~crossed => wire = Span(0, Len(wire))

\* The flag is set exactly while a thread flushes, one at a time, and what that thread is
\* sending is what is pending (_ciphertext_write_in_progress).
OneFlush ==
  /\ busy = \E t \in Threads : Flushing(t)
  /\ \A t, u \in Threads : Flushing(t) /\ Flushing(u) => t = u
  /\ \A t \in Threads : pc[t] \in {"send", "sent"} => data[t] = pending

\* The docstring of sendall: "Send all data, blocking until complete."
SendAllBlocks ==
  \A t \in Threads :
    outcome[t] = "returned" /\ doing[t] = "sendall" => \E i \in 1..Len(wire) : wire[i] = mine[t]

\* So it does, though another thread may have been the one to send the data, as long as no
\* two threads were between rustls and _outgoing at once.
SendAllCompletes ==
  ~crossed =>
    \A t \in Threads :
      outcome[t] = "returned" /\ doing[t] = "sendall" => mine[t] <= Len(wire)

\* With the same proviso, a thread encrypts no more before its last record is sent, so that
\* what is buffered stays bounded though the peer does not read (the flush at the start of
\* send).
OneRecordEach ==
  ~crossed => \A t \in Senders : pc[t] = "inside" => mine[t] <= Len(wire)

\* Every call ends, by returning or raising.
CallsEnd == \A t \in Threads : pc[t] # "idle" ~> pc[t] = "idle"
=============================================================================
