--------------------------- MODULE TlsFlushProofs ---------------------------
(***************************************************************************)
(* The safety of TlsFlush for any number of threads, any sizes and any     *)
(* bound: one thread flushes at a time, and what is put into the BIO goes  *)
(* to the peer once and in that order; that is the order of encryption,    *)
(* and sendall returns when all of it is sent, until two threads are       *)
(* between rustls and the BIO at once.                                     *)
(***************************************************************************)
EXTENDS TlsFlush, Integers, FiniteSetTheorems, SequenceTheorems, TLAPS

PCs == {"idle", "wait", "blocked", "load", "send", "sent", "leave", "inside", "take", "put"}

TInv ==
  /\ timeout \in {"none", "zero", "some"}
  /\ made \in Nat /\ room \in Nat
  /\ engine \in Seq(Nat) /\ bio \in Seq(Nat) /\ pending \in Seq(Nat) /\ wire \in Seq(Nat)
  /\ order \in Seq(Nat)
  /\ pc \in [Threads -> PCs]
  /\ doing \in [Threads -> {"send", "sendall", "recv"}]
  /\ stage \in [Threads -> {"before", "after", "final"}]
  /\ held \in [Threads -> Seq(Nat)] /\ data \in [Threads -> Seq(Nat)]
  /\ count \in [Threads -> Nat]
  /\ failed \in [Threads -> {"no", "want", "timeout"}]
  /\ mine \in [Threads -> Nat]
  /\ outcome \in [Threads -> {"none", "returned", "raised"}]

\* The flag and who flushes; a count is of the data that is pending.
FlushInv ==
  /\ \A t \in Threads : Flushing(t) => busy = TRUE
  /\ busy # FALSE => \E t \in Threads : Flushing(t)
  /\ busy \in {TRUE, FALSE}
  /\ \A t, u \in Threads : Flushing(t) /\ Flushing(u) => t = u
  /\ \A t \in Threads : pc[t] \in {"send", "sent"} => data[t] = pending
  /\ \A t \in Threads : pc[t] = "sent" => count[t] \in 1..Len(pending)

\* Only the thread inside has ciphertext that is not in the BIO, in rustls or in its hands.
InsideInv ==
  /\ \A t, u \in Threads : Inside(t) /\ Inside(u) => t = u
  /\ \A t \in Threads : pc[t] = "put" => engine = <<>>
  /\ (\A t \in Threads : ~Inside(t)) => engine = <<>>

\* s holds the cells that follow the first a ones.
Run(s, a) == \A i \in 1..Len(s) : s[i] = a + i

\* The cells that are out of rustls, when c pending ones have been sent already.
Out(c) == Len(wire) - c + Len(pending) + Len(bio)

Order(c) ==
  /\ Run(pending, Len(wire) - c)
  /\ Run(bio, Len(wire) - c + Len(pending))
  /\ \A t \in Threads : pc[t] = "put" => Run(held[t], Out(c)) /\ made = Out(c) + Len(held[t])
  /\ \A t \in Threads : pc[t] = "take" => Run(engine, Out(c)) /\ made = Out(c) + Len(engine)
  /\ (\A t \in Threads : ~Inside(t)) => made = Out(c)
  /\ \A t \in Threads : ~Inside(t) => mine[t] <= Out(c)

OrderInv ==
  /\ Run(wire, 0)
  /\ \A t \in Threads : mine[t] <= made
  /\ \A t \in Threads : pc[t] = "sent" => count[t] <= Len(wire) /\ Order(count[t])
  /\ (\A t \in Threads : pc[t] # "sent") => Order(0)

\* A thread whose flush has come to its end has nothing left to send.
DoneInv ==
  \A t \in Threads :
    /\ pc[t] = "leave" /\ failed[t] = "no" => mine[t] <= Len(wire)
    /\ pc[t] = "inside" => mine[t] <= Len(wire)
    /\ outcome[t] = "returned" => pc[t] = "idle"
    /\ outcome[t] = "returned" /\ doing[t] = "sendall" => mine[t] <= Len(wire)
    /\ doing[t] = "sendall" => t \notin Receivers
    /\ failed[t] # "no" => pc[t] = "leave"

\* What was put into the BIO is sent, pending or still there.
KeptInv ==
  /\ \A t \in Threads : pc[t] = "sent" => order = wire \o (Rest(pending, count[t]) \o bio)
  /\ (\A t \in Threads : pc[t] # "sent") => order = wire \o (pending \o bio)

CleanInv == ~crossed => InsideInv /\ OrderInv /\ DoneInv

IInv == TInv /\ FlushInv /\ CleanInv

-----------------------------------------------------------------------------
(* Runs of cells *)

LEMMA RunConcat ==
  ASSUME NEW s \in Seq(Nat), NEW r \in Seq(Nat), NEW a \in Nat, Run(s, a), Run(r, a + Len(s))
  PROVE  s \o r \in Seq(Nat) /\ Len(s \o r) = Len(s) + Len(r) /\ Run(s \o r, a)
BY DEF Run

LEMMA RunPrefix ==
  ASSUME NEW s \in Seq(Nat), NEW a \in Nat, NEW k \in 0..Len(s), Run(s, a)
  PROVE  SubSeq(s, 1, k) \in Seq(Nat) /\ Len(SubSeq(s, 1, k)) = k /\ Run(SubSeq(s, 1, k), a)
BY DEF Run

LEMMA RunRest ==
  ASSUME NEW s \in Seq(Nat), NEW a \in Nat, NEW k \in 0..Len(s), Run(s, a)
  PROVE  Rest(s, k) \in Seq(Nat) /\ Len(Rest(s, k)) = Len(s) - k /\ Run(Rest(s, k), a + k)
BY DEF Run, Rest

LEMMA RunSpan ==
  ASSUME NEW a \in Nat, NEW k \in Nat
  PROVE  Span(a, a + k) \in Seq(Nat) /\ Len(Span(a, a + k)) = k /\ Run(Span(a, a + k), a)
BY DEF Run, Span

LEMMA RunIsSpan ==
  ASSUME NEW s \in Seq(Nat), Run(s, 0)
  PROVE  s = Span(0, Len(s))
BY DEF Run, Span


USE ThreadsAssumption, TimeoutsAssumption, FlushSizes
    DEF Threads, threadVars, pipeVars, vars, Goto, Least

-----------------------------------------------------------------------------
(* Types *)

LEMMA Lengths ==
  ASSUME NEW s \in Seq(Nat), NEW k \in 0..Len(s)
  PROVE  /\ SubSeq(s, 1, k) \in Seq(Nat) /\ Len(SubSeq(s, 1, k)) = k
         /\ Rest(s, k) \in Seq(Nat) /\ Len(Rest(s, k)) = Len(s) - k
BY DEF Rest

LEMMA SpanLength ==
  ASSUME NEW a \in Nat, NEW k \in Nat
  PROVE  Span(a, a + k) \in Seq(Nat) /\ Len(Span(a, a + k)) = k
BY RunSpan

\* How a thread's call goes on after its flush.
LEMMA Afterwards ==
  ASSUME TInv, NEW t \in Threads, NEW f \in {"no", "want", "timeout"}, AfterFlush(t, f)
  PROVE  /\ pc'[t] \in {"idle", "inside", "wait"} /\ pc' = [pc EXCEPT ![t] = pc'[t]]
         /\ pc'[t] = "inside" => f = "no"
         /\ stage' \in [Threads -> {"before", "after", "final"}]
         /\ outcome'[t] = "returned" /\ outcome[t] # "returned" =>
              pc'[t] = "idle" /\ (doing[t] = "sendall" => f = "no")

         /\ outcome'[t] \in {"none", "returned", "raised"}
         /\ outcome' = [outcome EXCEPT ![t] = outcome'[t]]
         /\ failed' = [failed EXCEPT ![t] = "no"]
         /\ pc' \in [Threads -> PCs] /\ failed' \in [Threads -> {"no", "want", "timeout"}]
         /\ outcome' \in [Threads -> {"none", "returned", "raised"}]
<1> USE DEF TInv, PCs
<1>1. CASE Raises(t, f)
  <2>1. pc' = [pc EXCEPT ![t] = "idle"] /\ outcome' = [outcome EXCEPT ![t] = "raised"]
    BY <1>1 DEF AfterFlush
  <2>2. QED
    BY <2>1 DEF AfterFlush
<1>2. CASE ~Raises(t, f)
  <2>1. CASE stage[t] = "before"
    <3>1. pc' = [pc EXCEPT ![t] = "inside"] /\ outcome' = outcome /\ f = "no" /\ stage' = stage
      BY <1>2, <2>1 DEF AfterFlush, Raises
    <3>2. QED
      BY <3>1 DEF AfterFlush
  <2>2. CASE stage[t] = "after" /\ doing[t] = "sendall"
    <3>1. pc' = [pc EXCEPT ![t] = "wait"] /\ outcome' = outcome /\ stage' = [stage EXCEPT ![t] = "final"]
      BY <1>2, <2>2 DEF AfterFlush
    <3>2. QED
      BY <3>1 DEF AfterFlush
  <2>3. CASE ~(stage[t] = "after" /\ doing[t] = "sendall") /\ stage[t] # "before"
    <3>1. pc' = [pc EXCEPT ![t] = "idle"] /\ outcome' = [outcome EXCEPT ![t] = "returned"] /\ stage' = stage
      BY <1>2, <2>3 DEF AfterFlush
    <3>2. doing[t] = "sendall" => f = "no"
      BY <1>2, <2>3 DEF Raises
    <3>3. QED
      BY <3>1, <3>2 DEF AfterFlush
  <2>4. QED
    BY <2>1, <2>2, <2>3
<1>3. QED
  BY <1>1, <1>2

LEMMA Places ==
  ASSUME TInv, NEW t \in Threads, Refused(t) \/ Leave(t)
  PROVE  pc'[t] \in {"idle", "inside", "wait"} /\ pc' = [pc EXCEPT ![t] = pc'[t]]
<1>1. PICK f \in {"no", "want", "timeout"} : AfterFlush(t, f)
  BY DEF Refused, Leave, TInv
<1>2. QED
  BY <1>1, Afterwards

LEMMA TypeStep ==
  TInv /\ FlushInv /\ [Next]_vars => TInv'
<1> SUFFICES ASSUME TInv, FlushInv, [Next]_vars PROVE TInv'
  OBVIOUS
<1> USE DEF TInv, PCs
<1>1. ASSUME NEW t \in Threads, NEW what \in {"send", "sendall", "recv"}, Call(t, what) PROVE TInv'
  BY <1>1 DEF Call
<1>2. ASSUME NEW t \in Threads, Block(t) PROVE TInv'
  BY <1>2 DEF Block
<1>3. ASSUME NEW t \in Threads, Refused(t) PROVE TInv'
  <2>1. PICK f \in {"no", "want", "timeout"} : AfterFlush(t, f)
    BY <1>3 DEF Refused
  <2>2. QED
    <3>1. /\ pc' \in [Threads -> PCs] /\ failed' \in [Threads -> {"no", "want", "timeout"}]
          /\ outcome' \in [Threads -> {"none", "returned", "raised"}]
          /\ stage' \in [Threads -> {"before", "after", "final"}]
      BY <2>1, Afterwards
    <3>2. QED
      BY <1>3, <3>1 DEF Refused
<1>4. ASSUME NEW t \in Threads, Load(t) PROVE TInv'
  <2> DEFINE k == Least(WriteBuffer, Len(bio))
  <2>1. k \in 0..Len(bio)
    OBVIOUS
  <2>2. SubSeq(bio, 1, k) \in Seq(Nat) /\ Rest(bio, k) \in Seq(Nat)
    BY <2>1, Lengths
  <2>3. pending' \in Seq(Nat) /\ bio' \in Seq(Nat)
    BY <1>4, <2>2 DEF Load
  <2>4. QED
    BY <1>4, <2>3 DEF Load
<1>5. ASSUME NEW t \in Threads, SocketFull(t) PROVE TInv'
  BY <1>5 DEF SocketFull
<1>6. ASSUME NEW t \in Threads, DeleteSent(t) PROVE TInv'
  <2>1. pending' \in Seq(Nat)
    BY <1>6, Lengths DEF DeleteSent, FlushInv
  <2>2. QED
    BY <1>6, <2>1 DEF DeleteSent
<1>7. ASSUME NEW t \in Threads, Leave(t) PROVE TInv'
  <2>1. AfterFlush(t, failed[t])
    BY <1>7 DEF Leave
  <2>2. QED
    <3>1. /\ pc' \in [Threads -> PCs] /\ failed' \in [Threads -> {"no", "want", "timeout"}]
          /\ outcome' \in [Threads -> {"none", "returned", "raised"}]
          /\ stage' \in [Threads -> {"before", "after", "final"}]
      BY <2>1, Afterwards
    <3>2. QED
      BY <1>7, <3>1 DEF Leave
<1>8. ASSUME NEW t \in Threads, Enter(t) PROVE TInv'
  BY <1>8 DEF Enter
<1>9. ASSUME NEW t \in Threads, Engine(t) PROVE TInv'
  <2>1. PICK size \in (IF t \in Senders THEN {RecordSize} ELSE {0, 1}) :
          /\ made' = made + size
          /\ engine' = engine \o Span(made, made + size)
          /\ mine' = IF t \in Senders THEN [mine EXCEPT ![t] = made + size] ELSE mine
    BY <1>9 DEF Engine, Counted
  <2>2. size \in Nat
    BY <2>1
  <2>3. Span(made, made + size) \in Seq(Nat)
    BY <2>2, SpanLength
  <2>4. made' \in Nat /\ engine' \in Seq(Nat) /\ mine' \in [Threads -> Nat]
    BY <2>1, <2>2, <2>3
  <2>5. QED
    BY <1>9, <2>4 DEF Engine
<1>10. ASSUME NEW t \in Threads, WriteTls(t) PROVE TInv'
  <2>1. held' \in [Threads -> Seq(Nat)] /\ engine' \in Seq(Nat)
    <3>1. held' = [held EXCEPT ![t] = engine] /\ engine' = <<>>
      BY <1>10 DEF WriteTls
    <3>2. QED
      BY <3>1
  <2>2. pc' \in [Threads -> PCs]
    <3>1. PICK where \in {"put", "wait", "idle"} : pc' = [pc EXCEPT ![t] = where]
      BY <1>10 DEF WriteTls
    <3>2. QED
      BY <3>1
  <2>3. outcome' \in [Threads -> {"none", "returned", "raised"}]
    <3>1. PICK o \in {"returned", outcome[t]} : outcome' = [outcome EXCEPT ![t] = o]
      BY <1>10 DEF WriteTls
    <3>2. QED
      BY <3>1
  <2>4. UNCHANGED <<timeout, made, bio, pending, busy, wire, order, room, doing, stage, data, count,
                    failed, mine>>
    BY <1>10 DEF WriteTls
  <2>5. QED
    BY <2>1, <2>2, <2>3, <2>4
<1>11. ASSUME NEW t \in Threads, OutgoingWrite(t) PROVE TInv'
  <2>1. bio' \in Seq(Nat) /\ order' \in Seq(Nat)
    <3>1. held[t] \in Seq(Nat) /\ bio' = bio \o held[t] /\ order' = order \o held[t]
      BY <1>11 DEF OutgoingWrite
    <3>2. QED
      BY <3>1
  <2>2. held' \in [Threads -> Seq(Nat)] /\ pc' \in [Threads -> PCs]
    <3>1. held' = [held EXCEPT ![t] = <<>>] /\ pc' = [pc EXCEPT ![t] = "take"]
      BY <1>11 DEF OutgoingWrite
    <3>2. QED
      BY <3>1
  <2>3. UNCHANGED <<timeout, made, engine, pending, busy, wire, crossed, room,
                    doing, stage, data, count, failed, mine, outcome>>
    BY <1>11 DEF OutgoingWrite
  <2>4. QED
    BY <2>1, <2>2, <2>3
<1>12. ASSUME NEW t \in Threads, NEW k \in 1..Room, SocketSend(t, k) PROVE TInv'
  <2>1. wire' \in Seq(Nat)
    BY <1>12, Lengths DEF SocketSend
  <2>2. room' \in Nat
    BY <1>12 DEF SocketSend
  <2>3. count' = [count EXCEPT ![t] = k] /\ pc' = [pc EXCEPT ![t] = "sent"]
    BY <1>12 DEF SocketSend
  <2>4. count' \in [Threads -> Nat] /\ pc' \in [Threads -> PCs]
    <3>1. k \in Nat
      OBVIOUS
    <3>2. QED
      BY <2>3, <3>1
  <2>5. UNCHANGED <<timeout, made, engine, bio, pending, busy, order,
                    doing, stage, held, data, failed, mine, outcome>>
    BY <1>12 DEF SocketSend
  <2>6. QED
    BY <2>1, <2>2, <2>4, <2>5
<1>13. CASE PeerReads
  BY <1>13 DEF PeerReads
<1>14. CASE UNCHANGED vars
  BY <1>14
<1>15. QED
  BY <1>1, <1>2, <1>3, <1>4, <1>5, <1>6, <1>7, <1>8, <1>9, <1>10, <1>11, <1>12, <1>13, <1>14
     DEF Next, Step

-----------------------------------------------------------------------------
(* Who flushes, and who is inside *)

LEMMA FlushStep ==
  TInv /\ FlushInv /\ [Next]_vars => FlushInv'
<1> SUFFICES ASSUME TInv, FlushInv, [Next]_vars PROVE FlushInv'
  OBVIOUS
<1> USE DEF TInv, FlushInv, PCs, Flushing
<1>1. ASSUME NEW t \in Threads, NEW what \in {"send", "sendall", "recv"}, Call(t, what)
      PROVE  FlushInv'
  BY <1>1 DEF Call
<1>2. ASSUME NEW t \in Threads, Block(t) PROVE FlushInv'
  BY <1>2 DEF Block
<1>3. ASSUME NEW t \in Threads, Refused(t) PROVE FlushInv'
  <2>1. pc'[t] \in {"idle", "inside", "wait"} /\ pc' = [pc EXCEPT ![t] = pc'[t]]
    BY <1>3, Places
  <2>2. QED
    BY <1>3, <2>1 DEF Refused
<1>4. ASSUME NEW t \in Threads, Load(t) PROVE FlushInv'
  BY <1>4 DEF Load
<1>5. ASSUME NEW t \in Threads, SocketFull(t) PROVE FlushInv'
  BY <1>5 DEF SocketFull
<1>6. ASSUME NEW t \in Threads, DeleteSent(t) PROVE FlushInv'
  BY <1>6, Lengths DEF DeleteSent
<1>7. ASSUME NEW t \in Threads, Leave(t) PROVE FlushInv'
  <2>1. pc'[t] \in {"idle", "inside", "wait"} /\ pc' = [pc EXCEPT ![t] = pc'[t]]
    BY <1>7, Places
  <2>2. QED
    BY <1>7, <2>1 DEF Leave
<1>8. ASSUME NEW t \in Threads, Enter(t) PROVE FlushInv'
  BY <1>8 DEF Enter, Free
<1>9. ASSUME NEW t \in Threads, Engine(t) PROVE FlushInv'
  BY <1>9 DEF Engine
<1>10. ASSUME NEW t \in Threads, WriteTls(t) PROVE FlushInv'
  <2>1. CASE engine = <<>>
    BY <1>10, <2>1 DEF WriteTls
  <2>2. CASE engine # <<>>
    BY <1>10, <2>2 DEF WriteTls
  <2>3. QED
    BY <2>1, <2>2
<1>11. ASSUME NEW t \in Threads, OutgoingWrite(t) PROVE FlushInv'
  BY <1>11 DEF OutgoingWrite
<1>12. ASSUME NEW t \in Threads, NEW k \in 1..Room, SocketSend(t, k) PROVE FlushInv'
  <2>1. pc' = [pc EXCEPT ![t] = "sent"] /\ count' = [count EXCEPT ![t] = k] /\ pc[t] = "send"
    BY <1>12 DEF SocketSend
  <2>2. k \in 1..Len(pending) /\ UNCHANGED <<pending, data, busy>>
    BY <1>12 DEF SocketSend
  <2>3. QED
    BY <2>1, <2>2
<1>13. CASE PeerReads
  BY <1>13 DEF PeerReads
<1>14. CASE UNCHANGED vars
  BY <1>14
<1>15. QED
  BY <1>1, <1>2, <1>3, <1>4, <1>5, <1>6, <1>7, <1>8, <1>9, <1>10, <1>11, <1>12, <1>13, <1>14
     DEF Next, Step

\* Two threads that have been inside at once are not forgotten.
LEMMA CrossedStep ==
  [Next]_vars => (crossed => crossed') /\ (crossed \in BOOLEAN => crossed' \in BOOLEAN)
<1> SUFFICES ASSUME [Next]_vars
             PROVE  (crossed => crossed') /\ (crossed \in BOOLEAN => crossed' \in BOOLEAN)
  OBVIOUS
<1>1. ASSUME NEW t \in Threads, Engine(t)
      PROVE  (crossed => crossed') /\ (crossed \in BOOLEAN => crossed' \in BOOLEAN)
  <2>1. crossed' = (crossed \/ \E u \in Threads : Inside(u))
    BY <1>1 DEF Engine
  <2>2. QED
    BY <2>1
<1>2. ASSUME NEW t \in Threads, NEW what \in {"send", "sendall", "recv"}, Call(t, what)
      PROVE  crossed' = crossed
  BY <1>2 DEF Call
<1>3. ASSUME NEW t \in Threads, Step(t), ~Engine(t) PROVE crossed' = crossed
  BY <1>3 DEF Step, Block, Refused, Load, SocketFull, DeleteSent, Leave, SocketSend, Enter,
              WriteTls, OutgoingWrite
<1>4. CASE PeerReads \/ UNCHANGED vars
  BY <1>4 DEF PeerReads
<1>5. QED
  BY <1>1, <1>2, <1>3, <1>4 DEF Next

LEMMA InsideStep ==
  ~crossed' /\ TInv /\ InsideInv /\ [Next]_vars => InsideInv'
<1> SUFFICES ASSUME ~crossed', TInv, InsideInv, [Next]_vars PROVE InsideInv'
  OBVIOUS
<1> USE DEF TInv, InsideInv, PCs, Inside
<1>1. ASSUME NEW t \in Threads, NEW what \in {"send", "sendall", "recv"}, Call(t, what)
      PROVE  InsideInv'
  BY <1>1 DEF Call
<1>2. ASSUME NEW t \in Threads, Block(t) PROVE InsideInv'
  BY <1>2 DEF Block
<1>3. ASSUME NEW t \in Threads, Refused(t) PROVE InsideInv'
  <2>1. pc'[t] \in {"idle", "inside", "wait"} /\ pc' = [pc EXCEPT ![t] = pc'[t]]
    BY <1>3, Places
  <2>2. QED
    BY <1>3, <2>1 DEF Refused
<1>4. ASSUME NEW t \in Threads, Load(t) PROVE InsideInv'
  BY <1>4 DEF Load
<1>5. ASSUME NEW t \in Threads, SocketFull(t) PROVE InsideInv'
  BY <1>5 DEF SocketFull
<1>6. ASSUME NEW t \in Threads, DeleteSent(t) PROVE InsideInv'
  BY <1>6 DEF DeleteSent
<1>7. ASSUME NEW t \in Threads, Leave(t) PROVE InsideInv'
  <2>1. pc'[t] \in {"idle", "inside", "wait"} /\ pc' = [pc EXCEPT ![t] = pc'[t]]
    BY <1>7, Places
  <2>2. QED
    BY <1>7, <2>1 DEF Leave
<1>8. ASSUME NEW t \in Threads, Enter(t) PROVE InsideInv'
  BY <1>8 DEF Enter
<1>9. ASSUME NEW t \in Threads, Engine(t) PROVE InsideInv'
  BY <1>9 DEF Engine
<1>10. ASSUME NEW t \in Threads, WriteTls(t) PROVE InsideInv'
  <2>1. CASE engine = <<>>
    BY <1>10, <2>1 DEF WriteTls
  <2>2. CASE engine # <<>>
    BY <1>10, <2>2 DEF WriteTls
  <2>3. QED
    BY <2>1, <2>2
<1>11. ASSUME NEW t \in Threads, OutgoingWrite(t) PROVE InsideInv'
  BY <1>11 DEF OutgoingWrite
<1>12. ASSUME NEW t \in Threads, NEW k \in 1..Room, SocketSend(t, k) PROVE InsideInv'
  BY <1>12 DEF SocketSend
<1>13. CASE PeerReads
  BY <1>13 DEF PeerReads
<1>14. CASE UNCHANGED vars
  BY <1>14
<1>15. QED
  BY <1>1, <1>2, <1>3, <1>4, <1>5, <1>6, <1>7, <1>8, <1>9, <1>10, <1>11, <1>12, <1>13, <1>14
     DEF Next, Step

-----------------------------------------------------------------------------
(* The order of the cells *)

LEMMA Sizes ==
  ASSUME TInv, FlushInv, [Next]_vars
  PROVE  /\ Len(wire) \in Nat /\ Len(pending) \in Nat /\ Len(bio) \in Nat
         /\ Len(wire') \in Nat /\ Len(pending') \in Nat /\ Len(bio') \in Nat
         /\ \A t \in Threads : Len(held[t]) \in Nat
<1>1. TInv'
  BY TypeStep
<1>2. wire' \in Seq(Nat) /\ pending' \in Seq(Nat) /\ bio' \in Seq(Nat)
  BY <1>1 DEF TInv
<1>3. QED
  BY <1>2 DEF TInv

\* A step that sends nothing preserves the order if it does so for every count.
LEMMA OrderLift ==
  ASSUME TInv, OrderInv, UNCHANGED <<wire, count>>,
         \A t \in Threads : pc'[t] = "sent" <=> pc[t] = "sent",
         \A t \in Threads : mine'[t] <= made',
         \A c \in 0..Len(wire) : Order(c) => Order(c)'
  PROVE  OrderInv'
<1>1. Run(wire, 0)'
  BY DEF OrderInv, Run
<1>2. ASSUME NEW t \in Threads, pc'[t] = "sent"
      PROVE  count'[t] <= Len(wire') /\ Order(count[t])'
  <2>1. count[t] \in 0..Len(wire) /\ Order(count[t])
    BY <1>2 DEF OrderInv, TInv
  <2>2. QED
    BY <2>1
<1>3. (\A t \in Threads : pc'[t] # "sent") => Order(0)'
  <2>1. 0 \in 0..Len(wire)
    BY DEF TInv
  <2>2. QED
    BY <2>1 DEF OrderInv
<1>4. QED
  BY <1>1, <1>2, <1>3 DEF OrderInv

\* A step that moves cells towards the network.
LEMMA OrderMoved ==
  ASSUME TInv, NEW c \in Nat, NEW d \in Nat, Order(c), Out(d)' = Out(c),
         UNCHANGED <<made, engine, held, mine>>,
         \A t \in Threads : {pc[t], pc'[t]} \intersect {"take", "put"} # {} => pc'[t] = pc[t],
         Run(pending', Len(wire') - d), Run(bio', Len(wire') - d + Len(pending'))
  PROVE  Order(d)'
<1>1. \A t \in Threads : Inside(t)' <=> Inside(t)
  BY DEF Inside
<1>2. Run(pending, Len(wire) - d)' /\ Run(bio, Len(wire) - d + Len(pending))'
  BY DEF Run
<1>3. \A t \in Threads : pc'[t] = "put" =>
        Run(held'[t], Out(c)) /\ made' = Out(c) + Len(held'[t])
  BY DEF Order
<1>4. \A t \in Threads : pc'[t] = "take" =>
        Run(engine', Out(c)) /\ made' = Out(c) + Len(engine')
  BY DEF Order
<1>5. \A t \in Threads : (pc'[t] = "put" => Run(held[t], Out(d))') /\ (pc'[t] = "take" => Run(engine, Out(d))')
  BY <1>3, <1>4 DEF Run
<1>6. /\ (\A t \in Threads : ~Inside(t)') => made' = Out(d)'
      /\ \A t \in Threads : ~Inside(t)' => mine'[t] <= Out(d)'
  BY <1>1 DEF Order
<1>7. QED
  BY <1>2, <1>3, <1>4, <1>5, <1>6 DEF Order

\* Steps before and after what matters for the order.
LEMMA OrderSame ==
  ASSUME TInv, OrderInv, UNCHANGED <<made, engine, bio, pending, wire, held, count, mine>>,
         \A t \in Threads : {pc[t], pc'[t]} \intersect {"sent", "take", "put"} # {} => pc'[t] = pc[t]
  PROVE  OrderInv'
<1>1. \A t \in Threads : mine'[t] <= made'
  BY DEF OrderInv
<1>2. \A t \in Threads : pc'[t] = "sent" <=> pc[t] = "sent"
  OBVIOUS
<1>3. ASSUME NEW c \in 0..Len(wire), Order(c) PROVE Order(c)'
  BY <1>3 DEF Order, Out, Run, Inside
<1>4. QED
  BY <1>1, <1>2, <1>3, OrderLift

LEMMA OrderStep ==
  ~crossed' /\ TInv /\ FlushInv /\ InsideInv /\ OrderInv /\ [Next]_vars => OrderInv'
<1> SUFFICES ASSUME ~crossed', TInv, FlushInv, InsideInv, OrderInv, [Next]_vars PROVE OrderInv'
  OBVIOUS
<1>1. ASSUME NEW t \in Threads, NEW what \in {"send", "sendall", "recv"}, Call(t, what)
      PROVE  OrderInv'
  BY <1>1, OrderSame DEF Call, TInv
<1>2. ASSUME NEW t \in Threads, Block(t) PROVE OrderInv'
  BY <1>2, OrderSame DEF Block, TInv
<1>3. ASSUME NEW t \in Threads, Refused(t) PROVE OrderInv'
  <2>1. pc'[t] \in {"idle", "inside", "wait"} /\ pc' = [pc EXCEPT ![t] = pc'[t]]
    BY <1>3, Places
  <2>2. QED
    BY <1>3, <2>1, OrderSame DEF Refused, TInv
<1>4. ASSUME NEW t \in Threads, Load(t) PROVE OrderInv'
  <2>1. pc[t] = "load" /\ \A u \in Threads : pc[u] # "sent" /\ pc'[u] # "sent"
    BY <1>4 DEF Load, FlushInv, Flushing, TInv
  <2>2. Order(0) /\ Run(wire, 0)
    BY <2>1 DEF OrderInv
  <2> DEFINE k == Least(WriteBuffer, Len(bio))
  <2>3. k \in 0..Len(bio)
    BY DEF TInv
  <2>4. Len(pending') + Len(bio') = Len(pending) + Len(bio)
    <3>1. CASE Refill
      <4>1. Len(SubSeq(bio, 1, k)) = k /\ Len(Rest(bio, k)) = Len(bio) - k
        BY <2>3, Lengths DEF TInv
      <4>2. pending' = SubSeq(bio, 1, k) /\ bio' = Rest(bio, k) /\ pending = <<>>
        BY <1>4, <3>1 DEF Load, Refill
      <4>3. PICK x \in Nat : Len(bio) = x
        BY Sizes
      <4>4. Len(pending) = 0 /\ Len(pending') = k /\ Len(bio') = x - k /\ k \in 0..x
        BY <2>3, <4>1, <4>2, <4>3
      <4>5. QED
        BY <4>3, <4>4
    <3>2. CASE ~Refill
      BY <1>4, <3>2 DEF Load
    <3>3. QED
      BY <3>1, <3>2
  <2>5. Run(pending, Len(wire))' /\ Run(bio, Len(wire) + Len(pending))'
    <3>1. CASE Refill
      <4>1. Run(bio, Len(wire)) /\ Len(wire) \in Nat
        BY <2>2, <3>1 DEF Order, Refill, TInv
      <4>2. /\ Len(SubSeq(bio, 1, k)) = k /\ Run(SubSeq(bio, 1, k), Len(wire))
            /\ Run(Rest(bio, k), Len(wire) + k)
        BY <2>3, <4>1, RunPrefix, RunRest DEF TInv
      <4>3. pending' = SubSeq(bio, 1, k) /\ bio' = Rest(bio, k) /\ wire' = wire
        BY <1>4, <3>1 DEF Load
      <4>4. QED
        BY <4>2, <4>3 DEF Run
    <3>2. CASE ~Refill
      <4>1. pending' = pending /\ bio' = bio /\ wire' = wire
        BY <1>4, <3>2 DEF Load
      <4>2. QED
        BY <2>2, <4>1 DEF Order, Run, TInv
    <3>3. QED
      BY <3>1, <3>2
  <2>6. /\ UNCHANGED <<made, engine, wire, held, mine>>
        /\ pc' = [pc EXCEPT ![t] = pc'[t]] /\ pc'[t] \in {"leave", "send"}
    BY <1>4 DEF Load, TInv
  <2>7. pending' \in Seq(Nat) /\ bio' \in Seq(Nat)
    BY TypeStep DEF TInv
  <2>8. Order(0)'
    <3>1. Out(0)' = Out(0)
      BY <2>4, <2>6, Sizes DEF Out
    <3>2. Run(pending', Len(wire') - 0) /\ Run(bio', Len(wire') - 0 + Len(pending'))
      BY <2>5, <2>6 DEF Run, TInv
    <3>3. \A u \in Threads : {pc[u], pc'[u]} \intersect {"take", "put"} # {} => pc'[u] = pc[u]
      BY <2>1, <2>6 DEF TInv
    <3>4. QED
      BY <2>2, <2>6, <3>1, <3>2, <3>3, OrderMoved
  <2>9. QED
    BY <2>1, <2>6, <2>8 DEF OrderInv, Run
<1>5. ASSUME NEW t \in Threads, SocketFull(t) PROVE OrderInv'
  BY <1>5, OrderSame DEF SocketFull, TInv
<1>6. ASSUME NEW t \in Threads, DeleteSent(t) PROVE OrderInv'
  <2> DEFINE c == count[t]
  <2>1. pc[t] = "sent" /\ \A u \in Threads : pc'[u] # "sent"
    BY <1>6 DEF DeleteSent, FlushInv, Flushing, TInv
  <2>2. Order(c) /\ c <= Len(wire)
    BY <2>1 DEF OrderInv
  <2>3. c \in 0..Len(pending) /\ Len(wire) - c \in Nat
    BY <2>1, <2>2 DEF FlushInv, TInv
  <2>4. Len(Rest(pending, c)) = Len(pending) - c /\ Run(Rest(pending, c), Len(wire) - c + c)
    <3>1. Run(pending, Len(wire) - c)
      BY <2>2 DEF Order
    <3>2. QED
      BY <2>3, <3>1, RunRest DEF TInv
  <2>5. /\ UNCHANGED <<made, engine, bio, wire, held, mine>> /\ pending' = Rest(pending, c)
        /\ pc' = [pc EXCEPT ![t] = "load"]
    BY <1>6 DEF DeleteSent
  <2>6. pc[t] = "sent"
    BY <1>6 DEF DeleteSent
  <2> HIDE DEF c
  <2>7. Order(0)'
    <3>1. c \in Nat /\ Len(wire) - c + c = Len(wire)
      BY <2>3 DEF TInv
    <3>2. Out(0)' = Out(c)
      BY <2>3, <2>4, <2>5, Sizes DEF Out
    <3>3. Run(pending', Len(wire') - 0) /\ Run(bio', Len(wire') - 0 + Len(pending'))
      <4>1. Run(bio, Len(wire) - c + Len(pending))
        BY <2>2 DEF Order
      <4>2. Len(wire') - 0 = Len(wire) /\ Len(wire') - 0 + Len(pending') = Len(wire) - c + Len(pending)
        BY <2>3, <2>4, <2>5, Sizes
      <4>3. QED
        BY <2>4, <2>5, <3>1, <4>1, <4>2
    <3>4. \A u \in Threads : {pc[u], pc'[u]} \intersect {"take", "put"} # {} => pc'[u] = pc[u]
      BY <2>1, <2>5, <2>6 DEF TInv
    <3>5. QED
      BY <2>2, <2>5, <3>1, <3>2, <3>3, <3>4, OrderMoved
  <2>8. QED
    BY <2>1, <2>5, <2>7 DEF OrderInv, Run
<1>7. ASSUME NEW t \in Threads, Leave(t) PROVE OrderInv'
  <2>1. pc'[t] \in {"idle", "inside", "wait"} /\ pc' = [pc EXCEPT ![t] = pc'[t]]
    BY <1>7, Places
  <2>2. QED
    BY <1>7, <2>1, OrderSame DEF Leave, TInv
<1>8. ASSUME NEW t \in Threads, Enter(t) PROVE OrderInv'
  BY <1>8, OrderSame DEF Enter, TInv
<1>9. ASSUME NEW t \in Threads, Engine(t) PROVE OrderInv'
  <2>1. PICK size \in (IF t \in Senders THEN {RecordSize} ELSE {0, 1}) :
          /\ made' = made + size
          /\ engine' = engine \o Span(made, made + size)
          /\ mine' = IF t \in Senders THEN [mine EXCEPT ![t] = made + size] ELSE mine
    BY <1>9 DEF Engine, Counted
  <2>2. size \in Nat /\ made \in Nat
    BY <2>1 DEF TInv
  <2>3. pc[t] = "inside" /\ engine = <<>> /\ \A u \in Threads : ~Inside(u)
    BY <1>9 DEF Engine, InsideInv
  <2>4. /\ pc' = [pc EXCEPT ![t] = "take"]
        /\ UNCHANGED <<bio, pending, wire, held, count>>
    BY <1>9 DEF Engine
  <2>5. engine' = Span(made, made + size) /\ Len(engine') = size /\ Run(engine', made)
    <3>1. /\ Span(made, made + size) \in Seq(Nat) /\ Len(Span(made, made + size)) = size
          /\ Run(Span(made, made + size), made)
      BY <2>2, RunSpan
    <3>2. <<>> \o Span(made, made + size) = Span(made, made + size)
      BY <3>1
    <3>3. QED
      BY <2>1, <2>3, <3>1, <3>2
  <2>6. \A u \in Threads : mine'[u] <= made' /\ (u # t => mine'[u] = mine[u])
    <3>1. mine \in [Threads -> Nat] /\ \A u \in Threads : mine[u] <= made
      BY DEF OrderInv, TInv
    <3>2. made <= made'
      BY <2>1, <2>2
    <3>3. \A u \in Threads : mine'[u] = mine[u] \/ (u = t /\ mine'[u] = made')
      BY <2>1, <3>1
    <3>4. QED
      BY <2>1, <2>2, <3>1, <3>2, <3>3
  <2>7. ASSUME NEW c \in 0..Len(wire), Order(c) PROVE Order(c)'
    <3>1. made = Out(c) /\ Out(c)' = Out(c)
      BY <2>3, <2>4, <2>7 DEF Order, Out
    <3>2. pc'[t] = "take" /\ \A u \in Threads \ {t} : pc'[u] = pc[u] /\ ~Inside(u)'
      BY <2>3, <2>4 DEF TInv, Inside
    <3>3. Run(engine, Out(c))' /\ made' = Out(c)' + Len(engine')
      BY <2>1, <2>5, <3>1 DEF Run
    <3>4. Run(pending, Len(wire) - c)' /\ Run(bio, Len(wire) - c + Len(pending))'
      BY <2>4, <2>7 DEF Order, Run
    <3>5. \A u \in Threads : ~Inside(u)' => mine'[u] <= Out(c)'
      BY <2>3, <2>6, <2>7, <3>1, <3>2 DEF Order, Inside
    <3>6. \A u \in Threads : pc'[u] # "put"
      BY <2>3, <3>2 DEF Inside
    <3>7. \A u \in Threads : pc'[u] = "take" => u = t
      BY <2>3, <3>2 DEF Inside
    <3>8. ~\A u \in Threads : ~Inside(u)'
      BY <3>2 DEF Inside
    <3>9. QED
      BY <3>3, <3>4, <3>5, <3>6, <3>7, <3>8 DEF Order
  <2>8. \A u \in Threads : pc'[u] = "sent" <=> pc[u] = "sent"
    BY <2>3, <2>4 DEF TInv
  <2>9. QED
    BY <2>4, <2>6, <2>7, <2>8, OrderLift
<1>10. ASSUME NEW t \in Threads, WriteTls(t) PROVE OrderInv'
  <2>1. /\ pc[t] = "take" /\ held' = [held EXCEPT ![t] = engine] /\ engine' = <<>>
        /\ UNCHANGED <<made, bio, pending, wire, count, mine>>
    BY <1>10 DEF WriteTls
  <2>2. \A u \in Threads \ {t} : ~Inside(u) /\ pc'[u] = pc[u]
    BY <1>10, <2>1 DEF WriteTls, InsideInv, Inside, TInv
  <2>3. pc'[t] = "put" \/ (pc'[t] \in {"wait", "idle"} /\ engine = <<>>)
    <3>1. CASE engine = <<>>
      BY <1>10, <3>1 DEF WriteTls, TInv
    <3>2. CASE engine # <<>>
      BY <1>10, <3>2 DEF WriteTls, TInv
    <3>3. QED
      BY <3>1, <3>2
  <2>4. ASSUME NEW c \in 0..Len(wire), Order(c) PROVE Order(c)'
    <3>1. Run(engine, Out(c)) /\ made = Out(c) + Len(engine) /\ Out(c)' = Out(c)
      BY <2>1, <2>4 DEF Order, Out
    <3>2. Run(pending, Len(wire) - c)' /\ Run(bio, Len(wire) - c + Len(pending))'
      BY <2>1, <2>4 DEF Order, Run
    <3>3. \A u \in Threads \ {t} : mine'[u] <= Out(c)' /\ pc'[u] \notin {"put", "take"} /\ ~Inside(u)'
      BY <2>1, <2>2, <2>4, <3>1 DEF Order, Inside
    <3>4. CASE pc'[t] = "put"
      <4>1. Inside(t)' /\ pc'[t] # "take" /\ held'[t] = engine
        BY <2>1, <3>4 DEF Inside, TInv
      <4>2. Run(held[t], Out(c))' /\ made' = Out(c)' + Len(held'[t])
        BY <2>1, <3>1, <4>1 DEF Run
      <4>3. QED
        BY <3>2, <3>3, <4>1, <4>2 DEF Order
    <3>5. CASE pc'[t] \in {"wait", "idle"} /\ engine = <<>>
      <4>1. ~Inside(t)' /\ pc'[t] \notin {"put", "take"}
        BY <3>5 DEF Inside
      <4>2. made' = Out(c)' /\ mine'[t] <= Out(c)'
        BY <2>1, <3>1, <3>5 DEF OrderInv, Out, TInv
      <4>3. QED
        BY <3>2, <3>3, <4>1, <4>2 DEF Order
    <3>6. QED
      BY <2>3, <3>4, <3>5
  <2>5. \A u \in Threads : mine'[u] <= made'
    BY <2>1 DEF OrderInv
  <2>6. \A u \in Threads : pc'[u] = "sent" <=> pc[u] = "sent"
    BY <2>1, <2>2, <2>3
  <2>7. QED
    BY <2>1, <2>4, <2>5, <2>6, OrderLift
<1>11. ASSUME NEW t \in Threads, OutgoingWrite(t) PROVE OrderInv'
  <2>1. /\ pc[t] = "put" /\ bio' = bio \o held[t] /\ engine = <<>>
        /\ UNCHANGED <<made, engine, pending, wire, count, mine>>
    BY <1>11 DEF OutgoingWrite, InsideInv
  <2>2. pc'[t] = "take" /\ \A u \in Threads \ {t} : ~Inside(u) /\ pc'[u] = pc[u]
    BY <1>11, <2>1 DEF OutgoingWrite, InsideInv, Inside, TInv
  <2>3. ASSUME NEW c \in 0..Len(wire), Order(c) PROVE Order(c)'
    <3>1. PICK a \in Nat : a = Len(wire) - c + Len(pending)
      <4>1. PICK x, y \in Nat : Len(wire) = x /\ Len(pending) = y
        BY Sizes
      <4>2. x - c + y \in Nat
        BY <4>1
      <4>3. QED
        BY <4>1, <4>2
    <3>2. Run(bio, a) /\ Run(held[t], a + Len(bio)) /\ made = a + Len(bio) + Len(held[t])
      BY <2>1, <2>3, <3>1 DEF Order, Out
    <3>3. Len(bio') = Len(bio) + Len(held[t]) /\ Run(bio', a)
      BY <2>1, <3>1, <3>2, RunConcat DEF TInv
    <3>4. Out(c)' = made /\ Out(c) <= Out(c)' /\ Out(c) \in Int /\ made \in Int
      <4>1. Out(c) = a + Len(bio) /\ Out(c)' = a + Len(bio')
        BY <2>1, <3>1 DEF Out
      <4>2. PICK x, y \in Nat : Len(bio) = x /\ Len(held[t]) = y
        BY Sizes
      <4>3. Len(bio') = x + y /\ made = a + x + y
        BY <3>2, <3>3, <4>2
      <4>4. QED
        BY <3>1, <4>1, <4>2, <4>3
    <3>5. Run(pending, Len(wire) - c)' /\ Run(bio, Len(wire) - c + Len(pending))'
      BY <2>1, <2>3, <3>1, <3>3 DEF Order, Run
    <3>6. \A u \in Threads \ {t} : mine'[u] <= Out(c)' /\ pc'[u] \notin {"put", "take"} /\ ~Inside(u)'
      BY <2>1, <2>2, <2>3, <3>4 DEF Order, Inside, TInv, OrderInv
    <3>7. Run(engine, Out(c))' /\ made' = Out(c)' + Len(engine')
      BY <2>1, <3>4 DEF Run
    <3>8. Inside(t)' /\ pc'[t] # "put"
      BY <2>2 DEF Inside
    <3>9. QED
      BY <3>5, <3>6, <3>7, <3>8 DEF Order
  <2>4. \A u \in Threads : mine'[u] <= made'
    BY <2>1 DEF OrderInv
  <2>5. \A u \in Threads : pc'[u] = "sent" <=> pc[u] = "sent"
    BY <2>1, <2>2
  <2>6. QED
    BY <2>1, <2>3, <2>4, <2>5, OrderLift
<1>12. ASSUME NEW t \in Threads, NEW k \in 1..Room, SocketSend(t, k) PROVE OrderInv'
  <2>1. pc[t] = "send" /\ data[t] = pending /\ \A u \in Threads : pc[u] # "sent"
    BY <1>12 DEF SocketSend, FlushInv, Flushing
  <2>2. Order(0) /\ Run(wire, 0)
    BY <2>1 DEF OrderInv
  <2>3. k \in 0..Len(pending) /\ wire' = wire \o SubSeq(pending, 1, k)
    BY <1>12, <2>1 DEF SocketSend, TInv
  <2>4. /\ SubSeq(pending, 1, k) \in Seq(Nat) /\ Len(SubSeq(pending, 1, k)) = k
        /\ Run(SubSeq(pending, 1, k), Len(wire))
    <3>1. Run(pending, Len(wire)) /\ Len(wire) \in Nat
      BY <2>2 DEF Order, TInv
    <3>2. QED
      BY <2>3, <3>1, RunPrefix DEF TInv
  <2>5. Len(wire') = Len(wire) + k /\ Run(wire', 0)
    <3>1. Run(SubSeq(pending, 1, k), 0 + Len(wire))
      BY <2>4 DEF TInv
    <3>2. QED
      BY <2>2, <2>3, <2>4, <3>1, RunConcat DEF TInv
  <2>6. /\ UNCHANGED <<made, engine, bio, pending, held, mine>>
        /\ pc' = [pc EXCEPT ![t] = "sent"] /\ count' = [count EXCEPT ![t] = k]
    BY <1>12 DEF SocketSend
  <2>7. Order(k)'
    <3>1. Len(wire') - k = Len(wire) /\ k \in Nat
      BY <2>3, <2>5 DEF TInv
    <3>2. Out(k)' = Out(0)
      BY <2>6, <3>1, Sizes DEF Out
    <3>3. Run(pending', Len(wire') - k) /\ Run(bio', Len(wire') - k + Len(pending'))
      <4>1. Run(pending, Len(wire) - 0) /\ Run(bio, Len(wire) - 0 + Len(pending))
        BY <2>2 DEF Order
      <4>2. Len(wire) - 0 = Len(wire)
        BY Sizes
      <4>3. QED
        BY <2>6, <3>1, <4>1, <4>2
    <3>4. \A u \in Threads : {pc[u], pc'[u]} \intersect {"take", "put"} # {} => pc'[u] = pc[u]
      BY <2>1, <2>6 DEF TInv
    <3>5. QED
      BY <2>2, <2>6, <3>1, <3>2, <3>3, <3>4, OrderMoved
  <2>8. \A u \in Threads : pc'[u] = "sent" => u = t
    BY <2>1, <2>6 DEF TInv
  <2>9. count'[t] = k /\ pc'[t] = "sent" /\ k <= Len(wire')
    BY <2>3, <2>5, <2>6 DEF TInv
  <2>10. Run(wire, 0)'
    BY <2>5 DEF Run
  <2>11. \A u \in Threads : mine'[u] <= made'
    BY <2>6 DEF OrderInv
  <2>12. Order(count[t])'
    BY <2>7, <2>9 DEF Order, Out
  <2>13. QED
    BY <2>8, <2>9, <2>10, <2>11, <2>12 DEF OrderInv
<1>13. CASE PeerReads
  BY <1>13, OrderSame DEF PeerReads
<1>14. CASE UNCHANGED vars
  BY <1>14, OrderSame
<1>15. QED
  BY <1>1, <1>2, <1>3, <1>4, <1>5, <1>6, <1>7, <1>8, <1>9, <1>10, <1>11, <1>12, <1>13, <1>14
     DEF Next, Step

-----------------------------------------------------------------------------
(* What a flush that has come to its end has sent *)

LEMMA DoneStep ==
  TInv /\ FlushInv /\ OrderInv /\ DoneInv /\ [Next]_vars => DoneInv'
<1> SUFFICES ASSUME TInv, FlushInv, OrderInv, DoneInv, [Next]_vars PROVE DoneInv'
  OBVIOUS
<1>1. ASSUME NEW t \in Threads, NEW what \in {"send", "sendall", "recv"}, Call(t, what)
      PROVE  DoneInv'
  BY <1>1 DEF Call, DoneInv, TInv
<1>2. ASSUME NEW t \in Threads, Block(t) PROVE DoneInv'
  BY <1>2 DEF Block, DoneInv, TInv
<1>3. ASSUME NEW t \in Threads, Refused(t) PROVE DoneInv'
  <2>1. PICK f \in {"want", "timeout"} : AfterFlush(t, f)
    BY <1>3 DEF Refused
  <2>2. /\ pc'[t] \in {"idle", "wait"} /\ pc' = [pc EXCEPT ![t] = pc'[t]]
        /\ outcome' = [outcome EXCEPT ![t] = outcome'[t]] /\ failed' = [failed EXCEPT ![t] = "no"]
        /\ outcome'[t] = "returned" /\ outcome[t] # "returned" => pc'[t] = "idle" /\ doing[t] # "sendall"
    BY <2>1, Afterwards
  <2>3. pc[t] # "idle" /\ UNCHANGED <<wire, doing, mine>>
    BY <1>3 DEF Refused
  <2>4. QED
    BY <2>2, <2>3 DEF DoneInv, TInv
<1>4. ASSUME NEW t \in Threads, Load(t) PROVE DoneInv'
  <2>1. pc[t] = "load" /\ \A u \in Threads : pc[u] # "sent"
    BY <1>4 DEF Load, FlushInv, Flushing
  <2>2. ~Inside(t) /\ Order(0)
    BY <2>1 DEF OrderInv, Inside
  <2>3. mine[t] <= Out(0)
    BY <2>2 DEF Order
  <2>4. CASE pending' = <<>>
    <3>1. pending = <<>> /\ bio = <<>>
      <4>1. Refill
        BY <1>4, <2>4 DEF Load, Refill
      <4>2. pending = <<>> /\ SubSeq(bio, 1, Least(WriteBuffer, Len(bio))) = <<>>
        BY <1>4, <2>4, <4>1 DEF Load, Refill
      <4>3. Least(WriteBuffer, Len(bio)) \in 0..Len(bio)
        BY DEF TInv
      <4>4. Least(WriteBuffer, Len(bio)) = 0
        BY <4>2, <4>3, Lengths DEF TInv
      <4>5. QED
        BY <4>2, <4>4 DEF TInv
    <3>2. mine[t] <= Len(wire)
      BY <2>3, <3>1 DEF Out, TInv
    <3>3. UNCHANGED <<wire, doing, mine, outcome, failed>> /\ pc' = [pc EXCEPT ![t] = "leave"]
      BY <1>4, <2>4 DEF Load
    <3>4. QED
      BY <2>1, <3>2, <3>3 DEF DoneInv, TInv
  <2>5. CASE pending' # <<>>
    <3>1. UNCHANGED <<wire, doing, mine, outcome, failed>> /\ pc' = [pc EXCEPT ![t] = "send"]
      BY <1>4, <2>5 DEF Load
    <3>2. QED
      BY <2>1, <3>1 DEF DoneInv, TInv
  <2>6. QED
    BY <2>4, <2>5
<1>5. ASSUME NEW t \in Threads, SocketFull(t) PROVE DoneInv'
  BY <1>5 DEF SocketFull, DoneInv, TInv
<1>6. ASSUME NEW t \in Threads, DeleteSent(t) PROVE DoneInv'
  BY <1>6 DEF DeleteSent, DoneInv, TInv
<1>7. ASSUME NEW t \in Threads, Leave(t) PROVE DoneInv'
  <2>1. AfterFlush(t, failed[t]) /\ failed[t] \in {"no", "want", "timeout"}
    BY <1>7 DEF Leave, TInv
  <2>2. /\ pc'[t] \in {"idle", "inside", "wait"} /\ pc' = [pc EXCEPT ![t] = pc'[t]]
        /\ outcome' = [outcome EXCEPT ![t] = outcome'[t]] /\ failed' = [failed EXCEPT ![t] = "no"]
        /\ pc'[t] = "inside" => failed[t] = "no"
        /\ outcome'[t] = "returned" /\ outcome[t] # "returned" =>
             pc'[t] = "idle" /\ (doing[t] = "sendall" => failed[t] = "no")
    BY <2>1, Afterwards
  <2>3. pc[t] = "leave" /\ UNCHANGED <<wire, doing, mine>>
    BY <1>7 DEF Leave
  <2>4. QED
    BY <2>2, <2>3 DEF DoneInv, TInv
<1>8. ASSUME NEW t \in Threads, Enter(t) PROVE DoneInv'
  BY <1>8 DEF Enter, DoneInv, TInv
<1>9. ASSUME NEW t \in Threads, Engine(t) PROVE DoneInv'
  <2>1. /\ pc[t] = "inside" /\ pc' = [pc EXCEPT ![t] = "take"]
        /\ UNCHANGED <<wire, doing, outcome, failed>>
        /\ \A u \in Threads \ {t} : mine'[u] = mine[u]
    BY <1>9 DEF Engine, TInv
  <2>2. QED
    BY <2>1 DEF DoneInv, TInv
<1>10. ASSUME NEW t \in Threads, WriteTls(t) PROVE DoneInv'
  <2>1. CASE engine = <<>>
    <3>1. CASE t \in Senders
      <4>1. /\ pc[t] = "take" /\ pc' = [pc EXCEPT ![t] = "wait"] /\ UNCHANGED <<wire, doing, mine, failed>>
            /\ outcome' = [outcome EXCEPT ![t] = outcome[t]]
        BY <1>10, <2>1, <3>1 DEF WriteTls
      <4>2. QED
        BY <4>1 DEF DoneInv, TInv
    <3>2. CASE t \in Receivers
      <4>1. /\ pc[t] = "take" /\ pc' = [pc EXCEPT ![t] = "idle"] /\ UNCHANGED <<wire, doing, mine, failed>>
            /\ outcome' = [outcome EXCEPT ![t] = "returned"]
        BY <1>10, <2>1, <3>2 DEF WriteTls
      <4>2. QED
        BY <3>2, <4>1 DEF DoneInv, TInv
    <3>3. QED
      BY <3>1, <3>2
  <2>2. CASE engine # <<>>
    <3>1. /\ pc[t] = "take" /\ pc' = [pc EXCEPT ![t] = "put"] /\ UNCHANGED <<wire, doing, mine, failed>>
          /\ outcome' = [outcome EXCEPT ![t] = outcome[t]]
      BY <1>10, <2>2 DEF WriteTls
    <3>2. QED
      BY <3>1 DEF DoneInv, TInv
  <2>3. QED
    BY <2>1, <2>2
<1>11. ASSUME NEW t \in Threads, OutgoingWrite(t) PROVE DoneInv'
  BY <1>11 DEF OutgoingWrite, DoneInv, TInv
<1>12. ASSUME NEW t \in Threads, NEW k \in 1..Room, SocketSend(t, k) PROVE DoneInv'
  <2>1. Len(wire) <= Len(wire')
    <3>1. k \in 0..Len(data[t]) /\ wire' = wire \o SubSeq(data[t], 1, k)
      BY <1>12 DEF SocketSend, TInv
    <3>2. SubSeq(data[t], 1, k) \in Seq(Nat)
      BY <3>1, Lengths DEF TInv
    <3>3. QED
      BY <3>1, <3>2 DEF TInv
  <2>2. Len(wire) \in Nat /\ Len(wire') \in Nat
    BY Sizes
  <2>3. /\ UNCHANGED <<doing, mine, outcome, failed>> /\ pc[t] = "send"
        /\ pc' = [pc EXCEPT ![t] = "sent"]
    BY <1>12 DEF SocketSend
  <2>4. QED
    BY <2>1, <2>2, <2>3 DEF DoneInv, TInv
<1>13. CASE PeerReads
  BY <1>13 DEF PeerReads, DoneInv
<1>14. CASE UNCHANGED vars
  BY <1>14 DEF DoneInv
<1>15. QED
  BY <1>1, <1>2, <1>3, <1>4, <1>5, <1>6, <1>7, <1>8, <1>9, <1>10, <1>11, <1>12, <1>13, <1>14
     DEF Next, Step

-----------------------------------------------------------------------------
(* What was put into the BIO *)

LEMMA SplitAt ==
  ASSUME NEW s \in Seq(Nat), NEW k \in 0..Len(s)
  PROVE  SubSeq(s, 1, k) \o Rest(s, k) = s
<1>1. /\ 1 \in 1..Len(s) + 1 /\ k \in 1 - 1..Len(s) /\ Len(s) \in k..Len(s)
  OBVIOUS
<1>2. SubSeq(s, 1, k) \o SubSeq(s, k + 1, Len(s)) = SubSeq(s, 1, Len(s))
  BY <1>1, ConcatAdjacentSubSeq
<1>3. QED
  BY <1>2, SubSeqFull DEF Rest

LEMMA Regroup ==
  ASSUME NEW a \in Seq(Nat), NEW b \in Seq(Nat), NEW c \in Seq(Nat)
  PROVE  (a \o b) \o c = a \o (b \o c)
OBVIOUS

LEMMA AppendLast ==
  ASSUME NEW w \in Seq(Nat), NEW r \in Seq(Nat), NEW b \in Seq(Nat), NEW h \in Seq(Nat)
  PROVE  w \o (r \o (b \o h)) = (w \o (r \o b)) \o h
<1> DEFINE rb == r \o b
<1>a. rb \in Seq(Nat)
  OBVIOUS
<1>b. (r \o b) \o h = r \o (b \o h)
  BY Regroup
<1>1. rb \in Seq(Nat) /\ rb \o h = r \o (b \o h)
  BY <1>a, <1>b
<1> HIDE DEF rb
<1>2. (w \o rb) \o h = w \o (rb \o h)
  BY <1>1, Regroup
<1>3. QED
  BY <1>1, <1>2 DEF rb

LEMMA PrefixOf ==
  ASSUME NEW a \in Seq(Nat), NEW b \in Seq(Nat)
  PROVE  SubSeq(a \o b, 1, Len(a)) = a
OBVIOUS

LEMMA NoRest ==
  ASSUME NEW s \in Seq(Nat)
  PROVE  <<>> \o s = s
OBVIOUS

LEMMA KeptFirst == Init => KeptInv
<1>1. <<>> \o (<<>> \o <<>>) = <<>>
  OBVIOUS
<1>2. QED
  BY <1>1 DEF Init, KeptInv

\* Steps that move nothing between the BIO and the network.
LEMMA KeptSame ==
  ASSUME KeptInv, UNCHANGED <<bio, pending, wire, order, count>>,
         \A t \in Threads : pc'[t] = "sent" <=> pc[t] = "sent"
  PROVE  KeptInv'
BY DEF KeptInv, Rest

LEMMA KeptStep == TInv /\ FlushInv /\ KeptInv /\ [Next]_vars => KeptInv'
<1> SUFFICES ASSUME TInv, FlushInv, KeptInv, [Next]_vars PROVE KeptInv'
  OBVIOUS
<1>1. ASSUME NEW t \in Threads, NEW what \in {"send", "sendall", "recv"}, Call(t, what)
      PROVE  KeptInv'
  BY <1>1, KeptSame DEF Call, TInv
<1>2. ASSUME NEW t \in Threads, Block(t) PROVE KeptInv'
  BY <1>2, KeptSame DEF Block, TInv
<1>3. ASSUME NEW t \in Threads, Refused(t) PROVE KeptInv'
  <2>1. pc'[t] \in {"idle", "inside", "wait"} /\ pc' = [pc EXCEPT ![t] = pc'[t]]
    BY <1>3, Places
  <2>2. QED
    BY <1>3, <2>1, KeptSame DEF Refused, TInv
<1>4. ASSUME NEW t \in Threads, Load(t) PROVE KeptInv'
  <2>1. \A u \in Threads : pc[u] # "sent" /\ pc'[u] # "sent"
    BY <1>4 DEF Load, FlushInv, Flushing, TInv
  <2>2. order = wire \o (pending \o bio)
    BY <2>1 DEF KeptInv
  <2>3. pending' \o bio' = pending \o bio /\ UNCHANGED <<wire, order>>
    <3>1. CASE Refill
      <4> DEFINE k == Least(WriteBuffer, Len(bio))
      <4>1. k \in 0..Len(bio)
        BY DEF TInv
      <4>2. pending' = SubSeq(bio, 1, k) /\ bio' = Rest(bio, k) /\ pending = <<>>
        BY <1>4, <3>1 DEF Load, Refill
      <4> HIDE DEF k
      <4>3. SubSeq(bio, 1, k) \o Rest(bio, k) = bio /\ <<>> \o bio = bio
        BY <4>1, SplitAt, NoRest DEF TInv
      <4>4. QED
        BY <1>4, <4>2, <4>3 DEF Load
    <3>2. CASE ~Refill
      BY <1>4, <3>2 DEF Load
    <3>3. QED
      BY <3>1, <3>2
  <2>4. QED
    BY <2>1, <2>2, <2>3 DEF KeptInv
<1>5. ASSUME NEW t \in Threads, SocketFull(t) PROVE KeptInv'
  BY <1>5, KeptSame DEF SocketFull, TInv
<1>6. ASSUME NEW t \in Threads, DeleteSent(t) PROVE KeptInv'
  <2>1. pc[t] = "sent" /\ \A u \in Threads : pc'[u] # "sent"
    BY <1>6 DEF DeleteSent, FlushInv, Flushing, TInv
  <2>2. order = wire \o (Rest(pending, count[t]) \o bio)
    BY <2>1 DEF KeptInv
  <2>3. pending' = Rest(pending, count[t]) /\ UNCHANGED <<wire, bio, order>>
    BY <1>6 DEF DeleteSent
  <2>4. QED
    BY <2>1, <2>2, <2>3 DEF KeptInv
<1>7. ASSUME NEW t \in Threads, Leave(t) PROVE KeptInv'
  <2>1. pc'[t] \in {"idle", "inside", "wait"} /\ pc' = [pc EXCEPT ![t] = pc'[t]]
    BY <1>7, Places
  <2>2. QED
    BY <1>7, <2>1, KeptSame DEF Leave, TInv
<1>8. ASSUME NEW t \in Threads, Enter(t) PROVE KeptInv'
  BY <1>8, KeptSame DEF Enter, TInv
<1>9. ASSUME NEW t \in Threads, Engine(t) PROVE KeptInv'
  BY <1>9, KeptSame DEF Engine, TInv
<1>10. ASSUME NEW t \in Threads, WriteTls(t) PROVE KeptInv'
  <2>1. pc[t] = "take" /\ UNCHANGED <<bio, pending, wire, order, count>>
    BY <1>10 DEF WriteTls
  <2>2. PICK where \in {"put", "wait", "idle"} : pc' = [pc EXCEPT ![t] = where]
    BY <1>10 DEF WriteTls
  <2>3. QED
    BY <2>1, <2>2, KeptSame DEF TInv
<1>11. ASSUME NEW t \in Threads, OutgoingWrite(t) PROVE KeptInv'
  <2>1. /\ bio' = bio \o held[t] /\ order' = order \o held[t]
        /\ UNCHANGED <<pending, wire, count>>
    BY <1>11 DEF OutgoingWrite
  <2>2. \A u \in Threads : pc'[u] = "sent" <=> pc[u] = "sent"
    BY <1>11 DEF OutgoingWrite, TInv
  <2>3. ASSUME NEW r \in Seq(Nat), order = wire \o (r \o bio) PROVE order' = wire \o (r \o bio')
    <3>1. wire \in Seq(Nat) /\ bio \in Seq(Nat) /\ held[t] \in Seq(Nat)
      BY DEF TInv
    <3> DEFINE Shifts(w, b, h) == w \o (r \o (b \o h)) = (w \o (r \o b)) \o h
    <3>a. \A w, b, h \in Seq(Nat) : Shifts(w, b, h)
      BY AppendLast
    <3> HIDE DEF Shifts
    <3>b. Shifts(wire, bio, held[t])
      BY <3>1, <3>a
    <3>2. wire \o (r \o (bio \o held[t])) = (wire \o (r \o bio)) \o held[t]
      BY <3>b, Zenon DEF Shifts
    <3>3. QED
      BY <2>1, <2>3, <3>2
  <2>4. ASSUME NEW u \in Threads, pc[u] = "sent" PROVE Rest(pending, count[u]) \in Seq(Nat)
    BY <2>4, Lengths DEF FlushInv, TInv
  <2>5. QED
    BY <2>1, <2>2, <2>3, <2>4 DEF KeptInv, TInv, Rest
<1>12. ASSUME NEW t \in Threads, NEW k \in 1..Room, SocketSend(t, k) PROVE KeptInv'
  <2>1. data[t] = pending /\ \A u \in Threads : pc[u] # "sent"
    BY <1>12 DEF SocketSend, FlushInv, Flushing
  <2>2. k \in 0..Len(pending) /\ wire' = wire \o SubSeq(pending, 1, k)
    BY <1>12, <2>1 DEF SocketSend, TInv
  <2>3. /\ UNCHANGED <<bio, pending, order>> /\ count' = [count EXCEPT ![t] = k]
        /\ pc' = [pc EXCEPT ![t] = "sent"]
    BY <1>12 DEF SocketSend
  <2>4. order = wire \o (pending \o bio)
    BY <2>1 DEF KeptInv
  <2> DEFINE front == SubSeq(pending, 1, k)
             rest == Rest(pending, k)
  <2>5. front \in Seq(Nat) /\ rest \in Seq(Nat) /\ front \o rest = pending
    BY <2>2, SplitAt, Lengths DEF TInv
  <2> HIDE DEF front, rest
  <2>a. wire \in Seq(Nat) /\ bio \in Seq(Nat)
    BY DEF TInv
  <2>b. rest \o bio \in Seq(Nat)
    BY <2>a, <2>5
  <2>c. (front \o rest) \o bio = front \o (rest \o bio)
    BY <2>a, <2>5, Regroup
  <2>6. pending \o bio = front \o (rest \o bio)
    BY <2>5, <2>c
  <2>7. (wire \o front) \o (rest \o bio) = wire \o (front \o (rest \o bio))
    BY <2>a, <2>b, <2>5, Regroup
  <2>8. order' = wire' \o (Rest(pending', k) \o bio')
    BY <2>2, <2>3, <2>4, <2>6, <2>7 DEF front, rest, Rest
  <2>9. \A u \in Threads : pc'[u] = "sent" <=> u = t
    BY <2>1, <2>3 DEF TInv
  <2>10. count'[t] = k
    BY <2>3 DEF TInv
  <2>11. QED
    BY <2>8, <2>9, <2>10 DEF KeptInv, Rest
<1>13. CASE PeerReads
  BY <1>13, KeptSame DEF PeerReads
<1>14. CASE UNCHANGED vars
  BY <1>14, KeptSame
<1>15. QED
  BY <1>1, <1>2, <1>3, <1>4, <1>5, <1>6, <1>7, <1>8, <1>9, <1>10, <1>11, <1>12, <1>13, <1>14
     DEF Next, Step

LEMMA KeptIsPrefix == TInv /\ FlushInv /\ KeptInv => FlushKeepsOrder
<1> SUFFICES ASSUME TInv, FlushInv, KeptInv PROVE wire = SubSeq(order, 1, Len(wire))
  BY DEF FlushKeepsOrder
<1>1. \E r \in Seq(Nat) : order = wire \o (r \o bio)
  <2>1. CASE \E t \in Threads : pc[t] = "sent"
    <3>1. PICK t \in Threads : pc[t] = "sent"
      BY <2>1
    <3>2. Rest(pending, count[t]) \in Seq(Nat)
      BY <3>1, Lengths DEF FlushInv, TInv
    <3>3. QED
      BY <3>1, <3>2 DEF KeptInv
  <2>2. CASE \A t \in Threads : pc[t] # "sent"
    BY <2>2 DEF KeptInv, TInv
  <2>3. QED
    BY <2>1, <2>2
<1>2. PICK r \in Seq(Nat) : order = wire \o (r \o bio)
  BY <1>1
<1>3. r \o bio \in Seq(Nat)
  BY DEF TInv
<1>4. QED
  BY <1>2, <1>3, PrefixOf DEF TInv

-----------------------------------------------------------------------------
(* The bounds *)

\* The senders that will still encrypt a record.
Reserving == {t \in Senders : pc[t] # "idle" /\ stage[t] = "before"}

\* Every cell that is anywhere was made.
CellsInv ==
  /\ engine \in Cells /\ bio \in Cells /\ pending \in Cells /\ wire \in Cells
  /\ order \in Cells
  /\ held \in [Threads -> Cells] /\ data \in [Threads -> Cells]
  /\ mine \in [Threads -> 0..made]

\* There is room for the cells still to come: who is about to encrypt has reserved them.
BoundInv ==
  /\ timeout \in Timeouts
  /\ room <= Room
  /\ made + Reserved <= MaxCells
  /\ \A t \in Threads : pc[t] = "inside" => stage[t] = "before"

LEMMA Within ==
  ASSUME NEW S, NEW s \in Seq(S), NEW k \in 0..Len(s)
  PROVE  SubSeq(s, 1, k) \in Seq(S) /\ Rest(s, k) \in Seq(S)
BY DEF Rest

LEMMA Larger ==
  ASSUME NEW a \in Nat, NEW b \in Nat, a <= b
  PROVE  Seq(1..a) \subseteq Seq(1..b) /\ 0..a \subseteq 0..b
<1>1. 1..a \subseteq 1..b /\ 0..a \subseteq 0..b
  OBVIOUS
<1>2. ASSUME NEW s \in Seq(1..a) PROVE s \in Seq(1..b)
  <2>1. Len(s) \in Nat /\ s \in [1..Len(s) -> 1..a]
    OBVIOUS
  <2>2. s \in [1..Len(s) -> 1..b]
    BY <1>1, <2>1
  <2>3. QED
    BY <2>1, <2>2
<1>3. QED
  BY <1>1, <1>2

LEMMA ReservedIs ==
  ASSUME IsFiniteSet(Senders)
  PROVE  /\ IsFiniteSet(Reserving) /\ Cardinality(Reserving) \in Nat
         /\ Reserved = RecordSize * Cardinality(Reserving) /\ Reserved \in Nat
<1>1. IsFiniteSet(Reserving)
  <2>1. Reserving \in SUBSET Senders
    BY DEF Reserving
  <2>2. QED
    BY <2>1, FS_Subset
<1>2. Cardinality(Reserving) \in Nat
  BY <1>1, FS_CardinalityType
<1>3. Reserved = RecordSize * Cardinality(Reserving)
  BY DEF Reserved, Reserving
<1>4. RecordSize \in Nat
  OBVIOUS
<1>5. QED
  BY <1>1, <1>2, <1>3, <1>4

\* A thread that goes on reserves no more; one more call, or a record made, is a record's worth.
LEMMA ReservedMoves ==
  ASSUME IsFiniteSet(Senders), NEW t \in Threads
  PROVE  /\ Reserved' \in Nat
         /\ Reserving' \subseteq Reserving => Reserved' <= Reserved
         /\ Reserving' \subseteq Reserving \union {t} => Reserved' <= Reserved + RecordSize
         /\ t \in Reserving /\ Reserving' \subseteq Reserving \ {t} => Reserved' + RecordSize <= Reserved
<1> DEFINE A == Reserving
           B == Reserving'
           r == RecordSize
<1>1. /\ IsFiniteSet(A) /\ Cardinality(A) \in Nat /\ Reserved = r * Cardinality(A)
  BY ReservedIs
<1>2. /\ IsFiniteSet(B) /\ Cardinality(B) \in Nat /\ Reserved' = r * Cardinality(B)
  <2>1. B \in SUBSET Senders
    BY DEF Reserving
  <2>2. IsFiniteSet(B)
    BY <2>1, FS_Subset
  <2>3. Reserved' = r * Cardinality(B)
    BY DEF Reserved, Reserving
  <2>4. QED
    BY <2>2, <2>3, FS_CardinalityType
<1> HIDE DEF A, B
<1>3. r \in Nat
  OBVIOUS
<1> HIDE DEF r
<1>4. \A a, b \in Nat : a <= b => r * a <= r * b
  BY <1>3
<1>5. \A a \in Nat : r * (a + 1) = r * a + r
  BY <1>3
<1>6. B \subseteq A => Reserved' <= Reserved
  BY <1>1, <1>2, <1>4, FS_Subset
<1>7. B \subseteq A \union {t} => Reserved' <= Reserved + r
  <2>1. ASSUME B \subseteq A \union {t} PROVE Cardinality(B) <= Cardinality(A) + 1
    <3>1. /\ IsFiniteSet(A \union {t}) /\ Cardinality(A \union {t}) \in Nat
          /\ Cardinality(A \union {t}) <= Cardinality(A) + 1
      <4>1. /\ IsFiniteSet(A \union {t})
            /\ Cardinality(A \union {t}) = IF t \in A THEN Cardinality(A) ELSE Cardinality(A) + 1
        BY <1>1, FS_AddElement
      <4>2. QED
        BY <1>1, <4>1
    <3>2. Cardinality(B) <= Cardinality(A \union {t})
      BY <2>1, <3>1, FS_Subset
    <3>3. QED
      BY <1>1, <1>2, <3>1, <3>2
  <2>2. Cardinality(A) + 1 \in Nat
    BY <1>1
  <2>3. r * (Cardinality(A) + 1) = Reserved + r
    BY <1>1, <1>5
  <2>4. QED
    BY <1>1, <1>2, <1>4, <2>1, <2>2, <2>3
<1>8. t \in A /\ B \subseteq A \ {t} => Reserved' + r <= Reserved
  <2>1. ASSUME t \in A, B \subseteq A \ {t} PROVE Cardinality(B) + 1 <= Cardinality(A)
    <3>1. IsFiniteSet(A \ {t}) /\ Cardinality(A \ {t}) = Cardinality(A) - 1
      BY <1>1, <2>1, FS_RemoveElement
    <3>2. Cardinality(B) <= Cardinality(A \ {t})
      BY <2>1, <3>1, FS_Subset
    <3>3. QED
      BY <1>1, <1>2, <3>1, <3>2
  <2>2. Cardinality(B) + 1 \in Nat
    BY <1>2
  <2>3. r * (Cardinality(B) + 1) = Reserved' + r
    BY <1>2, <1>5
  <2>4. QED
    BY <1>1, <1>2, <1>4, <2>1, <2>2, <2>3
<1>9. Reserved' \in Nat
  BY <1>2, <1>3
<1>10. QED
  BY <1>6, <1>7, <1>8, <1>9 DEF A, B, r

\* A step that does not encrypt moves the cells there are.
LEMMA CellsStep == TInv /\ FlushInv /\ CellsInv /\ [Next]_vars => CellsInv'
<1> SUFFICES ASSUME TInv, FlushInv, CellsInv, [Next]_vars PROVE CellsInv'
  OBVIOUS
<1> DEFINE S == 1..made
           M == 0..made
           Moves == /\ made' = made
                    /\ engine' \in Seq(S) /\ bio' \in Seq(S) /\ pending' \in Seq(S) /\ wire' \in Seq(S)
                    /\ order' \in Seq(S)
                    /\ held' \in [Threads -> Seq(S)] /\ data' \in [Threads -> Seq(S)]
                    /\ mine' \in [Threads -> M]
<1>1. /\ engine \in Seq(S) /\ bio \in Seq(S) /\ pending \in Seq(S) /\ wire \in Seq(S)
      /\ held \in [Threads -> Seq(S)] /\ data \in [Threads -> Seq(S)] /\ mine \in [Threads -> M]
      /\ <<>> \in Seq(S) /\ order \in Seq(S)
  BY DEF CellsInv, Cells
<1>2. Moves => CellsInv'
  BY DEF CellsInv, Cells
<1>3. ASSUME NEW t \in Threads, Engine(t) PROVE CellsInv'
  <2>1. PICK size \in (IF t \in Senders THEN {RecordSize} ELSE {0, 1}) :
          /\ made' = made + size
          /\ engine' = engine \o Span(made, made + size)
          /\ mine' = IF t \in Senders THEN [mine EXCEPT ![t] = made + size] ELSE mine
    BY <1>3 DEF Engine, Counted
  <2>2. size \in Nat /\ made \in Nat
    BY <2>1 DEF TInv
  <2> DEFINE b == made + size
             W == 1..b
  <2>3. b \in Nat /\ made <= b
    BY <2>2
  <2>4. Seq(S) \subseteq Seq(W) /\ M \subseteq 0..b
    BY <2>2, <2>3, Larger
  <2>5. Span(made, b) \in Seq(W)
    <3>1. b - made = size
      BY <2>2
    <3>2. \A i \in 1..size : made + i \in W
      BY <2>2
    <3>3. Span(made, b) = [i \in 1..size |-> made + i]
      BY <3>1 DEF Span
    <3> HIDE DEF W, b
    <3>4. QED
      BY <2>2, <3>2, <3>3
  <2>6. mine' \in [Threads -> 0..b]
    <3>1. b \in 0..b
      BY <2>3
    <3> HIDE DEF b
    <3>2. mine \in [Threads -> 0..b]
      BY <1>1, <2>4
    <3>3. mine' = [mine EXCEPT ![t] = b] \/ mine' = mine
      BY <2>1 DEF b
    <3>4. QED
      BY <3>1, <3>2, <3>3
  <2>7. UNCHANGED <<bio, pending, wire, order, held, data>> /\ made' = b /\ engine' = engine \o Span(made, b)
    BY <1>3, <2>1 DEF Engine
  <2> HIDE DEF b, W, S, M
  <2>8. engine' \in Seq(W)
    BY <1>1, <2>4, <2>5, <2>7
  <2>9. /\ bio' \in Seq(W) /\ pending' \in Seq(W) /\ wire' \in Seq(W) /\ order' \in Seq(W)
        /\ held' \in [Threads -> Seq(W)] /\ data' \in [Threads -> Seq(W)]
    BY <1>1, <2>4, <2>7
  <2>10. QED
    BY <2>6, <2>7, <2>8, <2>9 DEF CellsInv, Cells, W
<1> HIDE DEF S, M
<1>4. ASSUME UNCHANGED <<made, engine, bio, pending, wire, order, held, data, mine>> PROVE Moves
  BY <1>1, <1>4
<1>5. ASSUME NEW t \in Threads, NEW what \in {"send", "sendall", "recv"}, Call(t, what) PROVE Moves
  BY <1>4, <1>5 DEF Call
<1>6. ASSUME NEW t \in Threads, Block(t) \/ Refused(t) \/ SocketFull(t) \/ Enter(t) PROVE Moves
  BY <1>4, <1>6 DEF Block, Refused, SocketFull, Enter
<1>7. ASSUME NEW t \in Threads, Load(t) PROVE Moves
  <2> DEFINE k == Least(WriteBuffer, Len(bio))
  <2>1. k \in 0..Len(bio)
    BY DEF TInv
  <2>2. SubSeq(bio, 1, k) \in Seq(S) /\ Rest(bio, k) \in Seq(S)
    BY <1>1, <2>1, Within
  <2>3. \/ pending' = SubSeq(bio, 1, k) /\ bio' = Rest(bio, k)
        \/ UNCHANGED <<pending, bio>>
    BY <1>7 DEF Load
  <2>4. data' = [data EXCEPT ![t] = pending'] /\ UNCHANGED <<made, engine, wire, order, held, mine>>
    BY <1>7 DEF Load
  <2> HIDE DEF k
  <2>5. pending' \in Seq(S) /\ bio' \in Seq(S)
    BY <1>1, <2>2, <2>3
  <2>6. QED
    BY <1>1, <2>4, <2>5
<1>8. ASSUME NEW t \in Threads, DeleteSent(t) PROVE Moves
  <2>1. count[t] \in 0..Len(pending)
    BY <1>8 DEF DeleteSent, FlushInv, TInv
  <2>2. Rest(pending, count[t]) \in Seq(S)
    BY <1>1, <2>1, Within
  <2>3. pending' = Rest(pending, count[t]) /\ UNCHANGED <<made, engine, bio, wire, order, held, data, mine>>
    BY <1>8 DEF DeleteSent
  <2>4. QED
    BY <1>1, <2>2, <2>3
<1>9. ASSUME NEW t \in Threads, Leave(t) PROVE Moves
  <2>1. data' = [data EXCEPT ![t] = <<>>] /\ UNCHANGED <<made, engine, bio, pending, wire, order, held, mine>>
    BY <1>9 DEF Leave
  <2>2. QED
    BY <1>1, <2>1
<1>10. ASSUME NEW t \in Threads, WriteTls(t) PROVE Moves
  <2>1. /\ held' = [held EXCEPT ![t] = engine] /\ engine' = <<>>
        /\ UNCHANGED <<made, bio, pending, wire, order, data, mine>>
    BY <1>10 DEF WriteTls
  <2>2. QED
    BY <1>1, <2>1
<1>11. ASSUME NEW t \in Threads, OutgoingWrite(t) PROVE Moves
  <2>1. /\ held' = [held EXCEPT ![t] = <<>>] /\ bio' = bio \o held[t] /\ order' = order \o held[t]
        /\ UNCHANGED <<made, engine, pending, wire, data, mine>>
    BY <1>11 DEF OutgoingWrite
  <2>2. held[t] \in Seq(S)
    BY <1>1
  <2>3. bio \o held[t] \in Seq(S) /\ order \o held[t] \in Seq(S)
    BY <1>1, <2>2
  <2>4. QED
    BY <1>1, <2>1, <2>3
<1>12. ASSUME NEW t \in Threads, NEW k \in 1..Room, SocketSend(t, k) PROVE Moves
  <2>1. data[t] \in Seq(S) /\ Len(data[t]) \in Nat
    BY <1>1
  <2>2. k \in 0..Len(data[t])
    BY <1>12, <2>1 DEF SocketSend, TInv
  <2>3. SubSeq(data[t], 1, k) \in Seq(S)
    BY <2>1, <2>2, Within
  <2>4. /\ wire' = wire \o SubSeq(data[t], 1, k)
        /\ UNCHANGED <<made, engine, bio, pending, order, held, data, mine>>
    BY <1>12 DEF SocketSend
  <2>5. wire' \in Seq(S)
    BY <1>1, <2>3, <2>4
  <2>6. QED
    BY <1>1, <2>4, <2>5
<1>13. ASSUME PeerReads \/ UNCHANGED vars PROVE Moves
  BY <1>4, <1>13 DEF PeerReads
<1> HIDE DEF Moves
<1>14. QED
  BY <1>2, <1>3, <1>5, <1>6, <1>7, <1>8, <1>9, <1>10, <1>11, <1>12, <1>13 DEF Next, Step

LEMMA BoundStep ==
  ASSUME IsFiniteSet(Senders)
  PROVE  TInv /\ BoundInv /\ [Next]_vars => BoundInv'
<1> SUFFICES ASSUME TInv, BoundInv, [Next]_vars PROVE BoundInv'
  OBVIOUS
<1> DEFINE old == Reserved
           new == Reserved'
<1>1. /\ timeout \in Timeouts /\ room \in Nat /\ room <= Room /\ made \in Nat
      /\ made + old <= MaxCells /\ old \in Nat
      /\ pc \in [Threads -> PCs] /\ stage \in [Threads -> {"before", "after", "final"}]
      /\ \A t \in Threads : pc[t] = "inside" => stage[t] = "before"
  BY ReservedIs DEF TInv, BoundInv, old
<1> HIDE DEF old, new
<1>0. \A a, b, c, d \in Nat : a + b <= MaxCells /\ c <= a /\ d <= b => c + d <= MaxCells
  OBVIOUS
<1> DEFINE Goes(t) == /\ UNCHANGED <<timeout, made>> /\ room' <= Room
                      /\ \A u \in Threads \ {t} : pc'[u] = pc[u] /\ stage'[u] = stage[u]
                      /\ pc'[t] = "idle" \/ stage'[t] # "before"
                           \/ (pc[t] # "idle" /\ stage[t] = "before")
                      /\ pc'[t] = "inside" => stage'[t] = "before"
<1>2. ASSUME NEW t \in Threads, Goes(t) PROVE BoundInv'
  <2>1. Reserving' \subseteq Reserving
    BY <1>2 DEF Reserving
  <2>2. new \in Nat /\ new <= old
    BY <2>1, ReservedMoves DEF old, new
  <2>3. made' + new <= MaxCells
    <3>1. made' = made
      BY <1>2
    <3>2. QED
      BY <1>0, <1>1, <2>2, <3>1
  <2>4. \A u \in Threads : pc'[u] = "inside" => stage'[u] = "before"
    BY <1>1, <1>2
  <2>5. QED
    BY <1>1, <1>2, <2>3, <2>4 DEF BoundInv, new
<1>3. ASSUME NEW t \in Threads, NEW what \in {"send", "sendall", "recv"}, Call(t, what)
      PROVE  BoundInv'
  <2>1. /\ pc' = [pc EXCEPT ![t] = "wait"] /\ stage' = [stage EXCEPT ![t] = "before"]
        /\ UNCHANGED <<timeout, made, room>>
        /\ t \in Receivers \/ made + old + RecordSize <= MaxCells
    BY <1>3 DEF Call, old
  <2>2. Reserving' \subseteq Reserving \union {t} /\ (t \in Receivers => Reserving' \subseteq Reserving)
    BY <1>1, <2>1 DEF Reserving
  <2>3. /\ new \in Nat /\ new <= old + RecordSize
        /\ t \in Receivers => new <= old
    BY <2>2, ReservedMoves DEF old, new
  <2>4. made' + new <= MaxCells
    <3>1. made' = made /\ RecordSize \in Nat
      BY <2>1
    <3>2. CASE t \in Receivers
      BY <1>0, <1>1, <2>3, <3>1, <3>2
    <3>3. CASE t \notin Receivers
      <4>1. made + old + RecordSize <= MaxCells
        BY <2>1, <3>3
      <4>2. made \in Nat /\ old \in Nat /\ new \in Nat /\ new <= old + RecordSize
        BY <1>1, <2>3
      <4>3. QED
        BY <3>1, <4>1, <4>2
    <3>4. QED
      BY <3>2, <3>3
  <2>5. \A u \in Threads : pc'[u] = "inside" => stage'[u] = "before"
    BY <1>1, <2>1
  <2>6. QED
    BY <1>1, <2>1, <2>4, <2>5 DEF BoundInv, new
<1>4. ASSUME NEW t \in Threads, Engine(t) PROVE BoundInv'
  <2>1. PICK size \in (IF t \in Senders THEN {RecordSize} ELSE {0, 1}) :
          /\ t \in Receivers /\ size = 1 => made + old + size <= MaxCells
          /\ made' = made + size
    BY <1>4 DEF Engine, Counted, old
  <2>2. /\ pc[t] = "inside" /\ pc' = [pc EXCEPT ![t] = "take"]
        /\ stage' = [stage EXCEPT ![t] = "after"] /\ UNCHANGED <<timeout, room>>
    BY <1>4 DEF Engine
  <2>3. Reserving' \subseteq Reserving \ {t} /\ (t \in Senders => t \in Reserving)
    BY <1>1, <2>2 DEF Reserving
  <2>4. new \in Nat /\ new <= old /\ (t \in Senders => new + RecordSize <= old)
    BY <2>3, ReservedMoves DEF old, new
  <2>5. made' + new <= MaxCells
    <3>1. CASE t \in Senders
      <4>1. made' = made + RecordSize /\ RecordSize \in Nat
        BY <2>1, <3>1
      <4>2. /\ made \in Nat /\ old \in Nat /\ new \in Nat
            /\ made + old <= MaxCells /\ new + RecordSize <= old
        BY <1>1, <2>4, <3>1
      <4>3. QED
        BY <4>1, <4>2
    <3>2. CASE t \notin Senders
      <4>1. t \in Receivers /\ size \in {0, 1}
        BY <2>1, <3>2
      <4>2. /\ made \in Nat /\ old \in Nat /\ new \in Nat
            /\ made + old <= MaxCells /\ new <= old
        BY <1>1, <2>4
      <4>3. made' = made + size /\ (size = 1 => made + old + size <= MaxCells)
        BY <2>1, <4>1
      <4>4. CASE size = 0
        <5>1. made' = made
          BY <4>2, <4>3, <4>4
        <5>2. QED
          BY <1>0, <4>2, <5>1
      <4>5. CASE size = 1
        BY <4>2, <4>3, <4>5
      <4>6. QED
        BY <4>1, <4>4, <4>5
    <3>3. QED
      BY <3>1, <3>2
  <2>6. \A u \in Threads : pc'[u] = "inside" => stage'[u] = "before"
    BY <1>1, <2>2
  <2>7. QED
    BY <1>1, <2>2, <2>5, <2>6 DEF BoundInv, new
<1>5. ASSUME NEW t \in Threads, Block(t) \/ Enter(t) \/ Load(t) \/ SocketFull(t) \/ DeleteSent(t)
      PROVE  Goes(t)
  <2>1. PICK where \in {"blocked", "load", "leave", "send"} : pc' = [pc EXCEPT ![t] = where]
    BY <1>5 DEF Block, Enter, Load, SocketFull, DeleteSent
  <2>2. UNCHANGED <<timeout, made, room, stage>> /\ pc[t] # "idle"
    BY <1>5 DEF Block, Enter, Load, SocketFull, DeleteSent
  <2>3. QED
    BY <1>1, <2>1, <2>2
<1>6. ASSUME NEW t \in Threads, WriteTls(t) \/ OutgoingWrite(t) PROVE Goes(t)
  <2>1. PICK where \in {"put", "wait", "idle", "take"} : pc' = [pc EXCEPT ![t] = where]
    BY <1>6 DEF WriteTls, OutgoingWrite
  <2>2. UNCHANGED <<timeout, made, room, stage>> /\ pc[t] # "idle"
    BY <1>6 DEF WriteTls, OutgoingWrite
  <2>3. QED
    BY <1>1, <2>1, <2>2
<1>7. ASSUME NEW t \in Threads, NEW k \in 1..Room, SocketSend(t, k) PROVE Goes(t)
  <2>1. /\ pc' = [pc EXCEPT ![t] = "sent"] /\ pc[t] = "send" /\ room' = room - k
        /\ UNCHANGED <<timeout, made, stage>>
    BY <1>7 DEF SocketSend
  <2>2. room' <= Room
    BY <1>1, <2>1
  <2>3. QED
    BY <1>1, <2>1, <2>2
<1>8. ASSUME NEW t \in Threads, Refused(t) \/ Leave(t) PROVE Goes(t)
  <2>1. PICK f : AfterFlush(t, f)
    BY <1>8 DEF Refused, Leave
  <2>2. UNCHANGED <<timeout, made, room>> /\ pc[t] # "idle"
    BY <1>8 DEF Refused, Leave
  <2>3. \A u \in Threads \ {t} : pc'[u] = pc[u] /\ stage'[u] = stage[u]
    BY <1>1, <2>1 DEF AfterFlush
  <2>4. pc'[t] = "inside" => stage[t] = "before" /\ stage'[t] = stage[t]
    BY <1>1, <2>1 DEF AfterFlush
  <2>5. stage'[t] = stage[t] \/ stage'[t] = "final"
    BY <1>1, <2>1 DEF AfterFlush
  <2>6. QED
    BY <1>1, <2>2, <2>3, <2>4, <2>5
<1>9. ASSUME PeerReads \/ UNCHANGED vars PROVE BoundInv'
  <2>1. UNCHANGED <<timeout, made, pc, stage>> /\ room' <= Room
    BY <1>1, <1>9 DEF PeerReads
  <2>2. new = old
    BY <2>1 DEF Reserved, old, new
  <2>3. QED
    BY <1>1, <2>1, <2>2 DEF BoundInv, new
<1> HIDE DEF Goes
<1>10. QED
  BY <1>2, <1>3, <1>4, <1>5, <1>6, <1>7, <1>8, <1>9 DEF Next, Step

-----------------------------------------------------------------------------
(* Theorems *)

LEMMA Initially == Init => IInv
<1> SUFFICES ASSUME Init PROVE IInv
  OBVIOUS
<1> USE DEF Init
<1>1. TInv
  BY DEF TInv, PCs
<1>2. FlushInv
  BY DEF FlushInv, Flushing
<1>3. InsideInv
  BY DEF InsideInv, Inside
<1>4. OrderInv
  BY DEF OrderInv, Order, Out, Run, Inside
<1>5. DoneInv
  BY DEF DoneInv
<1>6. QED
  BY <1>1, <1>2, <1>3, <1>4, <1>5 DEF IInv, CleanInv

LEMMA Inductive == Spec => []IInv
<1>1. IInv /\ [Next]_vars => IInv'
  BY TypeStep, FlushStep, CrossedStep, InsideStep, OrderStep, DoneStep DEF IInv, CleanInv
<1>2. QED
  BY Initially, <1>1, PTL DEF Spec

\* Whatever sends are partial, refused or timed out and whoever flushes, what is put into
\* the BIO goes to the peer once, in that order.
THEOREM OrderIsKept == Spec => []FlushKeepsOrder
<1>1. Init => TInv /\ FlushInv /\ KeptInv
  BY Initially, KeptFirst DEF IInv
<1>2. TInv /\ FlushInv /\ KeptInv /\ [Next]_vars => (TInv /\ FlushInv /\ KeptInv)'
  BY TypeStep, FlushStep, KeptStep
<1>3. TInv /\ FlushInv /\ KeptInv => FlushKeepsOrder
  BY KeptIsPrefix
<1>4. QED
  BY <1>1, <1>2, <1>3, PTL DEF Spec

\* And in the order of encryption, until two threads have been between rustls and the BIO
\* at once.
THEOREM WireIsInOrder == Spec => []WireInOrder
<1>1. IInv => WireInOrder
  BY RunIsSpan DEF IInv, CleanInv, TInv, OrderInv, WireInOrder
<1>2. QED
  BY Inductive, <1>1, PTL

\* One thread flushes at a time, the flag says so, and it sends what is pending.
THEOREM FlushIsOne == Spec => []OneFlush
<1>1. Init => TInv /\ FlushInv
  BY Initially DEF IInv
<1>2. TInv /\ FlushInv /\ [Next]_vars => (TInv /\ FlushInv)'
  BY TypeStep, FlushStep
<1>3. ASSUME FlushInv PROVE OneFlush
  <2>1. busy = \E t \in Threads : Flushing(t)
    BY <1>3, Zenon DEF FlushInv
  <2>2. QED
    BY <1>3, <2>1 DEF FlushInv, OneFlush
<1>4. FlushInv => OneFlush
  BY <1>3
<1>5. QED
  BY <1>1, <1>2, <1>4, PTL DEF Spec

\* sendall returns only when all that it was given is sent, until two threads have been
\* between rustls and the BIO at once.
THEOREM SendAllIsComplete == Spec => []SendAllCompletes
<1>1. IInv => SendAllCompletes
  BY DEF IInv, CleanInv, DoneInv, SendAllCompletes
<1>2. QED
  BY Inductive, <1>1, PTL

\* A thread encrypts its next record only when its last one is sent, with the same proviso.
THEOREM OneRecordPerThread == Spec => []OneRecordEach
<1>1. IInv => OneRecordEach
  BY DEF IInv, CleanInv, DoneInv, OneRecordEach
<1>2. QED
  BY Inductive, <1>1, PTL

\* Every cell in rustls, the BIO, the pending ciphertext, the hands of a thread or the
\* network was made by a call of the engine, and the bounds are kept.
THEOREM TypeCorrect == ASSUME IsFiniteSet(Senders) PROVE Spec => []TypeOK
<1>1. Init => TInv /\ FlushInv /\ CellsInv /\ BoundInv /\ crossed \in BOOLEAN
  <2> SUFFICES ASSUME Init PROVE TInv /\ FlushInv /\ CellsInv /\ BoundInv /\ crossed \in BOOLEAN
    OBVIOUS
  <2>1. TInv /\ FlushInv
    BY Initially DEF IInv
  <2>2. CellsInv
    <3>1. <<>> \in Cells /\ 0 \in 0..made
      BY DEF Init, Cells
    <3>2. QED
      BY <3>1 DEF Init, CellsInv
  <2>3. Reserved = 0
    <3>1. Reserving = {}
      BY DEF Init, Reserving
    <3>2. Cardinality({}) = 0
      BY FS_EmptySet
    <3>3. Reserved = RecordSize * 0
      BY <3>1, <3>2, ReservedIs
    <3>4. QED
      BY <3>3
  <2>4. BoundInv
    <3>1. made = 0 /\ room = Room /\ timeout \in Timeouts
          /\ \A t \in Threads : pc[t] # "inside"
      BY DEF Init
    <3>2. QED
      BY <2>3, <3>1 DEF BoundInv
  <2>5. QED
    BY <2>1, <2>2, <2>4 DEF Init
<1>2. /\ TInv /\ FlushInv /\ CellsInv /\ BoundInv /\ crossed \in BOOLEAN /\ [Next]_vars
      => (TInv /\ FlushInv /\ CellsInv /\ BoundInv /\ crossed \in BOOLEAN)'
  BY TypeStep, FlushStep, CellsStep, BoundStep, CrossedStep
<1>3. ASSUME TInv, FlushInv, CellsInv, BoundInv, crossed \in BOOLEAN PROVE TypeOK
  <2>1. made <= MaxCells
    <3>1. made \in Nat /\ Reserved \in Nat /\ made + Reserved <= MaxCells
      BY <1>3, ReservedIs DEF TInv, BoundInv
    <3>2. QED
      BY <3>1
  <2>2. busy \in BOOLEAN
    BY <1>3 DEF FlushInv
  <2>3. made \in 0..MaxCells /\ room \in 0..Room
    BY <1>3, <2>1 DEF TInv, BoundInv
  <2>4. QED
    BY <1>3, <2>2, <2>3 DEF TInv, CellsInv, BoundInv, TypeOK, PCs
<1>4. TInv /\ FlushInv /\ CellsInv /\ BoundInv /\ crossed \in BOOLEAN => TypeOK
  BY <1>3
<1>5. QED
  BY <1>1, <1>2, <1>4, PTL DEF Spec
=============================================================================
