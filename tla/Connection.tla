----------------------------- MODULE Connection ------------------------------
(***************************************************************************)
(* What is below the messages of the other modules: a client and the server *)
(* as the two ends of a TCP connection (class TcpClient at both ends), the  *)
(* framing of messages (ProtobufMessage), the pools their buffers are taken *)
(* from (ProtobufMessageQueue), and the connection in memory that replaces  *)
(* it in the debug program (DebugClientOnServer, DebugClientOnNetwork).     *)
(*                                                                         *)
(* A message is a header of two bytes, the size of the body, and the body.  *)
(* A byte has Base values; what is in a body decides nothing until a reader *)
(* that is out of step takes it for a header.                               *)
(***************************************************************************)
EXTENDS Integers, Sequences, FiniteSets

CONSTANTS
  Base,  \* the number of values of a byte: 256 in the code
  Plans  \* what happens to a connection: one of these

ASSUME ConnectionAssumption ==
  /\ Base \in Nat \ {0, 1}
  /\ Plans \subseteq
       [transport : {"tcp", "debug"},
        sizes : SUBSET (1 .. Base * Base - 1),  \* of the bodies that are sent: none is empty
        messages : Nat,                         \* how many are sent, at most
        losses : Nat,                           \* how often the connection breaks
        sliced : BOOLEAN,  \* the exception of a failed read is not caught, as in the code
        shortReads : BOOLEAN,  \* a read may return less than was asked for
        parts : BOOLEAN]       \* a write may be done in parts

End == {"client", "server"}
Other(e) == IF e = "client" THEN "server" ELSE "client"

VARIABLES
  plan,       \* what is left of the plan
  tcpClient,  \* connected_ and isStopped_ of the client's end
  listening,  \* the coroutines that read: Network::run and handleClientSession
  writing,    \* the async_writes of each end that are not done: the bytes left of each
  wire,       \* what is on the way to each end: bytes, or messages in memory
  wanted,     \* what each end reads next: a header, or a body of this size
  sent,       \* the sizes of the messages an end has sent on this connection
  received,   \* the messages that came to an end: their numbers, or Garbage
  causes,     \* what has happened on the way to an end that may put it out of step
  pools       \* the pools of buffers

vars == <<plan, tcpClient, listening, writing, wire, wanted, sent, received, causes, pools>>
clientVars == <<tcpClient, listening>>

Header == -1
Garbage == 0

-----------------------------------------------------------------------------
(* ProtobufMessage *)

Byte(message, at, value) == [of |-> message, at |-> at, value |-> value]

\* What a byte of a body is when it is taken for a part of a header.
Content == 1

\* Mutant of setBuffer: the bytes of the size are swapped.
setBufferSwapped(message, size) ==
  [i \in 1 .. size + 2 |->
     Byte(message, i, CASE i = 2 -> size \div Base [] i = 1 -> size % Base [] OTHER -> Content)]

\* The size is written to the base of Base (defineBodySize), ...
setBuffer(message, size) ==
  [i \in 1 .. size + 2 |->
     Byte(message, i, CASE i = 1 -> size \div Base [] i = 2 -> size % Base [] OTHER -> Content)]

\* Mutant of getBodySize: the header is a part of the size.
getBodySizeWithHeader(header) == header[1].value + header[Len(header)].value + Len(header)

\* ... and read to the base of one less.  A header of which one byte came has 0 for the other.
getBodySize(header) ==
  (Base - 1) * header[1].value + (IF Len(header) = 2 THEN header[2].value ELSE 0)

\* A body is parsed into the message it is of; anything else is rejected or makes some other message.
Parsed(e, body) ==
  LET whole == {k \in DOMAIN sent[Other(e)] :
                  body = SubSeq(setBuffer(k, sent[Other(e)][k]), 3, sent[Other(e)][k] + 2)}
  IN  IF body = << >> THEN {<< >>}
      ELSE IF whole # {} THEN {<<k>> : k \in whole}
      ELSE {<< >>, <<Garbage>>}

-----------------------------------------------------------------------------
(* ProtobufMessageQueue *)

\* free: the buffers in the queue; out: those taken from it and not given up; peak: the most that
\* were out at once.
Pool == [free : Nat, out : Nat, peak : Nat]

EmptyPool == [free |-> 0, out |-> 0, peak |-> 0]

\* A buffer is made when there is none.
acquire(pool) ==
  [free |-> IF pool.free = 0 THEN 0 ELSE pool.free - 1,
   out  |-> pool.out + 1,
   peak |-> IF pool.out + 1 > pool.peak THEN pool.out + 1 ELSE pool.peak]

\* n buffers are given up, and m of them go back to the queue.
GivenUp(pool, n, m) == [pool EXCEPT !.out = IF @ > n THEN @ - n ELSE 0, !.free = @ + m]

\* Mutant of release: the buffer is copied into the queue, and the copy that was out stays.
releaseCopy(pool) == [pool EXCEPT !.free = @ + 1]

release(pool) == GivenUp(pool, 1, 1)

\* Where an end takes the buffer of a message it sends from, and where the TcpClient that has
\* written it puts it: the server takes it from its own queue, and its TcpClients have theirs.
PoolOfSend(e) == IF plan.transport = "debug" THEN "debug" ELSE e
PoolOfWritten(e) == IF e = "client" THEN "client" ELSE "session"

-----------------------------------------------------------------------------

TypeOK ==
  /\ tcpClient \in [connected : BOOLEAN, isStopped : BOOLEAN]
  /\ listening \in [End -> BOOLEAN]
  /\ \A e \in End :
       /\ \A k \in DOMAIN writing[e] : writing[e][k] # << >>
       /\ wanted[e] \in {Header} \cup 0 .. Base * Base
       /\ received[e] \in Seq(Nat)
       /\ causes[e] \subseteq {"short read", "mixed writes", "large message"}
  /\ pools \in [{"client", "server", "session", "debug"} -> Pool]

NoBytes == [e \in End |-> << >>]
NewReads == [e \in End |-> Header]
NoCauses == [e \in End |-> {}]

\* In memory both ends are there from the start (addClient), and the server listens (run).
InMemory == plan.transport = "debug"

\* connectToServer and Network::start: the client waits for the connection, with a buffer to read
\* into.
Init ==
  /\ plan \in Plans
  /\ tcpClient = [connected |-> InMemory, isStopped |-> FALSE]
  /\ listening = [e \in End |-> e = "client" \/ InMemory]
  /\ writing = NoBytes /\ wire = NoBytes /\ wanted = NewReads
  /\ sent = NoBytes /\ received = NoBytes /\ causes = NoCauses
  /\ pools = [p \in {"client", "server", "session", "debug"} |-> EmptyPool]

-----------------------------------------------------------------------------
(* TcpClient *)

\* connect, and the session the server starts for it (spawnCoroutine, useExistingSocket), whose
\* TcpClient has a queue of its own.  An attempt that fails is made again after three seconds.
Connect ==
  /\ plan.transport = "tcp"
  /\ ~tcpClient.connected /\ ~tcpClient.isStopped
  /\ tcpClient' = [tcpClient EXCEPT !.connected = TRUE]
  /\ listening' = [listening EXCEPT !["server"] = TRUE]
  /\ pools' = [pools EXCEPT !["session"] = acquire(EmptyPool),
                            !["client"] = IF listening["client"] THEN acquire(@) ELSE @]
  /\ wire' = NoBytes /\ wanted' = NewReads
  /\ sent' = NoBytes /\ received' = NoBytes /\ causes' = NoCauses
  /\ UNCHANGED <<plan, writing>>

\* send.  Without a connection the write fails and the buffer goes back.
Send(e, size) ==
  LET k == Len(sent[e]) + 1 IN
    /\ plan.transport = "tcp"
    /\ plan.messages > 0 /\ size \in plan.sizes
    /\ e = "server" => tcpClient.connected
    /\ plan' = [plan EXCEPT !.messages = @ - 1]
    /\ IF tcpClient.connected
         THEN /\ sent' = [sent EXCEPT ![e] = Append(@, size)]
              /\ writing' = [writing EXCEPT ![e] = Append(@, setBuffer(k, size))]
              /\ pools' = [pools EXCEPT ![PoolOfSend(e)] = acquire(@)]
              /\ causes' = [causes EXCEPT ![Other(e)] =
                              IF size >= Base THEN @ \cup {"large message"} ELSE @]
         ELSE /\ pools' = [pools EXCEPT !["client"] = release(acquire(@))]
              /\ UNCHANGED <<sent, writing, causes>>
    /\ UNCHANGED <<clientVars, wire, wanted, received>>

Started(bytes) == bytes # << >> /\ Head(bytes).at > 1

Without(seq, k) == SubSeq(seq, 1, k - 1) \o SubSeq(seq, k + 1, Len(seq))

\* The k-th async_write writes the next n of its bytes: those that have written a part before are
\* in no order, the others are in theirs.
Write(e, k, n) ==
  LET bytes == writing[e][k]
      rest  == SubSeq(bytes, n + 1, Len(bytes))
  IN  /\ Started(bytes) \/ \A j \in 1 .. k - 1 : Started(writing[e][j])
      /\ n = Len(bytes) \/ plan.parts
      /\ wire' = [wire EXCEPT ![Other(e)] = @ \o SubSeq(bytes, 1, n)]
      /\ causes' = [causes EXCEPT ![Other(e)] =
           IF \E j \in DOMAIN writing[e] \ {k} : Started(writing[e][j]) THEN @ \cup {"mixed writes"} ELSE @]
      /\ IF rest = << >>
           THEN /\ writing' = [writing EXCEPT ![e] = Without(@, k)]
                /\ pools' = [pools EXCEPT ![PoolOfWritten(e)] = release(@)]
           ELSE /\ writing' = [writing EXCEPT ![e][k] = rest]
                /\ UNCHANGED pools
      /\ UNCHANGED <<plan, clientVars, wanted, sent, received>>

WriteSome(e) == \E k \in DOMAIN writing[e] : \E n \in 1 .. Len(writing[e][k]) : Write(e, k, n)

\* How many bytes a read that asks for n returns.
Readable(e, n) ==
  CASE n = 0 -> {0}
    [] plan.shortReads -> {m \in 1 .. n : m <= Len(wire[e])}
    [] OTHER -> {n} \cap 1 .. Len(wire[e])

Take(e, asked, n) ==
  /\ wire' = [wire EXCEPT ![e] = SubSeq(@, n + 1, Len(@))]
  /\ causes' = [causes EXCEPT ![e] = IF n < asked THEN @ \cup {"short read"} ELSE @]

\* The two reads of asyncRead: what they return is not looked at.
ReadHeader(e) ==
  /\ plan.transport = "tcp" /\ tcpClient.connected
  /\ listening[e] /\ wanted[e] = Header
  /\ \E n \in Readable(e, 2) :
       /\ Take(e, 2, n)
       /\ wanted' = [wanted EXCEPT ![e] = getBodySize(SubSeq(wire[e], 1, n))]
  /\ UNCHANGED <<plan, clientVars, writing, sent, received, pools>>

\* The body is parsed and handled (nextMessage, receivedFromClient), its buffer goes back to the
\* queue of the TcpClient, and the next read takes one from there.
ReadBody(e) ==
  /\ plan.transport = "tcp" /\ tcpClient.connected
  /\ listening[e] /\ wanted[e] # Header
  /\ \E n \in Readable(e, wanted[e]) :
       /\ Take(e, wanted[e], n)
       /\ \E m \in Parsed(e, SubSeq(wire[e], 1, n)) : received' = [received EXCEPT ![e] = @ \o m]
  /\ wanted' = [wanted EXCEPT ![e] = Header]
  /\ pools' = [pools EXCEPT ![PoolOfWritten(e)] = acquire(release(@))]
  /\ UNCHANGED <<plan, clientVars, writing, sent>>

\* The connection breaks: reads fail and stop the TcpClient, writes fail and give their buffers back.
\* The exception is sliced, so that Network::run does not catch it and ends; had it been caught, it
\* would reconnect and start anew.
Lose ==
  /\ plan.losses > 0 /\ plan.transport = "tcp" /\ tcpClient.connected
  /\ plan' = [plan EXCEPT !.losses = @ - 1]
  /\ tcpClient' = [connected |-> FALSE, isStopped |-> plan.sliced]
  /\ listening' = [listening EXCEPT !["server"] = FALSE, !["client"] = ~plan.sliced]
  /\ writing' = NoBytes
  /\ pools' = [pools EXCEPT !["client"] = GivenUp(@, 1 + Len(writing["client"]), Len(writing["client"])),
                            !["session"] = EmptyPool]
  /\ UNCHANGED <<wire, wanted, sent, received, causes>>

-----------------------------------------------------------------------------
(* DebugClientOnServer, DebugClientOnNetwork: a message is in the queue of the other end at once. *)

DebugSend(e, size) ==
  /\ InMemory
  /\ plan.messages > 0 /\ size \in plan.sizes
  /\ plan' = [plan EXCEPT !.messages = @ - 1]
  /\ sent' = [sent EXCEPT ![e] = Append(@, size)]
  /\ wire' = [wire EXCEPT ![Other(e)] = Append(@, Len(sent[e]) + 1)]
  /\ pools' = [pools EXCEPT ![PoolOfSend(e)] = acquire(@)]
  /\ UNCHANGED <<clientVars, writing, wanted, received, causes>>

DebugReceive(e) ==
  /\ InMemory
  /\ wire[e] # << >>
  /\ wire' = [wire EXCEPT ![e] = Tail(@)]
  /\ received' = [received EXCEPT ![e] = Append(@, Head(wire[e]))]
  /\ pools' = [pools EXCEPT !["debug"] = release(@)]
  /\ UNCHANGED <<plan, clientVars, writing, wanted, sent, causes>>

-----------------------------------------------------------------------------

Next ==
  \/ Connect
  \/ Lose
  \/ \E e \in End : \/ WriteSome(e)
                    \/ ReadHeader(e)
                    \/ ReadBody(e)
                    \/ DebugReceive(e)
                    \/ \E size \in plan.sizes : Send(e, size) \/ DebugSend(e, size)

\* The coroutines run whenever they can: the client polls its io_context in every frame.
Fairness ==
  /\ WF_vars(Connect)
  /\ \A e \in End : WF_vars(WriteSome(e)) /\ WF_vars(ReadHeader(e)) /\ WF_vars(ReadBody(e)) /\ WF_vars(DebugReceive(e))

Spec == Init /\ [][Next]_vars /\ Fairness

-----------------------------------------------------------------------------
(* Properties *)

InStep(e) == causes[e] = {}

\* The modules above take a connection for a pair of FIFO queues.  It is one as long as no read
\* returns less than it asked for, no two writes mix their parts and every body is shorter than Base:
\* what an end has received is what the other has sent, in order, nothing missing or made up.
FifoInStep ==
  /\ TypeOK
  /\ \A e \in End : InStep(e) =>
       /\ Len(received[e]) <= Len(sent[Other(e)])
       /\ \A k \in DOMAIN received[e] : received[e][k] = k

\* The pools of the client and of the debug server never hold more buffers than were once in use
\* at the same time: memory is used again.  (The server's are no pools: see the README.)
BuffersAreUsedAgain ==
  \A p \in {"client", "debug"} : pools[p].free + pools[p].out <= pools[p].peak

\* A client that is not connected is either connecting, or stopped with nobody left to read: with
\* the exception as it was meant, it always comes back.
ComesBack == plan.sliced \/ []<>(tcpClient.connected /\ listening["client"] /\ listening["server"])

\* Everything that was sent arrives, and a client comes back.
AllArrives ==
  /\ []<>(tcpClient.connected => \A e \in End : InStep(e) => Len(received[e]) = Len(sent[Other(e)]))
  /\ ComesBack
==============================================================================
