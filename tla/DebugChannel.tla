------------------------------ MODULE DebugChannel ------------------------------
(***************************************************************************)
(* The debug channel from the kernel to the host: hardware threads split   *)
(* their log messages into packets of PAYLOAD bytes (MLogSinkPci), send    *)
(* them through the slots of one PCIeRingChannel, and the terminal on the  *)
(* host (xmicterm) puts the messages of every thread together again.       *)
(* handle_t has Width bits, so handles and slot sequence numbers wrap      *)
(* around.  A length counts packets; a packet's data is its place in the   *)
(* message.  The cache flushes are left out: memory is coherent here.      *)
(***************************************************************************)
EXTENDS Naturals, Sequences, TLC

CONSTANTS Threads,   \* the writing hardware threads, each with its vchannel
          SLOTS,     \* slots of the channel, a divisor of 2^Width
          Width,     \* bits of handle_t
          Lengths,   \* thread -> packets of the messages it writes
          Turns      \* message numbers repeat after this many, more than fit into the slots

VARIABLES slotz,     \* slot number -> [seq, vchannel, msg, data, last]
          writePos, readPos,
          pc,        \* thread -> idle, acquire, wait, finish
          handle,    \* thread or "host" -> the handle it has acquired
          left,      \* thread -> packets of its message still to send
          sent,      \* thread -> [msg, data]: message number mod Turns and next packet
          host,      \* the terminal's step: acquire, read
          stream,    \* vchannel -> packets collected so far
          logged     \* vchannel -> [msg, text]: messages logged, mod Turns, and the packets of the last one

vars == <<slotz, writePos, readPos, pc, handle, left, sent, host, stream, logged>>

Cast(n) == n % 2 ^ Width
Slot(h) == h % SLOTS

isWriteable(h) == slotz[Slot(h)].seq = Cast(2 * h)
isReadable(h) == slotz[Slot(h)].seq = Cast(2 * h + 1)

\* Mutant: the slot is handed back to the position that has just been read.
WriteableAgain(h) == [slotz EXCEPT ![Slot(h)].seq = Cast(2 * h)]

\* Mutant: the bit that marks the slot as readable stays set.
WriteableNext(h) == [slotz EXCEPT ![Slot(h)].seq = Cast(2 * (h + SLOTS) + 1)]

setWriteable(h) == [slotz EXCEPT ![Slot(h)].seq = Cast(2 * (h + SLOTS))]

Empty == [vchannel |-> CHOOSE t \in Threads : TRUE, msg |-> 0, data |-> 0, last |-> FALSE]

Init ==
    /\ slotz = [i \in 0 .. SLOTS - 1 |-> [seq |-> Cast(2 * i)] @@ Empty]
    /\ writePos = 0 /\ readPos = 0
    /\ pc = [t \in Threads |-> "idle"]
    /\ handle = [t \in Threads \cup {"host"} |-> 0]
    /\ left = [t \in Threads |-> 0]
    /\ sent = [t \in Threads |-> [msg |-> 0, data |-> 0]]
    /\ host = "acquire"
    /\ stream = [t \in Threads |-> <<>>]
    /\ logged = [t \in Threads |-> [msg |-> 0, text |-> <<>>]]

\* MLogSinkPci::write() splits a message of n packets.
Write(t) ==
    /\ pc[t] = "idle"
    /\ \E n \in Lengths[t] : left' = [left EXCEPT ![t] = n]
    /\ pc' = [pc EXCEPT ![t] = "acquire"]
    /\ UNCHANGED <<slotz, writePos, readPos, handle, sent, host, stream, logged>>

\* acquireSend(): fetch_add on the write position ...
AcquireSend(t) ==
    /\ pc[t] = "acquire"
    /\ handle' = [handle EXCEPT ![t] = writePos]
    /\ writePos' = Cast(writePos + 1)
    /\ pc' = [pc EXCEPT ![t] = "wait"]
    /\ UNCHANGED <<slotz, readPos, left, sent, host, stream, logged>>

\* ... then the packet is copied into the slot as soon as the slot is writeable.
SendPkg(t) ==
    /\ pc[t] = "wait" /\ isWriteable(handle[t])
    /\ slotz' = [slotz EXCEPT ![Slot(handle[t])] =
                    [seq |-> @.seq, vchannel |-> t, msg |-> sent[t].msg, data |-> sent[t].data,
                     last |-> left[t] = 1]]
    /\ pc' = [pc EXCEPT ![t] = "finish"]
    /\ UNCHANGED <<writePos, readPos, handle, left, sent, host, stream, logged>>

\* finishSend() publishes the slot; write() goes on with the next packet.
FinishSend(t) ==
    /\ pc[t] = "finish"
    /\ slotz' = [slotz EXCEPT ![Slot(handle[t])].seq = Cast(2 * handle[t] + 1)]
    /\ left' = [left EXCEPT ![t] = @ - 1]
    /\ handle' = [handle EXCEPT ![t] = 0]
    /\ pc' = [pc EXCEPT ![t] = IF left[t] = 1 THEN "idle" ELSE "acquire"]
    /\ sent' = [sent EXCEPT ![t] = IF left[t] = 1 THEN [msg |-> (@.msg + 1) % Turns, data |-> 0]
                                                  ELSE [@ EXCEPT !.data = @ + 1]]
    /\ UNCHANGED <<writePos, readPos, host, stream, logged>>

\* The terminal's acquireRecv() waits until the slot at its own position is readable; the packet
\* goes to its vchannel's stream, and the last packet of a message logs the stream.
Recv ==
    LET p == slotz[Slot(readPos)]
        text == Append(stream[p.vchannel], [msg |-> p.msg, data |-> p.data])
    IN  /\ host = "acquire" /\ isReadable(readPos)
        /\ readPos' = Cast(readPos + 1)
        /\ handle' = [handle EXCEPT !["host"] = readPos]
        /\ stream' = [stream EXCEPT ![p.vchannel] = IF p.last THEN <<>> ELSE text]
        /\ logged' = [logged EXCEPT ![p.vchannel] = IF p.last THEN [msg |-> (@.msg + 1) % Turns, text |-> text] ELSE @]
        /\ host' = "read"
        /\ UNCHANGED <<slotz, writePos, pc, left, sent>>

FinishRecv ==
    /\ host = "read"
    /\ slotz' = setWriteable(handle["host"])
    /\ host' = "acquire"
    /\ handle' = [handle EXCEPT !["host"] = 0]
    /\ UNCHANGED <<writePos, readPos, pc, left, sent, stream, logged>>

Host == Recv \/ FinishRecv
Thread(t) == AcquireSend(t) \/ SendPkg(t) \/ FinishSend(t)
Next == Host \/ \E t \in Threads : Write(t) \/ Thread(t)

\* The host polls and every hardware thread finishes its write(); nobody has to write.
Fairness == WF_vars(Host) /\ \A t \in Threads : WF_vars(Thread(t))

Spec == Init /\ [][Next]_vars
FairSpec == Spec /\ Fairness
-----------------------------------------------------------------------------
Beginning(text, m) == \A i \in DOMAIN text : text[i] = [msg |-> m, data |-> i - 1]

\* What the terminal has collected of a thread's message is the beginning of exactly that message,
\* and what it has logged last is the whole message before: no packet lost, repeated, reordered or
\* mixed with another thread's, across the wrap-around of the handles (getSlot(), isReadable(),
\* setWriteable(); xmicterm's map of streams).
StreamsInOrder ==
    \A t \in Threads :
        /\ Beginning(stream[t], logged[t].msg)
        /\ logged[t].text # <<>> =>
              /\ Beginning(logged[t].text, (logged[t].msg + Turns - 1) % Turns)
              /\ Len(logged[t].text) \in Lengths[t]

\* Every message is logged that write() has begun to send: a slot that a thread waits for in
\* acquireSend() becomes writeable again (setWriteable() hands it to the next round), and the
\* terminal reaches every packet.  It is enough to look at the messages with number 0: any message
\* of a thread may be the first one to be counted.
MessagesLogged ==
    \A t \in Threads : (pc[t] # "idle" /\ sent[t].msg = 0) ~> logged[t].msg = 1
=============================================================================
