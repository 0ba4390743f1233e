------------------------- MODULE TaskletQueueProofs -------------------------
(***************************************************************************)
(* The ownership of TaskletQueue and its refinement of DelegationQueue, for *)
(* any number of threads and tasklets.                                      *)
(***************************************************************************)
EXTENDS TaskletQueue, TLAPS

\* The thread is between acquiring and releasing the queue, or its handler is
\* inside push().
Owning == {"pull", "walk", "run", "handler", "release"}
Pushing == {"exchange", "complete"}

\* Who has acquired the queue is inside an operation, and there is one owner.
IInv ==
    /\ pc \in [Threads -> Owning \cup Pushing \cup {"idle"}]
    /\ cur = [p \in Threads |-> cur[p]]
    /\ oldtail = [p \in Threads |-> oldtail[p]]
    /\ owns \in [Threads -> BOOLEAN]
    /\ \A p \in Threads : pc[p] = "exchange" => cur[p] \in Tasklets
    /\ \A p \in Threads : pc[p] \in Owning => owns[p]
    /\ \A p \in Threads : owns[p] => pc[p] # "idle"
    /\ SingleOwner

\* Every step keeps IInv: an exchange that returns FREE makes its thread the
\* owner, and only a successful tryRelease() makes the queue FREE again.
LEMMA OwnerStep ==
    ASSUME MarksDistinct, IInv, [Next]_vars
    PROVE  IInv'
<1> USE DEF FREE, INCOMPLETE, LOCKED, UNUSED, INIT, Marks, Owning, Pushing
<1> USE DEF IInv, SingleOwner, IsOwner
<1>1. ASSUME NEW p \in Threads, NEW t \in Tasklets, PushMark(p, t) PROVE IInv'
  BY <1>1 DEF PushMark
<1>2. ASSUME NEW p \in Threads, PushExchange(p) PROVE IInv'
  BY ZenonT(30), <1>2 DEF PushExchange, MarksDistinct
<1>3. ASSUME NEW p \in Threads, PushComplete(p) PROVE IInv'
  <2>1. CASE owns[p]
    BY ZenonT(30), <1>3, <2>1 DEF PushComplete
  <2>2. CASE ~owns[p] /\ oldtail[p] = FREE
    <3>1. /\ owns' = [owns EXCEPT ![p] = TRUE]
          /\ pc' = [pc EXCEPT ![p] = "pull"]
          /\ cur' = [cur EXCEPT ![p] = None]
          /\ oldtail' = [oldtail EXCEPT ![p] = None]
          /\ pc[p] = "complete" /\ sharedTail' = sharedTail
      BY Zenon, <1>3, <2>2 DEF PushComplete
    <3>2. \A r \in Threads : IsOwner(r)' <=> IsOwner(r)
      BY <3>1, <2>2
    <3>3. SingleOwner'
      BY <3>1, <3>2
    <3> QED
      BY Zenon, <3>1, <3>3
  <2>3. CASE ~owns[p] /\ oldtail[p] # FREE
    BY Zenon, <1>3, <2>3 DEF PushComplete
  <2> QED
    BY <2>1, <2>2, <2>3
<1>4. ASSUME NEW p \in Threads, TryAcquire(p) PROVE IInv'
  BY <1>4 DEF TryAcquire
<1>5. ASSUME NEW p \in Threads, PullPrivate(p) PROVE IInv'
  BY SMTT(20), <1>5 DEF PullPrivate
<1>6. ASSUME NEW p \in Threads, PullShared(p) PROVE IInv'
  BY <1>6 DEF PullShared
<1>7. ASSUME NEW p \in Threads, PullWalk(p) PROVE IInv'
  BY <1>7 DEF PullWalk
<1>8. ASSUME NEW p \in Threads, Run(p) PROVE IInv'
  BY <1>8 DEF Run
<1>9. ASSUME NEW p \in Threads, NEW t \in Tasklets, PushPrivate(p, t) PROVE IInv'
  BY <1>9 DEF PushPrivate
<1>10. ASSUME NEW p \in Threads, HandlerDone(p) PROVE IInv'
  BY <1>10 DEF HandlerDone
<1>11. ASSUME NEW p \in Threads, TryRelease(p) PROVE IInv'
  <2>1. CASE sharedTail = LOCKED
    <3>1. /\ sharedTail' = FREE
          /\ owns' = [owns EXCEPT ![p] = FALSE]
          /\ pc' = [pc EXCEPT ![p] = "idle"]
          /\ UNCHANGED <<cur, oldtail>>
          /\ owns[p]
      BY <1>11, <2>1 DEF TryRelease
    <3>2. \A r \in Threads : ~IsOwner(r)'
      BY <3>1
    <3> QED
      BY <3>1, <3>2
  <2>2. CASE sharedTail # LOCKED
    BY <1>11, <2>2 DEF TryRelease
  <2> QED
    BY <2>1, <2>2
<1>12. CASE UNCHANGED vars
  BY <1>12 DEF vars
<1> QED
  BY <1>1, <1>2, <1>3, <1>4, <1>5, <1>6, <1>7, <1>8, <1>9, <1>10, <1>11, <1>12 DEF Next, Step

\* ChainFIFO (TaskletQueue.hh): push() and tryAcquire() return true to one
\* thread at a time, from there until its tryRelease() succeeds.
THEOREM TaskletQueueSingleOwner ==
    ASSUME MarksDistinct
    PROVE  Spec => []SingleOwner
<1>1. Init => IInv
  BY DEF Init, IInv, SingleOwner, IsOwner, FREE, Owning, Pushing
<1>2. IInv /\ [Next]_vars => IInv'
  BY OwnerStep
<1>3. IInv => SingleOwner
  BY DEF IInv
<1> QED
  BY <1>1, <1>2, <1>3, PTL DEF Spec

-----------------------------------------------------------------------------
(***************************************************************************)
(* The queue as a chain.  The history variable fifo has three parts: what   *)
(* the owner has detached and still walks over, from the youngest entry to  *)
(* the oldest; the private queue, linked from the oldest to the youngest;   *)
(* and the shared chain, linked from the youngest to the oldest, with       *)
(* insertions in progress.                                                  *)
(***************************************************************************)

ChainTypes ==
    /\ sharedTail \in Tasklets \cup {FREE, LOCKED}
    /\ privateTail \in Tasklets \cup {FREE}
    /\ next \in [Tasklets -> Tasklets \cup Marks]
    /\ oldtail \in [Threads -> Tasklets \cup {FREE, LOCKED, None}]
    /\ fifo \in Seq(Tasklets)

\* A tasklet is pushed by one thread, and is not in the queue while that has
\* not exchanged the tail, nor when it is run.
PushInv ==
    /\ \A p \in Threads : pc[p] \in Pushing => cur[p] \in Tasklets /\ next[cur[p]] = INCOMPLETE
    /\ \A p, r \in Threads : pc[p] \in Pushing /\ pc[r] \in Pushing /\ cur[p] = cur[r] => p = r
    /\ \A p \in Threads : pc[p] = "exchange" => \A i \in 1..Len(fifo) : fifo[i] # cur[p]
    /\ \A p \in Threads : pc[p] = "complete" => oldtail[p] # None
    /\ \A p \in Threads : pc[p] = "run" => cur[p] \in Tasklets /\ next[cur[p]] = INIT

FifoInv ==
    /\ \A i, j \in 1..Len(fifo) : fifo[i] = fifo[j] => i = j
    /\ \A i \in 1..Len(fifo) : next[fifo[i]] \notin {UNUSED, INIT}
    /\ sharedTail = FREE => Len(fifo) = 0
    /\ \A p \in Threads : pc[p] = "release" => privateTail = FREE

\* The next field of t is v, or will be once the push of t is complete.
Linked(t, v) ==
    IF next[t] = INCOMPLETE
    THEN \E p \in Threads : pc[p] = "complete" /\ cur[p] = t /\ oldtail[p] = v
    ELSE next[t] = v

Chained(first, last) ==
    /\ first <= last => Linked(fifo[first], FREE) \/ Linked(fifo[first], LOCKED)
    /\ \A i \in (first + 1)..last : Linked(fifo[i], fifo[i - 1])

Private(first, last) ==
    /\ privateTail = IF first <= last THEN fifo[first] ELSE FREE
    /\ \A i \in first..last : next[fifo[i]] = IF i < last THEN fifo[i + 1] ELSE FREE

TailAt(d) == IF d < Len(fifo) THEN sharedTail = fifo[Len(fifo)] ELSE sharedTail \in {FREE, LOCKED}

WalksAt(w) ==
    /\ \A p \in Threads : pc[p] = "walk" => w > 0 /\ cur[p] = fifo[w]
    /\ w > 0 => \E p \in Threads : pc[p] = "walk"

\* The owner walks over the entries up to w, those up to d are private.
Chain(w, d) ==
    /\ w <= d
    /\ Chained(1, w)
    /\ Private(w + 1, d)
    /\ Chained(d + 1, Len(fifo))
    /\ TailAt(d)
    /\ WalksAt(w)

ChainInv == \E w, d \in 0..Len(fifo) : Chain(w, d)

RInv == IInv /\ ChainTypes /\ PushInv /\ FifoInv /\ ChainInv

\* Removing the first entry of a sequence without repetitions leaves its tail.
LEMMA WithoutHead ==
    ASSUME NEW T, NEW s \in Seq(T), Len(s) > 0,
           \A i, j \in 1..Len(s) : s[i] = s[j] => i = j
    PROVE  Without(s, s[1]) = Tail(s)
<1>1. DOMAIN s = 1..Len(s) /\ 1 \in DOMAIN s
  OBVIOUS
<1>2. (CHOOSE i \in DOMAIN s : s[i] = s[1]) = 1
  BY <1>1
<1>3. Without(s, s[1]) = SubSeq(s, 1, 1 - 1) \o SubSeq(s, 1 + 1, Len(s))
  BY Zenon, <1>1, <1>2 DEF Without
<1>4. SubSeq(s, 1, 1 - 1) = <<>> /\ SubSeq(s, 1 + 1, Len(s)) = Tail(s)
  OBVIOUS
<1>5. <<>> \o Tail(s) = Tail(s)
  OBVIOUS
<1> QED
  BY Zenon, <1>3, <1>4, <1>5

\* Only the owner walks.
LEMMA OwnerWalks ==
    ASSUME MarksDistinct, IInv, NEW p \in Threads, pc[p] \in Owning, NEW r \in Threads, pc[r] = "walk"
    PROVE  r = p
BY Zenon DEF IInv, SingleOwner, IsOwner, Owning

\* While the owner is not walking, w is zero.
LEMMA NotWalking ==
    ASSUME MarksDistinct, IInv, NEW p \in Threads, pc[p] \in Owning \ {"walk"}, NEW w \in Nat, WalksAt(w)
    PROVE  w = 0 /\ \A r \in Threads : pc[r] # "walk"
<1>1. \A r \in Threads : pc[r] # "walk"
  BY Zenon, OwnerWalks
<1> QED
  BY <1>1 DEF WalksAt

\* The chain does not change if the tails, the entries, their links and the
\* walking thread do not.
LEMMA ChainFrame ==
    ASSUME UNCHANGED <<sharedTail, privateTail, fifo>>, fifo \in Seq(Tasklets),
           \A u \in Tasklets, v \in Tasklets \cup {FREE, LOCKED} : Linked(u, v) => Linked(u, v)',
           \A u \in Tasklets : next[u] \in Tasklets \cup {FREE} => next'[u] = next[u],
           \A r \in Threads : pc'[r] = "walk" <=> pc[r] = "walk",
           \A r \in Threads : pc[r] = "walk" => cur'[r] = cur[r],
           MarksDistinct, ChainInv
    PROVE  ChainInv'
<1> USE DEF FREE, INCOMPLETE, LOCKED, Marks
<1>1. PICK w \in 0..Len(fifo), d \in 0..Len(fifo) : Chain(w, d)
  BY Zenon DEF ChainInv
<1>2. w \in Nat /\ d \in Nat /\ Len(fifo) \in Nat /\ w <= d /\ d <= Len(fifo)
  BY <1>1 DEF Chain
<1>3. \A i \in 1..Len(fifo) : fifo[i] \in Tasklets
  OBVIOUS
<1>4. ASSUME NEW a \in Nat, NEW b \in Nat, 0 < a, b <= Len(fifo), Chained(a, b)
      PROVE  Chained(a, b)'
  <2>1. a <= b => Linked(fifo[a], FREE)' \/ Linked(fifo[a], LOCKED)'
    <3>1. a <= b => a \in 1..Len(fifo)
      BY <1>2, <1>4
    <3> QED
      BY Zenon, <3>1, <1>3, <1>4 DEF Chained
  <2>2. \A i \in (a + 1)..b : Linked(fifo[i], fifo[i - 1])'
    <3>1. \A i \in (a + 1)..b : i \in 1..Len(fifo) /\ i - 1 \in 1..Len(fifo)
      BY <1>2, <1>4
    <3> QED
      BY Zenon, <3>1, <1>3, <1>4 DEF Chained
  <2> QED
    BY Zenon, <2>1, <2>2 DEF Chained
<1>5. Private(w + 1, d)'
  <2>1. \A i \in (w + 1)..d : i \in 1..Len(fifo) /\ next[fifo[i]] \in Tasklets \cup {FREE}
    BY SMTT(20), <1>1, <1>2, <1>3 DEF Chain, Private
  <2> QED
    BY Zenon, <1>1, <1>3, <2>1 DEF Chain, Private
<1>6. TailAt(d)' /\ WalksAt(w)'
  BY Zenon, <1>1 DEF Chain, TailAt, WalksAt
<1>7. Chained(1, w)' /\ Chained(d + 1, Len(fifo))'
  <2>1. d + 1 \in Nat /\ 0 < d + 1 /\ 1 \in Nat /\ 0 < 1 /\ w <= Len(fifo) /\ Len(fifo) <= Len(fifo)
    BY <1>2
  <2>2. Chained(1, w) /\ Chained(d + 1, Len(fifo))
    BY Zenon, <1>1 DEF Chain
  <2>3. Chained(1, w)'
    BY Zenon, <2>1, <2>2, <1>2, <1>4
  <2>4. Chained(d + 1, Len(fifo))'
    BY Zenon, <2>1, <2>2, <1>2, <1>4 DEF Chained
  <2> QED
    BY Zenon, <2>3, <2>4
<1>8. Chain(w, d)'
  BY Zenon, <1>2, <1>5, <1>6, <1>7 DEF Chain
<1> QED
  BY Zenon, <1>8 DEF ChainInv

\* A step that starts no push and leaves the others alone keeps PushInv.
LEMMA PushFrame ==
    ASSUME PushInv, UNCHANGED fifo,
           \A r \in Threads : pc'[r] \in Pushing \cup {"run"} =>
               pc'[r] = pc[r] /\ cur'[r] = cur[r] /\ oldtail'[r] = oldtail[r] /\ next'[cur[r]] = next[cur[r]]
    PROVE  PushInv'
<1> USE DEF Pushing
<1>1. \A r \in Threads : pc'[r] \in Pushing => cur'[r] \in Tasklets /\ next'[cur'[r]] = INCOMPLETE
  BY DEF PushInv
<1>2. \A q, r \in Threads : pc'[q] \in Pushing /\ pc'[r] \in Pushing /\ cur'[q] = cur'[r] => q = r
  BY DEF PushInv
<1>3. \A r \in Threads : pc'[r] = "exchange" => \A i \in 1..Len(fifo') : fifo'[i] # cur'[r]
  BY DEF PushInv
<1>4. \A r \in Threads : pc'[r] = "complete" => oldtail'[r] # None
  BY Zenon DEF PushInv
<1>5. \A r \in Threads : pc'[r] = "run" => cur'[r] \in Tasklets /\ next'[cur'[r]] = INIT
  BY DEF PushInv
<1> QED
  BY Zenon, <1>1, <1>2, <1>3, <1>4, <1>5 DEF PushInv

\* What holds after a step besides the ownership.
Rest == ChainTypes /\ PushInv /\ FifoInv /\ ChainInv

\* push() marks a tasklet that is not in the queue.
LEMMA PushMarkChain ==
    ASSUME MarksDistinct, RInv, NEW p \in Threads, NEW t \in Tasklets, PushMark(p, t)
    PROVE  Rest'
<1> USE DEF FREE, INCOMPLETE, LOCKED, UNUSED, INIT, Marks, Pushing
<1>1. /\ next[t] = UNUSED /\ next' = [next EXCEPT ![t] = INCOMPLETE]
      /\ cur' = [cur EXCEPT ![p] = t] /\ pc' = [pc EXCEPT ![p] = "exchange"]
      /\ UNCHANGED <<sharedTail, privateTail, oldtail, owns, fifo>>
      /\ pc[p] \in {"idle", "handler"}
  BY Zenon DEF PushMark
<1>2. \A i \in 1..Len(fifo) : fifo[i] \in Tasklets /\ fifo[i] # t
  BY <1>1 DEF RInv, ChainTypes, FifoInv
<1>3. pc = [r \in Threads |-> pc[r]] /\ cur = [r \in Threads |-> cur[r]]
  BY DEF RInv, IInv
<1>4. /\ pc'[p] = "exchange" /\ cur'[p] = t /\ next'[t] = INCOMPLETE
      /\ \A r \in Threads : r # p => pc'[r] = pc[r] /\ cur'[r] = cur[r]
      /\ \A u \in Tasklets : u # t => next'[u] = next[u]
  BY <1>1, <1>3 DEF RInv, ChainTypes
<1>5. ChainTypes'
  BY <1>1 DEF RInv, ChainTypes
<1>6. PushInv'
  BY <1>1, <1>2, <1>4 DEF RInv, PushInv
<1>7. FifoInv'
  BY <1>1, <1>2, <1>4 DEF RInv, FifoInv
<1>8. ASSUME NEW u \in Tasklets, NEW v \in Tasklets \cup {FREE, LOCKED}, Linked(u, v) PROVE Linked(u, v)'
  <2>1. u # t
    BY Zenon, <1>1, <1>8 DEF Linked, MarksDistinct
  <2>2. next'[u] = next[u]
    BY Zenon, <1>4, <2>1
  <2>3. \A r \in Threads : pc[r] = "complete" => pc'[r] = "complete" /\ cur'[r] = cur[r] /\ oldtail'[r] = oldtail[r]
    BY Zenon, <1>1, <1>4
  <2> QED
    BY Zenon, <1>8, <2>2, <2>3 DEF Linked
<1>9. ChainInv'
  <2>1. \A u \in Tasklets : next[u] \in Tasklets \cup {FREE} => next'[u] = next[u]
    BY Zenon, <1>1, <1>4 DEF MarksDistinct
  <2>2. \A r \in Threads : (pc'[r] = "walk" <=> pc[r] = "walk") /\ (pc[r] = "walk" => cur'[r] = cur[r])
    BY Zenon, <1>1, <1>4
  <2> QED
    BY Zenon, <1>1, <1>8, <2>1, <2>2, ChainFrame DEF RInv, ChainTypes
<1> QED
  BY Zenon, <1>5, <1>6, <1>7, <1>9 DEF Rest

\* The exchange appends the tasklet to the shared chain, or starts a new one.
LEMMA PushExchangeChain ==
    ASSUME MarksDistinct, RInv, NEW p \in Threads, PushExchange(p)
    PROVE  Rest'
<1> USE DEF FREE, INCOMPLETE, LOCKED, UNUSED, INIT, Marks, Pushing
<1>0. PICK t, n, old : t = cur[p] /\ n = Len(fifo) /\ old = sharedTail
  BY Zenon
<1>1. /\ pc[p] = "exchange" /\ pc' = [pc EXCEPT ![p] = "complete"]
      /\ oldtail' = [oldtail EXCEPT ![p] = old]
      /\ sharedTail' = t /\ fifo' = Append(fifo, t)
      /\ UNCHANGED <<privateTail, next, cur, owns>>
  BY Zenon, <1>0 DEF PushExchange
<1>2. /\ t \in Tasklets /\ next[t] = INCOMPLETE
      /\ \A i \in 1..n : fifo[i] # t
  BY Zenon, <1>0, <1>1 DEF RInv, PushInv
<1>3. /\ fifo \in Seq(Tasklets) /\ n \in Nat /\ \A i \in 1..n : fifo[i] \in Tasklets
      /\ old \in Tasklets \cup {FREE, LOCKED}
      /\ pc = [r \in Threads |-> pc[r]] /\ oldtail = [r \in Threads |-> oldtail[r]]
  BY <1>0 DEF RInv, IInv, ChainTypes
<1>4. /\ pc'[p] = "complete" /\ oldtail'[p] = old
      /\ \A r \in Threads : r # p => pc'[r] = pc[r] /\ oldtail'[r] = oldtail[r]
  BY Zenon, <1>0, <1>1, <1>0, <1>3
<1>5. /\ fifo' \in Seq(Tasklets) /\ Len(fifo') = n + 1 /\ fifo'[n + 1] = t
      /\ \A i \in 1..n : fifo'[i] = fifo[i]
  BY <1>0, <1>1, <1>2, <1>0, <1>3
<1>6. ChainTypes'
  BY <1>0, <1>1, <1>2, <1>0, <1>3, <1>5 DEF RInv, ChainTypes
<1>7. PushInv'
  <2>1. ASSUME NEW r \in Threads, pc'[r] = "exchange", NEW i \in 1..Len(fifo') PROVE fifo'[i] # cur'[r]
    <3>1. r # p /\ pc[r] = "exchange"
      BY Zenon, <2>1, <1>4
    <3>2. cur[r] # t
      BY Zenon, <3>1, <1>0, <1>1 DEF RInv, PushInv
    <3>3. i \in 1..n \/ i = n + 1
      BY <1>0, <1>3, <1>5
    <3> QED
      BY ZenonT(30), <3>1, <3>2, <3>3, <1>0, <1>1, <1>5 DEF RInv, PushInv
  <2>2. old # None
    BY Zenon, <1>0, <1>3 DEF MarksDistinct
  <2>3. \A r \in Threads : (pc'[r] \in Pushing <=> pc[r] \in Pushing) /\ (pc'[r] = "run" <=> pc[r] = "run")
    BY Zenon, <1>1, <1>4
  <2>4. \A r \in Threads : pc'[r] = "complete" => oldtail'[r] # None
    BY Zenon, <2>2, <1>4 DEF RInv, PushInv
  <2> QED
    BY Zenon, <2>1, <2>3, <2>4, <1>1 DEF RInv, PushInv
<1>8. FifoInv'
  <2>1. \A i, j \in 1..Len(fifo') : fifo'[i] = fifo'[j] => i = j
    BY <1>2, <1>0, <1>3, <1>5 DEF RInv, FifoInv
  <2>2. \A i \in 1..Len(fifo') : next'[fifo'[i]] \notin {UNUSED, INIT}
    BY <1>0, <1>1, <1>2, <1>0, <1>3, <1>5 DEF RInv, FifoInv
  <2>3. sharedTail' # FREE
    BY Zenon, <1>0, <1>1, <1>2 DEF MarksDistinct
  <2>4. \A r \in Threads : pc'[r] = "release" => privateTail' = FREE
    BY Zenon, <1>0, <1>1, <1>4 DEF RInv, FifoInv
  <2> QED
    BY Zenon, <2>1, <2>2, <2>3, <2>4 DEF FifoInv
<1>9. ChainInv'
  <2>1. PICK w \in 0..n, d \in 0..n : Chain(w, d)
    BY Zenon, <1>0 DEF RInv, ChainInv
  <2>2. w \in 0..Len(fifo') /\ d \in 0..Len(fifo') /\ w \in Nat /\ d \in Nat /\ w <= d
    BY <2>1, <1>0, <1>3, <1>5 DEF Chain
  <2>3. ASSUME NEW u, NEW v, Linked(u, v) PROVE Linked(u, v)'
    <3>1. \A r \in Threads : pc[r] = "complete" => pc'[r] = "complete" /\ cur'[r] = cur[r] /\ oldtail'[r] = oldtail[r]
      BY Zenon, <1>0, <1>1, <1>4
    <3> QED
      BY Zenon, <1>0, <1>1, <2>3, <3>1 DEF Linked
  <2>4. Linked(t, old)'
    BY Zenon, <1>0, <1>1, <1>2, <1>4 DEF Linked
  <2>5. Chained(1, w)'
    <3>1. \A i \in 1..w : i \in 1..n /\ (i > 1 => i - 1 \in 1..n)
      BY <1>3, <2>1
    <3>2. Chained(1, w)
      BY Zenon, <2>1 DEF Chain
    <3> QED
      BY <3>1, <3>2, <2>2, <2>3, <1>5 DEF Chained
  <2>6. Private(w + 1, d)'
    BY <2>1, <2>2, <1>0, <1>1, <1>3, <1>5 DEF Chain, Private
  <2>7. Chained(d + 1, Len(fifo))'
    <3>1. Chained(d + 1, n)
      BY Zenon, <2>1, <1>0 DEF Chain
    <3>2. \A i \in (d + 1)..n : i \in 1..n /\ (i > d + 1 => i - 1 \in 1..n)
      BY <1>3, <2>1, <2>2
    <3>3. CASE d = n
      <4>1. old \in {FREE, LOCKED}
        BY <2>1, <1>0, <1>3, <3>3 DEF Chain, TailAt
      <4> QED
        BY <4>1, <2>4, <1>3, <1>5, <3>3 DEF Chained
    <3>4. CASE d # n
      <4>1. old = fifo[n] /\ d < n
        BY <2>1, <2>2, <1>0, <1>3, <3>4 DEF Chain, TailAt
      <4>2. d + 1 \in 1..n /\ d + 1 <= n /\ n \in 1..n
        BY <4>1, <2>2, <1>3
      <4>3. Linked(fifo[d + 1], FREE)' \/ Linked(fifo[d + 1], LOCKED)'
        <5>1. PICK u : u = fifo[d + 1]
          BY Zenon
        <5>2. Linked(u, FREE) \/ Linked(u, LOCKED)
          BY Zenon, <3>1, <4>2, <5>1 DEF Chained
        <5>3. fifo'[d + 1] = u
          BY Zenon, <4>2, <5>1, <1>5
        <5> QED
          BY Zenon, <5>2, <5>3, <2>3
      <4>4. ASSUME NEW i \in (d + 2)..(n + 1) PROVE Linked(fifo[i], fifo[i - 1])'
        <5>1. PICK u, v : u = fifo[i] /\ v = fifo[i - 1]
          BY Zenon
        <5>2. CASE i = n + 1
          <6>1. fifo'[i] = t /\ fifo'[i - 1] = old
            BY <5>2, <4>1, <4>2, <1>3, <1>5
          <6> QED
            BY Zenon, <6>1, <2>4
        <5>3. CASE i # n + 1
          <6>1. i \in (d + 1 + 1)..n /\ fifo'[i] = u /\ fifo'[i - 1] = v
            BY SMTT(20), <5>1, <5>3, <4>4, <4>2, <2>2, <1>3, <1>5
          <6>2. Linked(u, v)
            BY Zenon, <6>1, <5>1, <3>1 DEF Chained
          <6> QED
            BY Zenon, <6>1, <6>2, <2>3
        <5> QED
          BY Zenon, <5>2, <5>3
      <4>5. (d + 2)..(n + 1) = (d + 1 + 1)..Len(fifo')
        BY <1>3, <1>5, <2>2
      <4> QED
        BY Zenon, <4>3, <4>4, <4>5 DEF Chained
    <3> QED
      BY <3>3, <3>4
  <2>8. TailAt(d)'
    BY <2>1, <2>2, <1>0, <1>1, <1>3, <1>5 DEF TailAt
  <2>9. WalksAt(w)'
    BY <2>1, <2>2, <1>0, <1>1, <1>3, <1>4, <1>5 DEF WalksAt, Chain
  <2> QED
    BY Zenon, <2>2, <2>5, <2>6, <2>7, <2>8, <2>9 DEF ChainInv, Chain
<1> QED
  BY Zenon, <1>6, <1>7, <1>8, <1>9 DEF Rest

\* The store to next makes a link what it was bound to become.
LEMMA PushCompleteChain ==
    ASSUME MarksDistinct, RInv, NEW p \in Threads, PushComplete(p)
    PROVE  Rest'
<1> USE DEF FREE, INCOMPLETE, LOCKED, UNUSED, INIT, Marks, Pushing
<1>0. PICK t, old : t = cur[p] /\ old = oldtail[p]
  BY Zenon
<1>1. /\ pc[p] = "complete" /\ next' = [next EXCEPT ![t] = old]
      /\ pc' = [pc EXCEPT ![p] = IF owns[p] THEN "handler" ELSE IF oldtail[p] = FREE THEN "pull" ELSE "idle"]
      /\ cur' = [cur EXCEPT ![p] = None] /\ oldtail' = [oldtail EXCEPT ![p] = None]
      /\ UNCHANGED <<sharedTail, privateTail, fifo>>
  BY Zenon, <1>0 DEF PushComplete
<1>2. /\ t \in Tasklets /\ next[t] = INCOMPLETE /\ old # None
      /\ \A r \in Threads : r # p /\ pc[r] \in Pushing => cur[r] # t
  BY Zenon, <1>0, <1>1 DEF RInv, PushInv
<1>3. /\ old \in Tasklets \cup {FREE, LOCKED} /\ next \in [Tasklets -> Tasklets \cup Marks]
      /\ oldtail \in [Threads -> Tasklets \cup {FREE, LOCKED, None}]
      /\ pc = [r \in Threads |-> pc[r]] /\ cur = [r \in Threads |-> cur[r]]
      /\ fifo \in Seq(Tasklets) /\ \A i \in 1..Len(fifo) : fifo[i] \in Tasklets
  BY <1>0, <1>2 DEF RInv, IInv, ChainTypes
<1>4. /\ pc'[p] \in {"handler", "pull", "idle"}
      /\ \A r \in Threads : r # p => pc'[r] = pc[r] /\ cur'[r] = cur[r] /\ oldtail'[r] = oldtail[r]
  BY Zenon, <1>1, <1>3
<1>5. /\ next'[t] = old
      /\ \A u \in Tasklets : u # t => next'[u] = next[u]
  BY Zenon, <1>1, <1>2, <1>3
<1>6. ChainTypes'
  BY Zenon, <1>1, <1>2, <1>3 DEF RInv, ChainTypes
<1>7. PushInv'
  <2>1. \A r \in Threads : pc'[r] \in Pushing \cup {"run"} => r # p /\ pc'[r] = pc[r] /\ cur'[r] = cur[r] /\ oldtail'[r] = oldtail[r]
    BY Zenon, <1>4
  <2>2. \A r \in Threads : pc[r] \in Pushing \cup {"run"} /\ r # p => cur[r] \in Tasklets /\ cur[r] # t
    BY Zenon, <1>2 DEF RInv, PushInv
  <2>3. \A r \in Threads : pc'[r] \in Pushing \cup {"run"} => next'[cur[r]] = next[cur[r]]
    BY Zenon, <1>5, <2>1, <2>2
  <2> QED
    BY Zenon, <1>1, <2>1, <2>3, PushFrame DEF RInv
<1>8. FifoInv'
  <2>1. old \notin {UNUSED, INIT}
    BY Zenon, <1>3 DEF MarksDistinct
  <2>2. \A i \in 1..Len(fifo) : next'[fifo[i]] \notin {UNUSED, INIT}
    BY Zenon, <2>1, <1>3, <1>5 DEF RInv, FifoInv
  <2>3. \A r \in Threads : pc'[r] = "release" => privateTail = FREE
    BY Zenon, <1>4 DEF RInv, FifoInv
  <2> QED
    BY Zenon, <2>2, <2>3, <1>1 DEF RInv, FifoInv
<1>9. ChainInv'
  <2>1. \A u \in Tasklets : next[u] \in Tasklets \cup {FREE} => next'[u] = next[u]
    BY Zenon, <1>2, <1>5 DEF MarksDistinct
  <2>2. \A r \in Threads : (pc'[r] = "walk" <=> pc[r] = "walk") /\ (pc[r] = "walk" => cur'[r] = cur[r])
    BY Zenon, <1>1, <1>4
  <2>3. ASSUME NEW u \in Tasklets, NEW v \in Tasklets \cup {FREE, LOCKED}, Linked(u, v) PROVE Linked(u, v)'
    <3>1. CASE u = t
      <4>1. v = old
        BY Zenon, <3>1, <2>3, <1>0, <1>2 DEF Linked
      <4>2. next'[u] # INCOMPLETE /\ next'[u] = v
        BY Zenon, <3>1, <4>1, <1>3, <1>5 DEF MarksDistinct
      <4> QED
        BY Zenon, <4>2 DEF Linked
    <3>2. CASE u # t
      <4>1. next'[u] = next[u]
        BY Zenon, <3>2, <1>5
      <4>2. \A r \in Threads : pc[r] = "complete" /\ cur[r] = u => pc'[r] = "complete" /\ cur'[r] = u /\ oldtail'[r] = oldtail[r]
        BY Zenon, <3>2, <1>0, <1>4
      <4> QED
        BY Zenon, <2>3, <4>1, <4>2 DEF Linked
    <3> QED
      BY Zenon, <3>1, <3>2
  <2> QED
    BY Zenon, <1>1, <1>3, <2>1, <2>2, <2>3, ChainFrame DEF RInv
<1> QED
  BY Zenon, <1>6, <1>7, <1>8, <1>9 DEF Rest

\* A tasklet that is run is not in the queue.
LEMMA RunChain ==
    ASSUME MarksDistinct, RInv, NEW p \in Threads, Run(p)
    PROVE  Rest'
<1> USE DEF FREE, INCOMPLETE, LOCKED, UNUSED, INIT, Marks, Pushing
<1>0. PICK t : t = cur[p]
  BY Zenon
<1>1. /\ pc[p] = "run" /\ next' = [next EXCEPT ![t] = UNUSED]
      /\ cur' = [cur EXCEPT ![p] = None] /\ pc' = [pc EXCEPT ![p] = "handler"]
      /\ UNCHANGED <<sharedTail, privateTail, oldtail, owns, fifo>>
  BY Zenon, <1>0 DEF Run
<1>2. t \in Tasklets /\ next[t] = INIT
  BY Zenon, <1>0, <1>1 DEF RInv, PushInv
<1>3. /\ next \in [Tasklets -> Tasklets \cup Marks]
      /\ pc = [r \in Threads |-> pc[r]] /\ cur = [r \in Threads |-> cur[r]]
      /\ fifo \in Seq(Tasklets) /\ \A i \in 1..Len(fifo) : fifo[i] \in Tasklets
  BY DEF RInv, IInv, ChainTypes
<1>4. /\ pc'[p] = "handler"
      /\ \A r \in Threads : r # p => pc'[r] = pc[r] /\ cur'[r] = cur[r]
  BY Zenon, <1>1, <1>3
<1>5. \A u \in Tasklets : u # t => next'[u] = next[u]
  BY Zenon, <1>1, <1>2, <1>3
<1>6. ChainTypes'
  BY Zenon, <1>1, <1>2, <1>3 DEF RInv, ChainTypes
<1>7. PushInv'
  <2>1. \A r \in Threads : pc'[r] \in Pushing \cup {"run"} => r # p /\ pc'[r] = pc[r] /\ cur'[r] = cur[r]
    BY Zenon, <1>4
  <2>2. \A r \in Threads : pc'[r] \in Pushing => cur[r] \in Tasklets /\ cur[r] # t
    BY Zenon, <1>2, <2>1 DEF RInv, PushInv
  <2>3. \A r \in Threads : pc'[r] # "run"
    <3>1. ASSUME NEW r \in Threads, pc'[r] = "run" PROVE r = p
      BY Zenon, <3>1, <1>1, <2>1 DEF RInv, IInv, SingleOwner, IsOwner, Owning
    <3> QED
      BY Zenon, <3>1, <1>4
  <2>4. \A r \in Threads : pc'[r] \in Pushing \cup {"run"} => next'[cur[r]] = next[cur[r]] /\ oldtail'[r] = oldtail[r]
    BY Zenon, <1>1, <1>5, <2>2, <2>3
  <2> QED
    BY Zenon, <1>1, <2>1, <2>4, PushFrame DEF RInv
<1>8. FifoInv'
  <2>1. \A i \in 1..Len(fifo) : next[fifo[i]] \notin {UNUSED, INIT}
    BY Zenon DEF RInv, FifoInv
  <2>2. \A i \in 1..Len(fifo) : next'[fifo[i]] \notin {UNUSED, INIT}
    BY Zenon, <2>1, <1>2, <1>3, <1>5
  <2>3. \A r \in Threads : pc'[r] = "release" => privateTail = FREE
    BY Zenon, <1>4 DEF RInv, FifoInv
  <2> QED
    BY Zenon, <2>2, <2>3, <1>1 DEF RInv, FifoInv
<1>9. ChainInv'
  <2>1. \A u \in Tasklets : next[u] \in Tasklets \cup {FREE} => next'[u] = next[u]
    BY Zenon, <1>2, <1>5 DEF MarksDistinct
  <2>2. \A r \in Threads : (pc'[r] = "walk" <=> pc[r] = "walk") /\ (pc[r] = "walk" => cur'[r] = cur[r])
    BY Zenon, <1>1, <1>4
  <2>3. ASSUME NEW u \in Tasklets, NEW v \in Tasklets \cup {FREE, LOCKED}, Linked(u, v) PROVE Linked(u, v)'
    <3>1. u # t
      BY Zenon, <1>2, <2>3 DEF Linked, MarksDistinct
    <3>2. next'[u] = next[u]
      BY Zenon, <3>1, <1>5
    <3>3. \A r \in Threads : pc[r] = "complete" => pc'[r] = "complete" /\ cur'[r] = cur[r] /\ oldtail'[r] = oldtail[r]
      BY Zenon, <1>1, <1>4
    <3> QED
      BY Zenon, <2>3, <3>2, <3>3 DEF Linked
  <2> QED
    BY Zenon, <1>1, <1>3, <2>1, <2>2, <2>3, ChainFrame DEF RInv
<1> QED
  BY Zenon, <1>6, <1>7, <1>8, <1>9 DEF Rest

\* Returning from a handler does not touch the queue.
LEMMA HandlerDoneChain ==
    ASSUME MarksDistinct, RInv, NEW p \in Threads, HandlerDone(p)
    PROVE  Rest'
<1> USE DEF FREE, INCOMPLETE, LOCKED, UNUSED, INIT, Marks, Pushing
<1>1. /\ pc[p] = "handler" /\ pc' = [pc EXCEPT ![p] = "pull"]
      /\ UNCHANGED <<sharedTail, privateTail, next, cur, oldtail, owns, fifo>>
  BY Zenon DEF HandlerDone
<1>2. pc = [r \in Threads |-> pc[r]] /\ fifo \in Seq(Tasklets)
  BY Zenon DEF RInv, IInv, ChainTypes
<1>3. pc'[p] = "pull" /\ \A r \in Threads : r # p => pc'[r] = pc[r]
  BY Zenon, <1>1, <1>2
<1>4. ChainTypes'
  BY Zenon, <1>1 DEF RInv, ChainTypes
<1>5. PushInv'
  BY Zenon, <1>1, <1>3, PushFrame DEF RInv
<1>6. FifoInv'
  BY Zenon, <1>1, <1>3 DEF RInv, FifoInv
<1>7. ChainInv'
  <2>1. \A r \in Threads : pc'[r] = "walk" <=> pc[r] = "walk"
    BY Zenon, <1>1, <1>3
  <2>2. ASSUME NEW u \in Tasklets, NEW v \in Tasklets \cup {FREE, LOCKED}, Linked(u, v) PROVE Linked(u, v)'
    BY Zenon, <2>2, <1>1, <1>3 DEF Linked
  <2> QED
    BY Zenon, <1>1, <1>2, <2>1, <2>2, ChainFrame DEF RInv
<1> QED
  BY Zenon, <1>4, <1>5, <1>6, <1>7 DEF Rest

\* tryAcquire() and a successful tryRelease() find the queue empty.
LEMMA EmptyChain ==
    ASSUME MarksDistinct, RInv, NEW p \in Threads, NEW to, to \in {"pull", "idle"},
           Len(fifo) = 0, privateTail = FREE, \A r \in Threads : pc[r] # "walk",
           pc[p] \notin Pushing, pc' = [pc EXCEPT ![p] = to],
           sharedTail' \in {FREE, LOCKED},
           UNCHANGED <<privateTail, next, cur, oldtail, fifo>>
    PROVE  Rest'
<1> USE DEF FREE, INCOMPLETE, LOCKED, UNUSED, INIT, Marks, Pushing
<1>1. pc = [r \in Threads |-> pc[r]]
  BY Zenon DEF RInv, IInv
<1>2. pc'[p] = to /\ \A r \in Threads : r # p => pc'[r] = pc[r]
  BY Zenon, <1>1
<1>3. ChainTypes'
  BY Zenon DEF RInv, ChainTypes
<1>4. PushInv'
  BY Zenon, <1>2, PushFrame DEF RInv
<1>5. FifoInv'
  BY ZenonT(30), <1>2 DEF RInv, FifoInv
<1>6. Chain(0, 0)'
  <2>1. \A r \in Threads : pc'[r] # "walk"
    BY Zenon, <1>2
  <2>2. Chained(1, 0)' /\ Chained(0 + 1, Len(fifo))'
    BY DEF Chained
  <2>3. Private(0 + 1, 0)' /\ TailAt(0)' /\ WalksAt(0)'
    BY <2>1 DEF Private, TailAt, WalksAt
  <2> QED
    BY <2>2, <2>3 DEF Chain
<1>7. 0 \in 0..Len(fifo')
  OBVIOUS
<1> QED
  BY Zenon, <1>3, <1>4, <1>5, <1>6, <1>7 DEF Rest, ChainInv

\* A queue that is FREE, or that the owner found empty, has no entry.
LEMMA NothingPending ==
    ASSUME MarksDistinct, RInv, privateTail = FREE, sharedTail \in {FREE, LOCKED},
           \A r \in Threads : pc[r] # "walk"
    PROVE  Len(fifo) = 0
<1> USE DEF FREE, LOCKED, Marks
<1>1. PICK w \in 0..Len(fifo), d \in 0..Len(fifo) : Chain(w, d)
  BY Zenon DEF RInv, ChainInv
<1>2. Len(fifo) \in Nat /\ \A i \in 1..Len(fifo) : fifo[i] \in Tasklets
  BY DEF RInv, ChainTypes
<1>3. w = 0
  BY <1>1, <1>2 DEF Chain, WalksAt
<1>4. d = Len(fifo)
  <2>1. CASE d < Len(fifo)
    <3>1. sharedTail = fifo[Len(fifo)] /\ Len(fifo) \in 1..Len(fifo)
      BY <2>1, <1>1, <1>2 DEF Chain, TailAt
    <3> QED
      BY Zenon, <3>1, <1>2 DEF MarksDistinct
  <2> QED
    BY <2>1, <1>1, <1>2
<1>5. CASE d > 0
  <2>1. privateTail = fifo[1] /\ 1 \in 1..Len(fifo)
    BY <1>1, <1>2, <1>3, <1>5 DEF Chain, Private
  <2> QED
    BY Zenon, <2>1, <1>2 DEF MarksDistinct
<1> QED
  BY <1>2, <1>4, <1>5

\* tryAcquire() takes a queue that is empty.
LEMMA TryAcquireChain ==
    ASSUME MarksDistinct, RInv, NEW p \in Threads, TryAcquire(p)
    PROVE  Rest'
<1> USE DEF FREE, LOCKED, Pushing
<1>1. /\ pc[p] = "idle" /\ sharedTail = FREE /\ sharedTail' = LOCKED /\ pc' = [pc EXCEPT ![p] = "pull"]
      /\ UNCHANGED <<privateTail, next, cur, oldtail, fifo>>
  BY Zenon DEF TryAcquire
<1>2. \A r \in Threads : pc[r] # "walk"
  BY Zenon, <1>1 DEF RInv, IInv, SingleOwner, IsOwner, Owning
<1>3. Len(fifo) = 0
  BY Zenon, <1>1 DEF RInv, FifoInv
<1>4. privateTail = FREE
  BY <1>3 DEF RInv, ChainInv, Chain, Private
<1> QED
  BY Zenon, <1>1, <1>2, <1>3, <1>4, EmptyChain

\* tryRelease() succeeds only if nothing is pending.
LEMMA TryReleaseChain ==
    ASSUME MarksDistinct, RInv, NEW p \in Threads, TryRelease(p)
    PROVE  Rest' /\ (sharedTail = LOCKED => Len(fifo) = 0)
<1> USE DEF FREE, INCOMPLETE, LOCKED, UNUSED, INIT, Marks, Pushing
<1>1. pc[p] = "release" /\ UNCHANGED <<privateTail, next, cur, oldtail, fifo>>
  BY Zenon DEF TryRelease
<1>2. \A r \in Threads : pc[r] # "walk"
  BY Zenon, <1>1, OwnerWalks DEF Owning, RInv
<1>3. privateTail = FREE
  BY Zenon, <1>1 DEF RInv, FifoInv
<1>4. sharedTail = LOCKED => Len(fifo) = 0
  BY Zenon, <1>2, <1>3, NothingPending
<1>5. CASE sharedTail = LOCKED
  <2>1. sharedTail' = FREE /\ pc' = [pc EXCEPT ![p] = "idle"]
    BY Zenon, <1>5 DEF TryRelease
  <2> QED
    BY Zenon, <2>1, <1>1, <1>2, <1>3, <1>4, <1>5, EmptyChain
<1>6. CASE sharedTail # LOCKED
  <2>1. sharedTail' = sharedTail /\ pc' = [pc EXCEPT ![p] = "pull"]
    BY Zenon, <1>6 DEF TryRelease
  <2>2. pc = [r \in Threads |-> pc[r]] /\ fifo \in Seq(Tasklets)
    BY Zenon DEF RInv, IInv, ChainTypes
  <2>3. pc'[p] = "pull" /\ \A r \in Threads : r # p => pc'[r] = pc[r]
    BY Zenon, <2>1, <2>2
  <2>4. ChainTypes'
    BY Zenon, <1>1, <2>1 DEF RInv, ChainTypes
  <2>5. PushInv'
    BY Zenon, <1>1, <2>3, PushFrame DEF RInv
  <2>6. FifoInv'
    BY Zenon, <1>1, <2>1, <2>3 DEF RInv, FifoInv
  <2>7. \A r \in Threads : pc'[r] = "walk" <=> pc[r] = "walk"
    BY Zenon, <1>1, <2>3
  <2>8. ASSUME NEW u \in Tasklets, NEW v \in Tasklets \cup {FREE, LOCKED}, Linked(u, v) PROVE Linked(u, v)'
    BY Zenon, <2>8, <1>1, <2>3 DEF Linked
  <2>9. ChainInv'
    BY Zenon, <1>1, <2>1, <2>2, <2>7, <2>8, ChainFrame DEF RInv
  <2> QED
    BY Zenon, <1>4, <2>4, <2>5, <2>6, <2>9 DEF Rest
<1> QED
  BY Zenon, <1>4, <1>5, <1>6

\* pull() detaches the whole shared chain, or finds nothing.
LEMMA PullSharedChain ==
    ASSUME MarksDistinct, RInv, NEW p \in Threads, PullShared(p)
    PROVE  Rest'
<1> USE DEF FREE, INCOMPLETE, LOCKED, UNUSED, INIT, Marks, Pushing
<1>0. PICK n : n = Len(fifo)
  BY Zenon
<1>1. /\ pc[p] = "pull" /\ privateTail = FREE /\ sharedTail' = LOCKED
      /\ UNCHANGED <<privateTail, next, oldtail, owns, fifo>>
  BY Zenon DEF PullShared
<1>2. /\ pc = [r \in Threads |-> pc[r]] /\ cur = [r \in Threads |-> cur[r]] /\ fifo \in Seq(Tasklets)
      /\ n \in Nat /\ \A i \in 1..n : fifo[i] \in Tasklets
  BY <1>0 DEF RInv, IInv, ChainTypes
<1>3. \A r \in Threads : pc[r] # "walk"
  BY Zenon, <1>1, OwnerWalks DEF Owning, RInv
<1>4. ChainTypes'
  BY Zenon, <1>1 DEF RInv, ChainTypes
<1>5. CASE sharedTail \in {FREE, LOCKED}
  <2>1. pc' = [pc EXCEPT ![p] = "release"] /\ cur' = cur
    BY Zenon, <1>5 DEF PullShared
  <2>2. pc'[p] = "release" /\ \A r \in Threads : r # p => pc'[r] = pc[r]
    BY Zenon, <2>1, <1>2
  <2>3. Len(fifo) = 0
    BY Zenon, <1>1, <1>3, <1>5, NothingPending
  <2>4. PushInv'
    BY Zenon, <1>1, <2>1, <2>2, PushFrame DEF RInv
  <2>5. FifoInv'
    BY ZenonT(30), <1>1, <2>3 DEF RInv, FifoInv
  <2>6. \A r \in Threads : pc'[r] # "walk"
    BY Zenon, <2>2, <1>3
  <2>7. Chained(1, 0)' /\ Chained(0 + 1, Len(fifo))'
    BY <1>1, <2>3 DEF Chained
  <2>8. Private(0 + 1, 0)' /\ TailAt(0)' /\ WalksAt(0)'
    BY <1>1, <2>3, <2>6 DEF Private, TailAt, WalksAt
  <2>9. 0 \in 0..Len(fifo') /\ 0 <= 0
    BY <1>1, <2>3
  <2>10. ChainInv'
    BY Zenon, <2>7, <2>8, <2>9 DEF ChainInv, Chain
  <2> QED
    BY Zenon, <1>4, <2>4, <2>5, <2>10 DEF Rest
<1>6. CASE sharedTail \notin {FREE, LOCKED}
  <2>1. pc' = [pc EXCEPT ![p] = "walk"] /\ cur' = [cur EXCEPT ![p] = sharedTail]
    BY Zenon, <1>6 DEF PullShared
  <2>2. /\ pc'[p] = "walk" /\ cur'[p] = sharedTail
        /\ \A r \in Threads : r # p => pc'[r] = pc[r] /\ cur'[r] = cur[r]
    BY Zenon, <2>1, <1>2
  <2>3. PushInv'
    BY Zenon, <1>1, <2>1, <2>2, PushFrame DEF RInv
  <2>4. FifoInv'
    BY Zenon, <1>1, <2>2 DEF RInv, FifoInv
  <2>5. PICK w \in 0..n, d \in 0..n : Chain(w, d)
    BY Zenon, <1>0 DEF RInv, ChainInv
  <2>6. w = 0
    BY <2>5, <1>2, <1>3 DEF Chain, WalksAt
  <2>7. d = 0
    <3>1. CASE d > 0
      <4>1. privateTail = fifo[1] /\ 1 \in 1..n
        BY <2>5, <2>6, <3>1, <1>2 DEF Chain, Private
      <4> QED
        BY Zenon, <4>1, <1>1, <1>2 DEF MarksDistinct
    <3> QED
      BY <3>1, <1>2
  <2>8. n > 0 /\ sharedTail = fifo[n] /\ Chained(1, n)
    BY <2>5, <2>7, <1>0, <1>2, <1>6 DEF Chain, TailAt
  <2>9. ASSUME NEW u, NEW v, Linked(u, v) PROVE Linked(u, v)'
    <3>1. \A r \in Threads : pc[r] = "complete" => pc'[r] = "complete" /\ cur'[r] = cur[r] /\ oldtail'[r] = oldtail[r]
      BY Zenon, <1>1, <2>2
    <3> QED
      BY Zenon, <1>1, <2>9, <3>1 DEF Linked
  <2>10. Chained(1, n)'
    BY Zenon, <2>8, <2>9, <1>1 DEF Chained
  <2>11. Private(n + 1, n)' /\ Chained(n + 1, Len(fifo))'
    BY <1>0, <1>1, <1>2 DEF Private, Chained
  <2>12. TailAt(n)'
    BY <1>0, <1>1, <1>2 DEF TailAt
  <2>13. WalksAt(n)'
    BY Zenon, <2>2, <2>8, <1>1, <1>3 DEF WalksAt
  <2>14. n \in 0..Len(fifo') /\ n <= n
    BY <1>0, <1>1, <1>2
  <2>15. ChainInv'
    BY Zenon, <2>10, <2>11, <2>12, <2>13, <2>14 DEF ChainInv, Chain
  <2> QED
    BY Zenon, <1>4, <2>3, <2>4, <2>15 DEF Rest
<1> QED
  BY Zenon, <1>5, <1>6

\* pull() moves the youngest entry of the detached chain to the private queue.
LEMMA PullMoveChain ==
    ASSUME MarksDistinct, RInv, NEW p \in Threads, PullWalk(p), next[cur[p]] \notin {FREE, LOCKED}
    PROVE  Rest'
<1> USE DEF FREE, INCOMPLETE, LOCKED, UNUSED, INIT, Marks, Pushing
<1>0. PICK n, t, succ, top : n = Len(fifo) /\ t = cur[p] /\ succ = next[t] /\ top = privateTail
  BY Zenon
<1>1. /\ pc[p] = "walk" /\ succ # INCOMPLETE /\ succ \notin {FREE, LOCKED}
      /\ next' = [next EXCEPT ![t] = top] /\ privateTail' = t /\ cur' = [cur EXCEPT ![p] = succ]
      /\ UNCHANGED <<sharedTail, oldtail, owns, fifo, pc>>
  BY Zenon, <1>0 DEF PullWalk
<1>2. /\ pc = [r \in Threads |-> pc[r]] /\ cur = [r \in Threads |-> cur[r]] /\ fifo \in Seq(Tasklets)
      /\ n \in Nat /\ \A i \in 1..n : fifo[i] \in Tasklets
      /\ top \in Tasklets \cup {FREE} /\ next \in [Tasklets -> Tasklets \cup Marks]
  BY <1>0 DEF RInv, IInv, ChainTypes
<1>3. \A r \in Threads : pc[r] \in Owning => r = p
  BY Zenon, <1>1 DEF Owning, RInv, IInv, SingleOwner, IsOwner
<1>4. PICK w \in 0..n, d \in 0..n : Chain(w, d)
  BY Zenon, <1>0 DEF RInv, ChainInv
<1>5. w \in Nat /\ d \in Nat /\ w <= d /\ w > 0 /\ t = fifo[w]
  BY <1>0, <1>1, <1>2, <1>4 DEF Chain, WalksAt
<1>6. t \in Tasklets /\ w \in 1..n
  BY <1>2, <1>5
<1>7. w > 1 /\ succ = fifo[w - 1] /\ w - 1 \in 1..n /\ w - 1 \in Nat
  <2>1. Chained(1, w)
    BY Zenon, <1>4 DEF Chain
  <2>2. w # 1
    <3>1. CASE w = 1
      <4>1. Linked(t, FREE) \/ Linked(t, LOCKED)
        BY <2>1, <1>5, <3>1 DEF Chained
      <4> QED
        BY Zenon, <4>1, <1>0, <1>1 DEF Linked
    <3> QED
      BY Zenon, <3>1
  <2>3. w \in 2..w /\ w - 1 \in 1..n /\ w > 1 /\ w - 1 \in Nat
    BY <2>2, <1>2, <1>5
  <2>4. Linked(t, fifo[w - 1])
    BY <2>1, <2>3, <1>5 DEF Chained
  <2> QED
    BY Zenon, <2>3, <2>4, <1>0, <1>1 DEF Linked
<1>8. /\ next'[t] = top /\ \A u \in Tasklets : u # t => next'[u] = next[u]
      /\ cur'[p] = succ /\ \A r \in Threads : r # p => cur'[r] = cur[r]
  BY Zenon, <1>1, <1>2, <1>6
<1>9. \A i \in 1..n : i # w => fifo[i] # t
  BY Zenon, <1>0, <1>5, <1>6 DEF RInv, FifoInv
<1>10. ChainTypes'
  BY Zenon, <1>1, <1>2, <1>6 DEF RInv, ChainTypes
<1>11. PushInv'
  <2>1. \A r \in Threads : pc'[r] \in Pushing \cup {"run"} => r # p /\ pc[r] \in Pushing
    BY Zenon, <1>1, <1>3 DEF Owning
  <2>2. \A r \in Threads : pc[r] \in Pushing => cur[r] \in Tasklets /\ cur[r] # t
    BY Zenon, <1>0, <1>1 DEF RInv, PushInv
  <2> QED
    BY Zenon, <2>1, <2>2, <1>1, <1>8, PushFrame DEF RInv
<1>12. FifoInv'
  <2>1. top \notin {UNUSED, INIT}
    BY Zenon, <1>2 DEF MarksDistinct
  <2>2. \A r \in Threads : pc[r] # "release"
    BY Zenon, <1>1, <1>3 DEF Owning
  <2>3. \A i \in 1..n : next'[fifo[i]] \notin {UNUSED, INIT}
    BY Zenon, <2>1, <1>0, <1>2, <1>8 DEF RInv, FifoInv
  <2> QED
    BY Zenon, <2>2, <2>3, <1>0, <1>1 DEF RInv, FifoInv
<1>13. ASSUME NEW u \in Tasklets, NEW v, u # t, Linked(u, v) PROVE Linked(u, v)'
  <2>1. \A r \in Threads : pc[r] = "complete" => pc'[r] = "complete" /\ cur'[r] = cur[r] /\ oldtail'[r] = oldtail[r]
    BY Zenon, <1>1, <1>8
  <2> QED
    BY ZenonT(30), <1>8, <1>13, <2>1 DEF Linked
<1>14. Chained(1, w - 1)'
  <2>0. Chained(1, w)
    BY Zenon, <1>4 DEF Chain
  <2>1. Chained(1, w) /\ 1 <= w /\ 1 <= w - 1 /\ 1 \in 1..n /\ 1 # w
    BY <2>0, <1>2, <1>5, <1>6, <1>7
  <2>2. \A i \in (1 + 1)..(w - 1) : i \in (1 + 1)..w /\ i \in 1..n /\ i - 1 \in 1..n /\ i # w
    BY <1>2, <1>5, <1>6
  <2>3. Linked(fifo[1], FREE)' \/ Linked(fifo[1], LOCKED)'
    BY Zenon, <2>1, <1>1, <1>2, <1>9, <1>13 DEF Chained
  <2>4. \A i \in (1 + 1)..(w - 1) : Linked(fifo[i], fifo[i - 1])'
    BY Zenon, <2>1, <2>2, <1>1, <1>2, <1>9, <1>13 DEF Chained
  <2> QED
    BY Zenon, <2>3, <2>4 DEF Chained
<1>15. Private(w - 1 + 1, d)'
  <2>1. Private(w + 1, d)
    BY Zenon, <1>4 DEF Chain
  <2>2. \A i \in w..d : i \in 1..n /\ (i # w => i \in (w + 1)..d)
    BY <1>2, <1>4, <1>5
  <2>3. \A i \in w..d : next'[fifo[i]] = IF i < d THEN fifo[i + 1] ELSE FREE
    <3>1. ASSUME NEW i \in w..d, i # w PROVE next'[fifo[i]] = IF i < d THEN fifo[i + 1] ELSE FREE
      BY Zenon, <3>1, <2>1, <2>2, <1>2, <1>8, <1>9 DEF Private
    <3>2. top = IF w < d THEN fifo[w + 1] ELSE FREE
      BY <2>1, <1>0, <1>5 DEF Private
    <3> QED
      BY Zenon, <3>1, <3>2, <1>5, <1>8
  <2>4. w - 1 + 1 = w
    BY <1>5
  <2>5. Private(w, d)'
    BY <2>3, <1>1, <1>5 DEF Private
  <2> QED
    BY <2>4, <2>5
<1>16. Chained(d + 1, Len(fifo))'
  <2>1. Chained(d + 1, n)
    BY Zenon, <1>0, <1>4 DEF Chain
  <2>2. \A i \in (d + 1)..n : i \in 1..n /\ i # w
    BY <1>2, <1>5
  <2>3. d + 1 <= n => d + 1 \in (d + 1)..n
    BY <1>2, <1>5
  <2>4. \A i \in (d + 1 + 1)..n : i \in (d + 1)..n /\ i - 1 \in 1..n
    BY <1>2, <1>5
  <2>5. d + 1 <= n => Linked(fifo[d + 1], FREE)' \/ Linked(fifo[d + 1], LOCKED)'
    BY Zenon, <2>1, <2>2, <2>3, <1>1, <1>2, <1>9, <1>13 DEF Chained
  <2>6. \A i \in (d + 1 + 1)..n : Linked(fifo[i], fifo[i - 1])'
    BY Zenon, <2>1, <2>2, <2>4, <1>1, <1>2, <1>9, <1>13 DEF Chained
  <2> QED
    BY Zenon, <2>5, <2>6, <1>0, <1>1 DEF Chained
<1>17. TailAt(d)'
  BY Zenon, <1>1, <1>4 DEF Chain, TailAt
<1>18. WalksAt(w - 1)'
  <2>1. w - 1 > 0
    BY <1>5, <1>7
  <2>2. \A r \in Threads : pc'[r] = "walk" => r = p
    BY Zenon, <1>1, <1>3 DEF Owning
  <2> QED
    BY Zenon, <2>1, <2>2, <1>1, <1>7, <1>8 DEF WalksAt
<1>19. w - 1 \in 0..Len(fifo') /\ d \in 0..Len(fifo') /\ w - 1 <= d
  BY <1>0, <1>1, <1>2, <1>4, <1>5, <1>7
<1>20. ChainInv'
  BY Zenon, <1>14, <1>15, <1>16, <1>17, <1>18, <1>19 DEF ChainInv, Chain
<1> QED
  BY Zenon, <1>10, <1>11, <1>12, <1>20 DEF Rest

\* What both ways to return a tasklet from pull() do: the oldest of the d
\* private and detached entries is taken out.
PullsHead(p, d) ==
    /\ pc[p] \in {"pull", "walk"}
    /\ d \in 1..Len(fifo)
    /\ Chained(d + 1, Len(fifo)) /\ TailAt(d)
    /\ \A i \in 2..d : next[fifo[i]] = IF i < d THEN fifo[i + 1] ELSE FREE
    /\ next[fifo[1]] # INCOMPLETE
    /\ privateTail' = IF 2 <= d THEN fifo[2] ELSE FREE
    /\ next' = [next EXCEPT ![fifo[1]] = INIT]
    /\ fifo' = Without(fifo, fifo[1])
    /\ cur' = [cur EXCEPT ![p] = fifo[1]]
    /\ pc' = [pc EXCEPT ![p] = "run"]
    /\ UNCHANGED <<sharedTail, oldtail>>

\* pull() removes the first entry of fifo and leaves a chain behind.
LEMMA PullHeadChain ==
    ASSUME MarksDistinct, RInv, NEW p \in Threads, NEW d, PullsHead(p, d)
    PROVE  Rest' /\ Len(fifo) > 0 /\ fifo' = Tail(fifo)
<1> USE DEF FREE, INCOMPLETE, LOCKED, UNUSED, INIT, Marks, Pushing
<1>0. PICK n, t : n = Len(fifo) /\ t = fifo[1]
  BY Zenon
<1>1. /\ pc[p] \in {"pull", "walk"} /\ d \in 1..n /\ next[t] # INCOMPLETE
      /\ next' = [next EXCEPT ![t] = INIT] /\ cur' = [cur EXCEPT ![p] = t]
      /\ pc' = [pc EXCEPT ![p] = "run"] /\ fifo' = Without(fifo, fifo[1])
      /\ UNCHANGED <<sharedTail, oldtail>>
  BY Zenon, <1>0 DEF PullsHead
<1>2. /\ pc = [r \in Threads |-> pc[r]] /\ cur = [r \in Threads |-> cur[r]] /\ fifo \in Seq(Tasklets)
      /\ n \in Nat /\ d \in Nat /\ n > 0 /\ d <= n /\ \A i \in 1..n : fifo[i] \in Tasklets
      /\ t \in Tasklets /\ next \in [Tasklets -> Tasklets \cup Marks]
  BY <1>0, <1>1 DEF RInv, IInv, ChainTypes
<1>3. fifo' = Tail(fifo)
  BY Zenon, <1>0, <1>1, <1>2, WithoutHead DEF RInv, FifoInv
<1>4. /\ fifo' \in Seq(Tasklets) /\ Len(fifo') = n - 1
      /\ \A i \in 1..(n - 1) : i + 1 \in 1..n /\ i + 1 # 1 /\ fifo'[i] = fifo[i + 1]
  BY <1>0, <1>2, <1>3
<1>5. \A i \in 1..n : i # 1 => fifo[i] # t
  <2>1. 1 \in 1..n
    BY <1>2
  <2> QED
    BY Zenon, <2>1, <1>0 DEF RInv, FifoInv
<1>6. /\ next'[t] = INIT /\ \A u \in Tasklets : u # t => next'[u] = next[u]
      /\ pc'[p] = "run" /\ cur'[p] = t /\ \A r \in Threads : r # p => pc'[r] = pc[r] /\ cur'[r] = cur[r]
  BY Zenon, <1>1, <1>2
<1>7. \A r \in Threads : r # p => pc[r] \notin Owning
  BY Zenon, <1>1 DEF RInv, IInv, SingleOwner, IsOwner, Owning
<1>8. ChainTypes'
  <2>1. privateTail' \in Tasklets \cup {FREE}
    BY <1>0, <1>1, <1>2 DEF PullsHead
  <2> QED
    BY Zenon, <2>1, <1>1, <1>2, <1>4 DEF RInv, ChainTypes
<1>9. PushInv'
  <2>1. \A r \in Threads : pc'[r] \in Pushing => r # p /\ pc[r] = pc'[r] /\ cur'[r] = cur[r] /\ cur[r] \in Tasklets /\ cur[r] # t
    <3>1. \A r \in Threads : pc'[r] \in Pushing => r # p /\ pc[r] = pc'[r] /\ cur'[r] = cur[r]
      BY Zenon, <1>6
    <3>2. \A r \in Threads : pc[r] \in Pushing => cur[r] \in Tasklets /\ cur[r] # t
      BY Zenon, <1>1 DEF RInv, PushInv
    <3> QED
      BY Zenon, <3>1, <3>2
  <2>2. \A r \in Threads : pc'[r] \in Pushing => cur'[r] \in Tasklets /\ next'[cur'[r]] = INCOMPLETE
    <3>1. \A r \in Threads : pc'[r] \in Pushing => next'[cur[r]] = next[cur[r]]
      BY Zenon, <2>1, <1>6
    <3> QED
      BY Zenon, <2>1, <3>1 DEF RInv, PushInv
  <2>3. \A q, r \in Threads : pc'[q] \in Pushing /\ pc'[r] \in Pushing /\ cur'[q] = cur'[r] => q = r
    BY <2>1 DEF RInv, PushInv
  <2>4. ASSUME NEW r \in Threads, pc'[r] = "exchange", NEW i \in 1..Len(fifo') PROVE fifo'[i] # cur'[r]
    <3>1. pc[r] = "exchange" /\ cur'[r] = cur[r]
      BY Zenon, <2>1, <2>4
    <3>2. i + 1 \in 1..Len(fifo) /\ fifo'[i] = fifo[i + 1]
      BY Zenon, <1>0, <1>4
    <3> QED
      BY Zenon, <3>1, <3>2 DEF RInv, PushInv
  <2>5. \A r \in Threads : pc'[r] = "complete" => oldtail'[r] # None
    BY ZenonT(30), <2>1, <1>1 DEF RInv, PushInv
  <2>6. \A r \in Threads : pc'[r] = "run" => cur'[r] \in Tasklets /\ next'[cur'[r]] = INIT
    BY Zenon, <1>2, <1>6, <1>7 DEF Owning
  <2> QED
    BY Zenon, <2>2, <2>3, <2>4, <2>5, <2>6 DEF PushInv
<1>10. FifoInv'
  <2>1. \A i, j \in 1..Len(fifo') : fifo'[i] = fifo'[j] => i = j
    <3>1. ASSUME NEW i \in 1..Len(fifo'), NEW j \in 1..Len(fifo'), fifo'[i] = fifo'[j] PROVE i = j
      <4>1. i + 1 \in 1..Len(fifo) /\ j + 1 \in 1..Len(fifo) /\ fifo[i + 1] = fifo[j + 1]
        BY Zenon, <3>1, <1>0, <1>4
      <4>2. i + 1 = j + 1
        BY Zenon, <4>1 DEF RInv, FifoInv
      <4> QED
        BY <4>2, <1>4, <1>2
    <3> QED
      BY Zenon, <3>1
  <2>2. \A i \in 1..Len(fifo') : next'[fifo'[i]] \notin {UNUSED, INIT}
    <3>1. ASSUME NEW i \in 1..Len(fifo') PROVE next'[fifo'[i]] \notin {UNUSED, INIT}
      <4>1. PICK j \in 1..Len(fifo) : j # 1 /\ fifo'[i] = fifo[j]
        BY Zenon, <1>0, <1>4
      <4>2. next'[fifo[j]] = next[fifo[j]]
        BY Zenon, <4>1, <1>0, <1>2, <1>5, <1>6
      <4> QED
        BY Zenon, <4>1, <4>2 DEF RInv, FifoInv
    <3> QED
      BY Zenon, <3>1
  <2>3. sharedTail' # FREE
    BY Zenon, <1>1 DEF RInv, IInv, SingleOwner, IsOwner, Owning
  <2>4. \A r \in Threads : pc'[r] # "release"
    BY Zenon, <1>6, <1>7 DEF Owning
  <2> QED
    BY Zenon, <2>1, <2>2, <2>3, <2>4 DEF FifoInv
<1>11. ASSUME NEW u \in Tasklets, NEW v, u # t, Linked(u, v) PROVE Linked(u, v)'
  <2>1. \A r \in Threads : pc[r] = "complete" => pc'[r] = "complete" /\ cur'[r] = cur[r] /\ oldtail'[r] = oldtail[r]
    BY Zenon, <1>1, <1>6
  <2>2. next'[u] = next[u]
    BY Zenon, <1>6, <1>11
  <2> QED
    BY Zenon, <1>11, <2>1, <2>2 DEF Linked
<1>12. Private(0 + 1, d - 1)'
  <2>1. privateTail' = IF 1 <= d - 1 THEN fifo'[1] ELSE FREE
    <3>1. privateTail' = IF 2 <= d THEN fifo[2] ELSE FREE
      BY Zenon DEF PullsHead
    <3>2. 2 <= d => 1 \in 1..(n - 1) /\ 1 + 1 = 2
      BY <1>2
    <3>3. 2 <= d => fifo'[1] = fifo[2]
      BY Zenon, <3>2, <1>4
    <3>4. 2 <= d <=> 1 <= d - 1
      BY <1>2
    <3> QED
      BY Zenon, <3>1, <3>3, <3>4
  <2>2. ASSUME NEW i \in 1..(d - 1) PROVE next'[fifo'[i]] = IF i < d - 1 THEN fifo'[i + 1] ELSE FREE
    <3>1. i \in 1..(n - 1) /\ i + 1 \in 2..d /\ (i < d - 1 <=> i + 1 < d) /\ (i < d - 1 => i + 1 \in 1..(n - 1))
      BY <1>2
    <3>2. next'[fifo'[i]] = next[fifo[i + 1]] /\ (i < d - 1 => fifo'[i + 1] = fifo[i + 1 + 1])
      BY Zenon, <3>1, <1>2, <1>4, <1>5, <1>6
    <3>3. next[fifo[i + 1]] = IF i + 1 < d THEN fifo[i + 1 + 1] ELSE FREE
      BY Zenon, <3>1 DEF PullsHead
    <3> QED
      BY Zenon, <3>1, <3>2, <3>3
  <2>3. 0 + 1 = 1
    OBVIOUS
  <2> QED
    BY Zenon, <2>1, <2>2, <2>3 DEF Private
<1>13. Chained(d - 1 + 1, Len(fifo))'
  <2>1. Chained(d + 1, n)
    BY Zenon, <1>0 DEF PullsHead
  <2>2. d - 1 + 1 = d /\ (d <= n - 1 => d + 1 <= n) /\ (d <= n - 1 => d \in 1..(n - 1))
    BY <1>1, <1>2
  <2>3. d <= n - 1 => Linked(fifo[d], FREE)' \/ Linked(fifo[d], LOCKED)'
    <3>1. PICK u : u = fifo[d + 1]
      BY Zenon
    <3> QED
      BY Zenon, <3>1, <2>1, <2>2, <1>2, <1>4, <1>5, <1>11 DEF Chained
  <2>4. ASSUME NEW i \in (d + 1)..(n - 1) PROVE Linked(fifo[i], fifo[i - 1])'
    <3>1. PICK u, v : u = fifo[i + 1] /\ v = fifo[i]
      BY Zenon
    <3>2. i \in 1..(n - 1) /\ i - 1 \in 1..(n - 1) /\ i - 1 + 1 = i /\ i + 1 \in (d + 1 + 1)..n /\ i + 1 - 1 = i
      BY <1>1, <1>2
    <3>3. fifo'[i] = u /\ fifo'[i - 1] = v /\ u \in Tasklets /\ u # t
      BY Zenon, <3>1, <3>2, <1>2, <1>4, <1>5
    <3>4. PICK j \in (d + 1 + 1)..n : j = i + 1 /\ j - 1 = i
      BY <3>2
    <3>5. Linked(u, v)
      BY Zenon, <3>1, <3>4, <2>1 DEF Chained
    <3> QED
      BY Zenon, <3>3, <3>5, <1>11
  <2> QED
    BY Zenon, <2>2, <2>3, <2>4, <1>4 DEF Chained
<1>14. TailAt(d - 1)'
  <2>1. CASE d < n
    <3>1. sharedTail = fifo[n]
      BY Zenon, <2>1, <1>0 DEF PullsHead, TailAt
    <3>2. n - 1 \in 1..(n - 1) /\ n - 1 + 1 = n /\ d - 1 < n - 1
      BY <2>1, <1>1, <1>2
    <3>3. fifo'[n - 1] = fifo[n]
      BY <3>2, <1>4
    <3> QED
      BY Zenon, <3>1, <3>2, <3>3, <1>1, <1>4 DEF TailAt
  <2>2. CASE d = n
    <3>1. sharedTail \in {FREE, LOCKED}
      BY <2>2, <1>0, <1>2 DEF PullsHead, TailAt
    <3> QED
      BY <3>1, <2>2, <1>1, <1>2, <1>4 DEF TailAt
  <2> QED
    BY <2>1, <2>2, <1>2
<1>15. WalksAt(0)'
  <2>1. \A r \in Threads : pc'[r] # "walk"
    BY Zenon, <1>6, <1>7 DEF Owning
  <2> QED
    BY <2>1 DEF WalksAt
<1>16. Chained(1, 0)'
  BY DEF Chained
<1>17. 0 \in 0..Len(fifo') /\ d - 1 \in 0..Len(fifo') /\ 0 <= d - 1
  BY <1>1, <1>2, <1>4
<1>18. ChainInv'
  BY Zenon, <1>12, <1>13, <1>14, <1>15, <1>16, <1>17 DEF ChainInv, Chain
<1> QED
  BY Zenon, <1>0, <1>2, <1>3, <1>8, <1>9, <1>10, <1>18 DEF Rest

\* pull() returns the entry at the top of the private queue, which is the
\* oldest one.
LEMMA PullPrivateChain ==
    ASSUME MarksDistinct, RInv, NEW p \in Threads, PullPrivate(p)
    PROVE  \E d : PullsHead(p, d)
<1> USE DEF FREE, INCOMPLETE, LOCKED, UNUSED, INIT, Marks
<1>1. /\ pc[p] = "pull" /\ privateTail # FREE
      /\ cur' = [cur EXCEPT ![p] = privateTail] /\ privateTail' = next[privateTail]
      /\ next' = [next EXCEPT ![privateTail] = INIT] /\ fifo' = Without(fifo, privateTail)
      /\ pc' = [pc EXCEPT ![p] = "run"] /\ UNCHANGED <<sharedTail, oldtail>>
  BY Zenon DEF PullPrivate
<1>2. PICK w \in 0..Len(fifo), d \in 0..Len(fifo) : Chain(w, d)
  BY Zenon DEF RInv, ChainInv
<1>3. Len(fifo) \in Nat /\ w \in Nat /\ d \in Nat /\ \A i \in 1..Len(fifo) : fifo[i] \in Tasklets
  BY DEF RInv, ChainTypes
<1>4. w = 0
  BY <1>1, <1>2, <1>3, NotWalking DEF Owning, RInv, Chain
<1>5. d > 0 /\ privateTail = fifo[1] /\ d \in 1..Len(fifo) /\ 1 \in 1..d
  BY <1>1, <1>2, <1>3, <1>4 DEF Chain, Private
<1>6. \A i \in 1..d : next[fifo[i]] = IF i < d THEN fifo[i + 1] ELSE FREE
  BY <1>2, <1>4 DEF Chain, Private
<1>7. next[fifo[1]] = IF 2 <= d THEN fifo[2] ELSE FREE
  BY <1>3, <1>5, <1>6
<1>8. next[fifo[1]] # INCOMPLETE
  <2>1. 2 <= d => fifo[2] \in Tasklets
    BY <1>3, <1>5
  <2> QED
    BY Zenon, <2>1, <1>7 DEF MarksDistinct
<1>9. \A i \in 2..d : next[fifo[i]] = IF i < d THEN fifo[i + 1] ELSE FREE
  BY <1>3, <1>6
<1>10. Chained(d + 1, Len(fifo)) /\ TailAt(d)
  BY Zenon, <1>2 DEF Chain
<1>11. PullsHead(p, d)
  BY Zenon, <1>1, <1>5, <1>7, <1>8, <1>9, <1>10 DEF PullsHead
<1> QED
  BY Zenon, <1>11

\* pull() returns the last entry of the detached chain it walks over, which is
\* the oldest one.
LEMMA PullLastChain ==
    ASSUME MarksDistinct, RInv, NEW p \in Threads, PullWalk(p), next[cur[p]] \in {FREE, LOCKED}
    PROVE  \E d : PullsHead(p, d)
<1> USE DEF FREE, INCOMPLETE, LOCKED, UNUSED, INIT, Marks
<1>1. /\ pc[p] = "walk" /\ next' = [next EXCEPT ![cur[p]] = INIT]
      /\ fifo' = Without(fifo, cur[p]) /\ pc' = [pc EXCEPT ![p] = "run"]
      /\ UNCHANGED <<privateTail, cur, sharedTail, oldtail>>
  BY Zenon DEF PullWalk
<1>2. PICK w \in 0..Len(fifo), d \in 0..Len(fifo) : Chain(w, d)
  BY Zenon DEF RInv, ChainInv
<1>3. /\ Len(fifo) \in Nat /\ w \in Nat /\ d \in Nat /\ \A i \in 1..Len(fifo) : fifo[i] \in Tasklets
      /\ cur = [r \in Threads |-> cur[r]]
  BY DEF RInv, IInv, ChainTypes
<1>4. w > 0 /\ w <= d /\ cur[p] = fifo[w] /\ Chained(1, w)
  BY Zenon, <1>1, <1>2 DEF Chain, WalksAt
<1>5. w = 1
  <2>1. CASE w > 1
    <3>1. w \in (1 + 1)..w /\ w - 1 \in 1..Len(fifo)
      BY <2>1, <1>3
    <3>2. Linked(fifo[w], fifo[w - 1])
      BY Zenon, <3>1, <1>4 DEF Chained
    <3>3. next[cur[p]] = fifo[w - 1]
      BY Zenon, <3>2, <1>4 DEF Linked
    <3> QED
      BY Zenon, <3>1, <3>3, <1>3 DEF MarksDistinct
  <2> QED
    BY <2>1, <1>3, <1>4
<1>6. d \in 1..Len(fifo) /\ cur[p] = fifo[1]
  BY <1>3, <1>4, <1>5
<1>7. /\ privateTail = IF 2 <= d THEN fifo[2] ELSE FREE
      /\ \A i \in 2..d : next[fifo[i]] = IF i < d THEN fifo[i + 1] ELSE FREE
  BY <1>2, <1>5 DEF Chain, Private
<1>8. Chained(d + 1, Len(fifo)) /\ TailAt(d)
  BY Zenon, <1>2 DEF Chain
<1>9. cur' = [cur EXCEPT ![p] = fifo[1]]
  BY <1>1, <1>3, <1>6
<1>10. PullsHead(p, d)
  BY Zenon, <1>1, <1>6, <1>7, <1>8, <1>9 DEF PullsHead
<1> QED
  BY Zenon, <1>10

\* pushPrivate() puts a tasklet before all others.
LEMMA PushPrivateChain ==
    ASSUME MarksDistinct, RInv, NEW p \in Threads, NEW t \in Tasklets, PushPrivate(p, t)
    PROVE  Rest'
<1> USE DEF FREE, INCOMPLETE, LOCKED, UNUSED, INIT, Marks, Pushing
<1>0. PICK n, top : n = Len(fifo) /\ top = privateTail
  BY Zenon
<1>1. /\ pc[p] = "handler" /\ next[t] = UNUSED /\ privateTail' = t
      /\ next' = [next EXCEPT ![t] = top] /\ fifo' = <<t>> \o fifo
      /\ UNCHANGED <<sharedTail, pc, cur, oldtail, owns>>
  BY Zenon, <1>0 DEF PushPrivate
<1>2. /\ fifo \in Seq(Tasklets) /\ n \in Nat /\ \A i \in 1..n : fifo[i] \in Tasklets
      /\ next \in [Tasklets -> Tasklets \cup Marks] /\ top \in Tasklets \cup {FREE}
  BY <1>0 DEF RInv, ChainTypes
<1>3. /\ fifo' \in Seq(Tasklets) /\ Len(fifo') = n + 1 /\ fifo'[1] = t
      /\ \A i \in 2..(n + 1) : i - 1 \in 1..n /\ fifo'[i] = fifo[i - 1]
  BY <1>0, <1>1, <1>2
<1>4. next'[t] = top /\ \A u \in Tasklets : u # t => next'[u] = next[u]
  BY Zenon, <1>1, <1>2
<1>5. \A i \in 1..n : fifo[i] # t
  BY Zenon, <1>0, <1>1 DEF RInv, FifoInv
<1>6. ChainTypes'
  BY Zenon, <1>1, <1>2, <1>3 DEF RInv, ChainTypes
<1>7. \A i \in 1..(n + 1) : i = 1 \/ i \in 2..(n + 1)
  BY <1>2
<1>8. PushInv'
  <2>1. \A r \in Threads : pc[r] \in Pushing \cup {"run"} => cur[r] \in Tasklets /\ cur[r] # t
    BY Zenon, <1>1 DEF RInv, PushInv
  <2>2. \A r \in Threads : pc[r] \in Pushing \cup {"run"} => next'[cur[r]] = next[cur[r]]
    BY Zenon, <2>1, <1>4
  <2>3. ASSUME NEW r \in Threads, pc'[r] = "exchange", NEW i \in 1..Len(fifo') PROVE fifo'[i] # cur'[r]
    <3>1. pc[r] = "exchange" /\ cur'[r] = cur[r] /\ cur[r] # t
      BY Zenon, <2>1, <2>3, <1>1
    <3>2. CASE i \in 2..(n + 1)
      BY ZenonT(30), <3>1, <3>2, <1>0, <1>3 DEF RInv, PushInv
    <3> QED
      BY Zenon, <3>1, <3>2, <1>3, <1>7
  <2>4. \A r \in Threads : pc'[r] \in Pushing => cur'[r] \in Tasklets /\ next'[cur'[r]] = INCOMPLETE
    BY Zenon, <2>2, <1>1 DEF RInv, PushInv
  <2>5. \A r \in Threads : pc'[r] = "run" => cur'[r] \in Tasklets /\ next'[cur'[r]] = INIT
    BY Zenon, <2>2, <1>1 DEF RInv, PushInv
  <2> QED
    BY Zenon, <2>3, <2>4, <2>5, <1>1 DEF RInv, PushInv
<1>9. FifoInv'
  <2>1. ASSUME NEW i \in 1..Len(fifo'), NEW j \in 1..Len(fifo'), fifo'[i] = fifo'[j] PROVE i = j
    <3>1. CASE i = 1 \/ j = 1
      BY Zenon, <3>1, <2>1, <1>3, <1>5, <1>7
    <3>2. CASE i \in 2..(n + 1) /\ j \in 2..(n + 1)
      <4>1. i - 1 \in 1..n /\ j - 1 \in 1..n /\ fifo[i - 1] = fifo[j - 1]
        BY Zenon, <3>2, <2>1, <1>3
      <4>2. i - 1 = j - 1
        BY Zenon, <4>1, <1>0 DEF RInv, FifoInv
      <4> QED
        BY <3>2, <4>2, <1>2
    <3> QED
      BY Zenon, <3>1, <3>2, <1>3, <1>7
  <2>2. ASSUME NEW i \in 1..Len(fifo') PROVE next'[fifo'[i]] \notin {UNUSED, INIT}
    <3>1. CASE i = 1
      BY Zenon, <3>1, <1>2, <1>3, <1>4 DEF MarksDistinct
    <3>2. CASE i \in 2..(n + 1)
      <4>1. PICK j \in 1..n : fifo'[i] = fifo[j]
        BY Zenon, <3>2, <1>3
      <4>2. next'[fifo[j]] = next[fifo[j]]
        BY Zenon, <1>2, <1>4, <1>5
      <4> QED
        BY Zenon, <4>1, <4>2, <1>0 DEF RInv, FifoInv
    <3> QED
      BY Zenon, <3>1, <3>2, <1>3, <1>7
  <2>3. sharedTail' # FREE
    BY Zenon, <1>1 DEF RInv, IInv, SingleOwner, IsOwner, Owning
  <2>4. \A r \in Threads : pc'[r] # "release"
    BY Zenon, <1>1 DEF RInv, IInv, SingleOwner, IsOwner, Owning
  <2> QED
    BY Zenon, <2>1, <2>2, <2>3, <2>4 DEF FifoInv
<1>10. PICK w \in 0..n, d \in 0..n : Chain(w, d)
  BY Zenon, <1>0 DEF RInv, ChainInv
<1>11. w = 0 /\ d \in Nat /\ d <= n /\ \A r \in Threads : pc[r] # "walk"
  <2>1. w \in Nat /\ d \in Nat /\ d <= n
    BY <1>2
  <2> QED
    BY Zenon, <2>1, <1>1, <1>10, NotWalking DEF Owning, RInv, Chain
<1>12. ASSUME NEW u \in Tasklets, NEW v, u # t, Linked(u, v) PROVE Linked(u, v)'
  <2>1. next'[u] = next[u]
    BY Zenon, <1>4, <1>12
  <2> QED
    BY Zenon, <1>1, <1>12, <2>1 DEF Linked
<1>13. Private(0 + 1, d + 1)'
  <2>1. Private(1, d)
    BY <1>10, <1>11 DEF Chain
  <2>2. ASSUME NEW i \in 1..(d + 1) PROVE next'[fifo'[i]] = IF i < d + 1 THEN fifo'[i + 1] ELSE FREE
    <3>1. CASE i = 1
      <4>1. top = IF 1 <= d THEN fifo[1] ELSE FREE
        BY Zenon, <2>1, <1>0 DEF Private
      <4>2. (1 <= d <=> i < d + 1) /\ (1 <= d => fifo'[i + 1] = fifo[1])
        BY <3>1, <1>2, <1>3, <1>11
      <4> QED
        BY Zenon, <3>1, <4>1, <4>2, <1>3, <1>4
    <3>2. CASE i # 1
      <4>1. /\ i - 1 \in 1..d /\ i - 1 \in 1..n /\ (i < d + 1 <=> i - 1 < d)
            /\ fifo'[i] = fifo[i - 1] /\ (i < d + 1 => fifo'[i + 1] = fifo[i - 1 + 1])
        BY <3>2, <1>2, <1>3, <1>11
      <4>2. next[fifo[i - 1]] = IF i - 1 < d THEN fifo[i - 1 + 1] ELSE FREE
        BY Zenon, <4>1, <2>1 DEF Private
      <4>3. next'[fifo'[i]] = next[fifo[i - 1]]
        BY Zenon, <4>1, <1>2, <1>4, <1>5
      <4> QED
        BY Zenon, <4>1, <4>2, <4>3
    <3> QED
      BY Zenon, <3>1, <3>2
  <2>3. 0 + 1 = 1 /\ 1 <= d + 1
    BY <1>11
  <2> QED
    BY Zenon, <2>2, <2>3, <1>1, <1>3 DEF Private
<1>14. Chained(d + 1 + 1, Len(fifo))'
  <2>1. Chained(d + 1, n)
    BY Zenon, <1>0, <1>10 DEF Chain
  <2>2. ASSUME d + 1 + 1 <= Len(fifo') PROVE Linked(fifo[d + 1 + 1], FREE)' \/ Linked(fifo[d + 1 + 1], LOCKED)'
    <3>1. PICK u : u = fifo[d + 1]
      BY Zenon
    <3>2. d + 1 <= n /\ d + 1 \in 1..n /\ fifo'[d + 1 + 1] = u
      BY <2>2, <3>1, <1>2, <1>3, <1>11
    <3> QED
      BY Zenon, <2>1, <3>1, <3>2, <1>2, <1>5, <1>12 DEF Chained
  <2>3. ASSUME NEW i \in (d + 1 + 1 + 1)..Len(fifo') PROVE Linked(fifo[i], fifo[i - 1])'
    <3>1. PICK j \in (d + 1 + 1)..n : j = i - 1 /\ j \in 1..n /\ j - 1 \in 1..n /\ fifo'[i] = fifo[j] /\ fifo'[i - 1] = fifo[j - 1]
      BY <1>2, <1>3, <1>11
    <3>2. PICK u, v : u = fifo[j] /\ v = fifo[j - 1]
      BY Zenon
    <3>3. Linked(u, v)
      BY Zenon, <2>1, <3>1, <3>2 DEF Chained
    <3> QED
      BY Zenon, <3>1, <3>2, <3>3, <1>2, <1>5, <1>12
  <2> QED
    BY Zenon, <2>2, <2>3 DEF Chained
<1>15. TailAt(d + 1)'
  <2>1. TailAt(d)
    BY Zenon, <1>10 DEF Chain
  <2> QED
    BY <2>1, <1>0, <1>1, <1>2, <1>3, <1>11 DEF TailAt
<1>16. WalksAt(0)' /\ Chained(1, 0)'
  BY <1>1, <1>11 DEF WalksAt, Chained
<1>17. 0 \in 0..Len(fifo') /\ d + 1 \in 0..Len(fifo') /\ 0 <= d + 1
  BY <1>2, <1>3, <1>11
<1>18. ChainInv'
  BY Zenon, <1>13, <1>14, <1>15, <1>16, <1>17 DEF ChainInv, Chain
<1> QED
  BY Zenon, <1>6, <1>8, <1>9, <1>18 DEF Rest

\* Every step keeps the ownership and the chain.
LEMMA ChainStep ==
    ASSUME MarksDistinct, RInv, [Next]_vars
    PROVE  RInv'
<1>1. IInv'
  BY Zenon, OwnerStep DEF RInv
<1>2. ASSUME NEW p \in Threads, PullPrivate(p) PROVE Rest'
  BY Zenon, <1>2, PullPrivateChain, PullHeadChain
<1>3. ASSUME NEW p \in Threads, PullWalk(p) PROVE Rest'
  <2>1. CASE next[cur[p]] \in {FREE, LOCKED}
    BY Zenon, <1>3, <2>1, PullLastChain, PullHeadChain
  <2>2. CASE next[cur[p]] \notin {FREE, LOCKED}
    BY Zenon, <1>3, <2>2, PullMoveChain
  <2> QED
    BY Zenon, <2>1, <2>2
<1>4. ASSUME UNCHANGED vars PROVE Rest'
  <2>1. UNCHANGED <<sharedTail, privateTail, next, pc, cur, oldtail, fifo>>
    BY Zenon, <1>4 DEF vars
  <2>2. ChainTypes' /\ PushInv' /\ FifoInv'
    BY Zenon, <2>1 DEF RInv, ChainTypes, PushInv, FifoInv
  <2>3. ASSUME NEW u \in Tasklets, NEW v \in Tasklets \cup {FREE, LOCKED}, Linked(u, v) PROVE Linked(u, v)'
    BY Zenon, <2>1, <2>3 DEF Linked
  <2>4. ChainInv'
    BY Zenon, <2>1, <2>3, ChainFrame DEF RInv, ChainTypes
  <2> QED
    BY Zenon, <2>2, <2>4 DEF Rest
<1>5. Rest'
  BY Zenon, <1>2, <1>3, <1>4, PushMarkChain, PushExchangeChain, PushCompleteChain, TryAcquireChain,
     PullSharedChain, RunChain, PushPrivateChain, HandlerDoneChain, TryReleaseChain DEF Next, Step
<1> QED
  BY Zenon, <1>1, <1>5 DEF RInv, Rest

\* The refinement mapping names the thread that owns the queue.
LEMMA OwnerIs ==
    ASSUME SingleOwner
    PROVE  /\ \A p \in Threads : IsOwner(p) => Owner = p
           /\ sharedTail = FREE => Owner = None
           /\ sharedTail # FREE => Owner \in Threads /\ IsOwner(Owner)
<1>1. ASSUME NEW p \in Threads, IsOwner(p) PROVE Owner = p
  <2>1. Owner \in Threads /\ IsOwner(Owner)
    BY <1>1 DEF Owner
  <2> QED
    BY Zenon, <1>1, <2>1 DEF SingleOwner
<1>2. sharedTail = FREE => Owner = None
  BY Zenon DEF SingleOwner, Owner
<1>3. sharedTail # FREE => Owner \in Threads /\ IsOwner(Owner)
  BY Zenon, <1>1 DEF SingleOwner
<1> QED
  BY Zenon, <1>1, <1>2, <1>3

\* The owner does not change when nobody becomes or ceases to be owner.
LEMMA OwnerFrame ==
    ASSUME SingleOwner, SingleOwner', \A r \in Threads : IsOwner(r)' <=> IsOwner(r)
    PROVE  Owner' = Owner
<1>1. CASE \E p \in Threads : IsOwner(p)
  <2>1. PICK p \in Threads : IsOwner(p)
    BY Zenon, <1>1
  <2>2. Owner = p
    BY Zenon, <2>1, OwnerIs
  <2>3. Owner' = p
    <3>1. Owner' \in Threads /\ IsOwner(Owner)'
      BY <2>1 DEF Owner
    <3> QED
      BY Zenon, <2>1, <3>1 DEF SingleOwner
  <2> QED
    BY Zenon, <2>2, <2>3
<1>2. CASE ~\E p \in Threads : IsOwner(p)
  BY Zenon, <1>2 DEF Owner
<1> QED
  BY Zenon, <1>1, <1>2

\* The thread that owns the queue after a step is named by Owner'.
LEMMA OwnerBecomes ==
    ASSUME SingleOwner', NEW p \in Threads, IsOwner(p)'
    PROVE  Owner' = p
<1>1. Owner' \in Threads /\ IsOwner(Owner)'
  BY DEF Owner
<1> QED
  BY Zenon, <1>1 DEF SingleOwner

\* tryAcquire() of the abstract queue sets its lock.
LEMMA QueueTryAcquire ==
    ASSUME NEW s, NEW l \in BOOLEAN
    PROVE  DQ!TryAcquire([locked |-> l, tasks |-> s]) = [locked |-> TRUE, tasks |-> s]
<1>1. PICK r : r = [locked |-> l, tasks |-> s]
  BY Zenon
<1>2. r \in [locked : BOOLEAN, tasks : {s}]
  BY <1>1
<1>3. [r EXCEPT !.locked = TRUE] \in [locked : BOOLEAN, tasks : {s}] /\ [r EXCEPT !.locked = TRUE].locked = TRUE
  BY Zenon, <1>2
<1>4. \A x \in [locked : BOOLEAN, tasks : {s}] : x.locked = TRUE => x = [locked |-> TRUE, tasks |-> s]
  OBVIOUS
<1> QED
  BY Zenon, <1>1, <1>3, <1>4 DEF DQ!TryAcquire

\* pushPrivate() of the abstract queue puts the tasklet first.
LEMMA QueuePushPrivate ==
    ASSUME NEW s, NEW t, NEW l \in BOOLEAN
    PROVE  DQ!PushPrivate([locked |-> l, tasks |-> s], t) = [locked |-> l, tasks |-> <<t>> \o s]
<1>1. PICK r, n : r = [locked |-> l, tasks |-> s] /\ n = <<t>> \o s
  BY Zenon
<1>2. r \in [locked : {l}, tasks : {s, n}] /\ r.tasks = s
  BY <1>1
<1>3. [r EXCEPT !.tasks = n] \in [locked : {l}, tasks : {s, n}] /\ [r EXCEPT !.tasks = n].tasks = n
  BY <1>2
<1>4. \A x \in [locked : {l}, tasks : {s, n}] : x.tasks = n => x = [locked |-> l, tasks |-> n]
  OBVIOUS
<1> QED
  BY Zenon, <1>1, <1>2, <1>3, <1>4 DEF DQ!PushPrivate

\* pull() and tryRelease() of the abstract queue.
LEMMA QueuePullRelease ==
    ASSUME NEW s, NEW l \in BOOLEAN
    PROVE  /\ s # <<>> => DQ!Pull([locked |-> l, tasks |-> s]) = [locked |-> TRUE, tasks |-> Tail(s)]
           /\ DQ!CanRelease([locked |-> l, tasks |-> s]) <=> l /\ s = <<>>
BY Zenon DEF DQ!Pull, DQ!CanRelease

\* Every step of the queue is a step of DelegationQueue or changes nothing there.
LEMMA RefinementStep ==
    ASSUME MarksDistinct, RInv, RInv', [Next]_vars
    PROVE  [DQ!Next]_(DQ!vars)
<1> USE DEF FREE, LOCKED
<1> DEFINE queue == [locked |-> sharedTail # FREE, tasks |-> fifo]
<1>1. SingleOwner /\ SingleOwner'
  BY Zenon DEF RInv, IInv
<1>2. /\ pc = [r \in Threads |-> pc[r]] /\ oldtail = [r \in Threads |-> oldtail[r]] /\ owns = [r \in Threads |-> owns[r]]
      /\ owns \in [Threads -> BOOLEAN] /\ fifo \in Seq(Tasklets)
      /\ \A r \in Threads : pc[r] \in Owning => owns[r]
      /\ \A r \in Threads : owns[r] => pc[r] # "idle"
  BY DEF RInv, IInv, ChainTypes
<1>3. None \notin Threads /\ Tasklets \cap {FREE, LOCKED} = {}
  BY Zenon DEF MarksDistinct, Marks
<1>4. ASSUME queue' = queue, \A r \in Threads : IsOwner(r)' <=> IsOwner(r)
      PROVE  UNCHANGED DQ!vars
  BY Zenon, <1>1, <1>4, OwnerFrame DEF DQ!vars
<1>5. ASSUME NEW p \in Threads, IsOwner(p) PROVE sharedTail # FREE /\ Owner = p /\ Owner # None
  BY Zenon, <1>1, <1>3, <1>5, OwnerIs DEF SingleOwner
<1>6. ASSUME NEW p \in Threads, NEW t \in Tasklets, PushMark(p, t) PROVE UNCHANGED DQ!vars
  <2>1. queue' = queue
    BY Zenon, <1>6 DEF PushMark
  <2>2. \A r \in Threads : IsOwner(r)' <=> IsOwner(r)
    BY Zenon, <1>2, <1>6 DEF PushMark, IsOwner
  <2> QED
    BY Zenon, <2>1, <2>2, <1>4
<1>7. ASSUME NEW p \in Threads, PushExchange(p) PROVE DQ!Next
  <2>1. /\ pc[p] = "exchange" /\ pc' = [pc EXCEPT ![p] = "complete"]
        /\ oldtail' = [oldtail EXCEPT ![p] = sharedTail] /\ sharedTail' = cur[p]
        /\ fifo' = Append(fifo, cur[p]) /\ owns' = owns
    BY Zenon, <1>7 DEF PushExchange
  <2>2. cur[p] \in Tasklets /\ \A i \in 1..Len(fifo) : fifo[i] # cur[p]
    BY Zenon, <2>1 DEF RInv, PushInv, Pushing
  <2>3. sharedTail' # FREE
    BY Zenon, <2>1, <2>2, <1>3
  <2>4. queue' = DQ!Push(queue, cur[p])
    BY Zenon, <2>1, <2>3 DEF DQ!Push
  <2>5. \A i \in DOMAIN queue.tasks : queue.tasks[i] # cur[p]
    BY <2>2, <1>2
  <2>6. Owner' = IF queue.locked THEN Owner ELSE p
    <3>1. CASE sharedTail = FREE
      <4>1. IsOwner(p)'
        BY Zenon, <2>1, <3>1, <1>2 DEF IsOwner
      <4> QED
        BY Zenon, <4>1, <3>1, <1>1, OwnerBecomes
    <3>2. CASE sharedTail # FREE
      <4>1. \A r \in Threads : IsOwner(r)' <=> IsOwner(r)
        BY Zenon, <2>1, <3>2, <1>2 DEF IsOwner
      <4> QED
        BY Zenon, <4>1, <3>2, <1>1, OwnerFrame
    <3> QED
      BY Zenon, <3>1, <3>2
  <2>7. DQ!Pushes(p, cur[p])
    BY Zenon, <2>4, <2>5, <2>6 DEF DQ!Pushes
  <2> QED
    BY Zenon, <2>2, <2>7 DEF DQ!Next
<1>8. ASSUME NEW p \in Threads, PushComplete(p) PROVE UNCHANGED DQ!vars
  <2>1. queue' = queue
    BY Zenon, <1>8 DEF PushComplete
  <2>2. pc[p] = "complete" /\ \A r \in Threads : r # p => pc'[r] = pc[r] /\ oldtail'[r] = oldtail[r] /\ owns'[r] = owns[r]
    BY Zenon, <1>2, <1>8 DEF PushComplete
  <2>3. owns'[p] <=> owns[p] \/ oldtail[p] = FREE
    BY Zenon, <1>2, <1>8 DEF PushComplete
  <2>4. pc'[p] # "complete"
    BY Zenon, <1>2, <1>8 DEF PushComplete
  <2>5. \A r \in Threads : IsOwner(r)' <=> IsOwner(r)
    BY Zenon, <2>2, <2>3, <2>4 DEF IsOwner
  <2> QED
    BY Zenon, <2>1, <2>5, <1>4
<1>9. ASSUME NEW p \in Threads, TryAcquire(p) PROVE DQ!Next
  <2>1. sharedTail = FREE /\ sharedTail' = LOCKED /\ fifo' = fifo /\ owns' = [owns EXCEPT ![p] = TRUE]
    BY Zenon, <1>9 DEF TryAcquire
  <2>2. ~queue.locked /\ queue' = DQ!TryAcquire(queue)
    <3>1. queue = [locked |-> FALSE, tasks |-> fifo] /\ queue' = [locked |-> TRUE, tasks |-> fifo]
      BY Zenon, <2>1
    <3>2. DQ!TryAcquire(queue) = [locked |-> TRUE, tasks |-> fifo]
      BY Zenon, QueueTryAcquire
    <3> QED
      BY Zenon, <3>1, <3>2
  <2>3. Owner' = p
    BY Zenon, <2>1, <1>1, <1>2, OwnerBecomes DEF IsOwner
  <2>4. DQ!Acquires(p)
    BY Zenon, <2>2, <2>3 DEF DQ!Acquires
  <2> QED
    BY Zenon, <2>4 DEF DQ!Next
<1>10. ASSUME NEW p \in Threads, pc[p] \in Owning, Len(fifo) > 0, fifo' = Tail(fifo), sharedTail' = sharedTail,
              \A r \in Threads : IsOwner(r)' <=> IsOwner(r)
       PROVE  DQ!Next
  <2>1. sharedTail # FREE /\ Owner # None
    BY Zenon, <1>2, <1>5, <1>10 DEF IsOwner
  <2>2. Owner' = Owner
    BY Zenon, <1>1, <1>10, OwnerFrame
  <2>3. queue.tasks # <<>> /\ queue' = DQ!Pull(queue)
    <3>1. fifo # <<>>
      BY <1>10
    <3>2. DQ!Pull(queue) = [locked |-> TRUE, tasks |-> Tail(fifo)]
      BY Zenon, <3>1, QueuePullRelease
    <3>3. queue' = [locked |-> TRUE, tasks |-> Tail(fifo)]
      BY Zenon, <2>1, <1>10
    <3> QED
      BY Zenon, <3>1, <3>2, <3>3
  <2>4. DQ!Pulls
    BY Zenon, <2>1, <2>2, <2>3 DEF DQ!Pulls
  <2> QED
    BY Zenon, <2>4 DEF DQ!Next
<1>11. ASSUME NEW p \in Threads, PullPrivate(p) PROVE DQ!Next
  <2>1. Len(fifo) > 0 /\ fifo' = Tail(fifo)
    BY Zenon, <1>11, PullPrivateChain, PullHeadChain
  <2>2. pc[p] \in Owning /\ sharedTail' = sharedTail /\ \A r \in Threads : IsOwner(r)' <=> IsOwner(r)
    BY Zenon, <1>2, <1>11 DEF PullPrivate, IsOwner, Owning
  <2> QED
    BY Zenon, <2>1, <2>2, <1>10
<1>12. ASSUME NEW p \in Threads, PullShared(p) PROVE UNCHANGED DQ!vars
  <2>1. pc[p] = "pull" /\ sharedTail' = LOCKED /\ UNCHANGED <<fifo, oldtail, owns>>
    BY Zenon, <1>12 DEF PullShared
  <2>2. sharedTail # FREE
    BY Zenon, <2>1, <1>2, <1>5 DEF IsOwner, Owning
  <2>3. queue' = queue
    BY <2>1, <2>2
  <2>4. \A r \in Threads : pc'[r] = "complete" <=> pc[r] = "complete"
    BY Zenon, <2>1, <1>2, <1>12 DEF PullShared
  <2>5. \A r \in Threads : IsOwner(r)' <=> IsOwner(r)
    BY Zenon, <2>1, <2>4 DEF IsOwner
  <2> QED
    BY Zenon, <2>3, <2>5, <1>4
<1>13. ASSUME NEW p \in Threads, PullWalk(p) PROVE DQ!Next \/ UNCHANGED DQ!vars
  <2>1. pc[p] = "walk" /\ UNCHANGED <<sharedTail, oldtail, owns>>
    BY Zenon, <1>13 DEF PullWalk
  <2>2. \A r \in Threads : pc'[r] = "complete" <=> pc[r] = "complete"
    BY Zenon, <2>1, <1>2, <1>13 DEF PullWalk
  <2>3. \A r \in Threads : IsOwner(r)' <=> IsOwner(r)
    BY Zenon, <2>1, <2>2 DEF IsOwner
  <2>4. CASE next[cur[p]] \in {FREE, LOCKED}
    <3>1. Len(fifo) > 0 /\ fifo' = Tail(fifo)
      BY Zenon, <1>13, <2>4, PullLastChain, PullHeadChain
    <3> QED
      BY Zenon, <3>1, <2>1, <2>3, <1>10 DEF Owning
  <2>5. CASE next[cur[p]] \notin {FREE, LOCKED}
    <3>1. queue' = queue
      BY Zenon, <2>1, <2>5, <1>13 DEF PullWalk
    <3> QED
      BY Zenon, <3>1, <2>3, <1>4
  <2> QED
    BY Zenon, <2>4, <2>5
<1>14. ASSUME NEW p \in Threads, Run(p) \/ HandlerDone(p) PROVE UNCHANGED DQ!vars
  <2>1. queue' = queue /\ UNCHANGED <<oldtail, owns>>
    BY Zenon, <1>14 DEF Run, HandlerDone
  <2>2. \A r \in Threads : pc'[r] = "complete" <=> pc[r] = "complete"
    BY Zenon, <1>2, <1>14 DEF Run, HandlerDone
  <2>3. \A r \in Threads : IsOwner(r)' <=> IsOwner(r)
    BY Zenon, <2>1, <2>2 DEF IsOwner
  <2> QED
    BY Zenon, <2>1, <2>3, <1>4
<1>15. ASSUME NEW p \in Threads, NEW t \in Tasklets, PushPrivate(p, t) PROVE DQ!Next
  <2>1. pc[p] = "handler" /\ next[t] = UNUSED /\ fifo' = <<t>> \o fifo /\ UNCHANGED <<sharedTail, pc, oldtail, owns>>
    BY Zenon, <1>15 DEF PushPrivate
  <2>2. Owner # None /\ Owner' = Owner
    BY Zenon, <2>1, <1>1, <1>2, <1>5, OwnerFrame DEF IsOwner, Owning
  <2>3. \A i \in 1..Len(fifo) : fifo[i] # t
    BY Zenon, <2>1 DEF RInv, FifoInv
  <2>4. queue' = DQ!PushPrivate(queue, t) /\ \A i \in DOMAIN queue.tasks : queue.tasks[i] # t
    <3>1. DQ!PushPrivate(queue, t) = [locked |-> sharedTail # FREE, tasks |-> <<t>> \o fifo]
      BY Zenon, QueuePushPrivate
    <3>2. queue' = [locked |-> sharedTail # FREE, tasks |-> <<t>> \o fifo]
      BY Zenon, <2>1
    <3>3. DOMAIN fifo = 1..Len(fifo)
      BY <1>2
    <3> QED
      BY Zenon, <3>1, <3>2, <3>3, <2>3
  <2>5. DQ!PushesPrivate(t)
    BY Zenon, <2>2, <2>4 DEF DQ!PushesPrivate
  <2> QED
    BY Zenon, <2>5 DEF DQ!Next
<1>16. ASSUME NEW p \in Threads, TryRelease(p) PROVE DQ!Next \/ UNCHANGED DQ!vars
  <2>1. pc[p] = "release" /\ fifo' = fifo /\ oldtail' = oldtail
    BY Zenon, <1>16 DEF TryRelease
  <2>2. Owner = p /\ Owner # None
    BY Zenon, <2>1, <1>2, <1>5 DEF IsOwner, Owning
  <2>3. CASE sharedTail = LOCKED
    <3>1. Len(fifo) = 0
      BY Zenon, <1>16, <2>3, TryReleaseChain
    <3>2. sharedTail' = FREE
      BY Zenon, <1>16, <2>3 DEF TryRelease
    <3>3. Owner' = None
      BY Zenon, <3>2, <1>1 DEF SingleOwner, Owner
    <3>4. DQ!CanRelease(queue) /\ queue' = DQ!TryRelease(queue)
      <4>1. fifo = <<>> /\ sharedTail # FREE
        BY <3>1, <2>3, <1>2
      <4>2. DQ!CanRelease(queue)
        BY Zenon, <4>1, QueuePullRelease
      <4>3. queue' = DQ!FreeQueue
        BY Zenon, <3>2, <2>1, <4>1 DEF DQ!FreeQueue
      <4> QED
        BY Zenon, <4>2, <4>3 DEF DQ!TryRelease
    <3>5. DQ!Releases
      BY Zenon, <3>3, <3>4, <2>2 DEF DQ!Releases
    <3> QED
      BY Zenon, <3>5 DEF DQ!Next
  <2>4. CASE sharedTail # LOCKED
    <3>1. queue' = queue /\ owns' = owns /\ pc' = [pc EXCEPT ![p] = "pull"]
      BY Zenon, <1>16, <2>1, <2>4 DEF TryRelease
    <3>2. \A r \in Threads : IsOwner(r)' <=> IsOwner(r)
      BY Zenon, <3>1, <2>1, <1>2 DEF IsOwner
    <3> QED
      BY Zenon, <3>1, <3>2, <1>4
  <2> QED
    BY Zenon, <2>3, <2>4
<1>17. CASE UNCHANGED vars
  <2>1. queue' = queue /\ \A r \in Threads : IsOwner(r)' <=> IsOwner(r)
    BY Zenon, <1>17 DEF vars, IsOwner
  <2> QED
    BY Zenon, <2>1, <1>4
<1> QED
  BY Zenon, <1>6, <1>7, <1>8, <1>9, <1>11, <1>12, <1>13, <1>14, <1>15, <1>16, <1>17 DEF Next, Step

\* The queue starts with an empty chain that nobody owns.
LEMMA ChainInit ==
    ASSUME MarksDistinct, Init
    PROVE  RInv
<1> USE DEF FREE, INCOMPLETE, LOCKED, UNUSED, INIT, Marks, Owning, Pushing
<1>1. IInv
  BY DEF Init, IInv, SingleOwner, IsOwner
<1>2. ChainTypes /\ PushInv /\ FifoInv
  BY DEF Init, ChainTypes, PushInv, FifoInv
<1>3. Len(fifo) = 0 /\ privateTail = FREE /\ sharedTail = FREE /\ \A p \in Threads : pc[p] # "walk"
  BY DEF Init
<1>4. Chain(0, 0)
  BY <1>3 DEF Chain, Chained, Private, TailAt, WalksAt
<1>5. 0 \in 0..Len(fifo)
  BY <1>3
<1> QED
  BY Zenon, <1>1, <1>2, <1>4, <1>5 DEF RInv, ChainInv

\* ChainFIFO (TaskletQueue.hh) implements DelegationQueue: whatever pushes are
\* in progress, pull() returns the oldest tasklet, none is lost or returned
\* twice, and tryRelease() succeeds only when nothing is pending.
THEOREM TaskletQueueRefinement ==
    ASSUME MarksDistinct
    PROVE  Spec => ImplementsDelegationQueue
<1>1. Init => RInv
  BY ChainInit
<1>2. RInv /\ [Next]_vars => RInv'
  BY ChainStep
<1>3. Init => DQ!Init
  <2> SUFFICES ASSUME Init PROVE DQ!Init
    OBVIOUS
  <2>1. SingleOwner /\ sharedTail = FREE
    BY DEF Init, SingleOwner, IsOwner, FREE
  <2>2. Owner = None
    BY Zenon, <2>1, OwnerIs
  <2> QED
    BY Zenon, <2>2 DEF Init, DQ!Init, DQ!FreeQueue
<1>4. RInv /\ RInv' /\ [Next]_vars => [DQ!Next]_(DQ!vars)
  BY RefinementStep
<1> QED
  BY <1>1, <1>2, <1>3, <1>4, PTL DEF Spec, ImplementsDelegationQueue, DQ!Spec
=============================================================================
