-------------------------- MODULE TidexMutexProofs --------------------------
(***************************************************************************)
(* Mutual exclusion and FIFO order of the tidex mutex for any set of        *)
(* threads.  ChainInv is inductive together with TypeOK; mutual exclusion   *)
(* is its third conjunct, and the refinement of FifoLock follows from it.   *)
(***************************************************************************)
EXTENDS TidexMutex, SequenceTheorems, TLAPS

IInv == TypeOK /\ ChainInv

\* Neg maps identifiers to identifiers, never to one in use.
LEMMA NegFacts ==
    ASSUME NEW t \in Threads
    PROVE  /\ t \in ThreadIDs
           /\ Neg(t) \in ThreadIDs
           /\ \A u \in Threads : t # Neg(u) /\ (Neg(t) = Neg(u) => t = u)
  BY ThreadsAssumption DEF Neg, ThreadIDs

\* What Tail leaves of a nonempty sequence.
LEMMA TailFacts ==
    ASSUME NEW S, NEW s \in Seq(S), s # <<>>
    PROVE  /\ Len(s) \in Nat \ {0} /\ Len(Tail(s)) = Len(s) - 1
           /\ DOMAIN Tail(s) = 1 .. Len(s) - 1 /\ DOMAIN s = 1 .. Len(s)
           /\ \A i \in 1 .. Len(s) - 1 : Tail(s)[i] = s[i + 1]
           /\ Tail(s) \in Seq(S)
           /\ Tail(s) = <<>> <=> Len(s) = 1
<1>1. Len(s) \in Nat \ {0}
  BY EmptySeq
<1>2. Tail(s) \in Seq(S) /\ Len(Tail(s)) = Len(s) - 1
  BY HeadTailProperties
<1>3. DOMAIN s = 1 .. Len(s) /\ DOMAIN Tail(s) = 1 .. Len(s) - 1
  BY <1>2, LenProperties
<1>4. \A i \in 1 .. Len(s) - 1 : Tail(s)[i] = s[i + 1]
  BY <1>2, HeadTailProperties
<1>5. Tail(s) = <<>> <=> Len(s) = 1
  <2> DEFINE r == Tail(s)
  <2>1. r # <<>> => Len(r) # 0
    BY <1>2, EmptySeq
  <2>2. r = <<>> => Len(r) = 0
    <3>1. Len(<<>>) = 0
      BY EmptySeq
    <3> HIDE DEF r
    <3> QED BY <3>1
  <2>3. Len(r) = 0 <=> Len(s) = 1
    BY <1>1, <1>2
  <2> QED BY <2>1, <2>2, <2>3
<1> QED BY <1>1, <1>2, <1>3, <1>4, <1>5

\* The constructor's state is an empty chain: ingress and egress agree and no
\* thread waits.
LEMMA InitIInv == Init => IInv
  BY ThreadsAssumption DEF Init, IInv, TypeOK, ChainInv, ThreadIDs

\* Every step of the code preserves the chain of waiting threads.
LEMMA NextIInv == IInv /\ [Next]_vars => IInv'
<1> SUFFICES ASSUME IInv, [Next]_vars PROVE IInv'
  OBVIOUS
<1> USE DEF IInv
<1>1. ASSUME NEW t \in Threads, ChooseID(t) PROVE IInv'
  <2>1. TypeOK'
    BY <1>1, NegFacts DEF TypeOK, ChooseID
  <2>2. ChainInv'
    BY <1>1, NegFacts DEF TypeOK, ChainInv, ChooseID
  <2> QED BY <2>1, <2>2
<1>2. ASSUME NEW t \in Threads, Exchange(t) PROVE IInv'
  <2>1. TypeOK'
    BY <1>2 DEF TypeOK, Exchange
  <2>2. \A i \in DOMAIN queue : queue[i] # t /\ queue[i] \in Threads
    BY <1>2 DEF TypeOK, ChainInv, Exchange
  <2>3. /\ DOMAIN queue' = 1 .. Len(queue) + 1 /\ DOMAIN queue = 1 .. Len(queue)
        /\ Len(queue) \in Nat /\ Len(queue') = Len(queue) + 1
        /\ queue'[Len(queue) + 1] = t
        /\ \A i \in DOMAIN queue : queue'[i] = queue[i]
    BY <1>2 DEF TypeOK, Exchange
  <2>4. ChainInv'
    <3> USE <2>2, <2>3, <1>2 DEF Exchange
    <3>1. \A u \in Threads : pc'[u] \in {"spin", "critical"} <=> \E i \in DOMAIN queue' : queue'[i] = u
      BY DEF TypeOK, ChainInv
    <3>2. \A i, j \in DOMAIN queue' : queue'[i] = queue'[j] => i = j
      BY DEF TypeOK, ChainInv
    <3>3. \A u \in Threads : pc'[u] = "critical" => queue' # <<>> /\ queue'[1] = u
      BY DEF TypeOK, ChainInv
    <3>4. \A i \in DOMAIN queue' :
             prevtid'[queue'[i]] = IF i = 1 THEN egress' ELSE mytid'[queue'[i - 1]]
      BY DEF TypeOK, ChainInv
    <3>5. ingress' = mytid'[queue'[Len(queue')]] /\ queue' # <<>>
      BY DEF TypeOK
    <3>6. \A u \in Threads : /\ mytid'[u] \in {u, Neg(u)}
                             /\ pc'[u] # "idle" => mytid'[u] # egress'
      BY DEF TypeOK, ChainInv
    <3> QED BY <3>1, <3>2, <3>3, <3>4, <3>5, <3>6 DEF ChainInv
  <2> QED BY <2>1, <2>4
<1>3. ASSUME NEW t \in Threads, Enter(t) PROVE IInv'
  <2>1. TypeOK'
    BY <1>3 DEF TypeOK, Enter
  <2>2. PICK i \in DOMAIN queue : queue[i] = t
    BY <1>3 DEF ChainInv, Enter
  <2>3. i = 1
    <3>1. SUFFICES ASSUME i # 1 PROVE FALSE
      OBVIOUS
    <3>2. i - 1 \in DOMAIN queue /\ queue[i - 1] \in Threads
      BY <2>2, <3>1 DEF TypeOK
    <3>3. pc[queue[i - 1]] # "idle"
      BY <3>2 DEF ChainInv
    <3>4. egress = mytid[queue[i - 1]]
      BY <1>3, <2>2, <3>1 DEF ChainInv, Enter
    <3> QED BY <3>2, <3>3, <3>4 DEF ChainInv
  <2>4. ChainInv'
    BY <1>3, <2>2, <2>3 DEF TypeOK, ChainInv, Enter
  <2> QED BY <2>1, <2>4
<1>4. ASSUME NEW t \in Threads, Unlock(t) PROVE IInv'
  <2>1. queue # <<>> /\ queue[1] = t
    BY <1>4 DEF ChainInv, Unlock
  <2>2. /\ Len(queue) \in Nat \ {0} /\ Len(queue') = Len(queue) - 1
        /\ DOMAIN queue' = 1 .. Len(queue) - 1 /\ DOMAIN queue = 1 .. Len(queue)
        /\ \A i \in 1 .. Len(queue) - 1 : queue'[i] = queue[i + 1]
        /\ queue' \in Seq(Threads)
        /\ queue' = <<>> <=> Len(queue) = 1
    <3>1. queue \in Seq(Threads) /\ queue # <<>> /\ queue' = Tail(queue)
      BY <1>4, <2>1 DEF TypeOK, Unlock
    <3> QED BY <3>1, TailFacts
  <2>3. TypeOK'
    BY <1>4, <2>2 DEF TypeOK, Unlock
  <2>4. \A i \in DOMAIN queue : queue[i] \in Threads /\ (i # 1 => queue[i] # t)
    BY <2>1, <2>2 DEF TypeOK, ChainInv
  <2>5. ChainInv'
    <3> USE <2>1, <2>2, <2>4, <1>4 DEF Unlock
    <3>1. \A u \in Threads : pc'[u] \in {"spin", "critical"} <=> \E i \in DOMAIN queue' : queue'[i] = u
      <4>1. ASSUME NEW u \in Threads, NEW i \in DOMAIN queue', queue'[i] = u
            PROVE  pc'[u] \in {"spin", "critical"}
        BY <4>1 DEF TypeOK, ChainInv
      <4>2. ASSUME NEW u \in Threads, pc'[u] \in {"spin", "critical"}
            PROVE  \E i \in DOMAIN queue' : queue'[i] = u
        <5>1. u # t /\ pc[u] \in {"spin", "critical"}
          BY <4>2 DEF TypeOK
        <5>2. PICK j \in DOMAIN queue : queue[j] = u
          BY <5>1 DEF ChainInv
        <5>3. j - 1 \in DOMAIN queue' /\ queue'[j - 1] = u
          BY <5>1, <5>2
        <5> QED BY <5>3
      <4> QED BY <4>1, <4>2
    <3>2. \A i, j \in DOMAIN queue' : queue'[i] = queue'[j] => i = j
      BY DEF TypeOK, ChainInv
    <3>3. \A u \in Threads : pc'[u] # "critical"
      BY DEF TypeOK, ChainInv
    <3>4. \A i \in DOMAIN queue' :
             prevtid'[queue'[i]] = IF i = 1 THEN egress' ELSE mytid'[queue'[i - 1]]
      <4> SUFFICES ASSUME NEW i \in DOMAIN queue'
                   PROVE  prevtid'[queue'[i]] = IF i = 1 THEN egress' ELSE mytid'[queue'[i - 1]]
        OBVIOUS
      <4>1. i + 1 \in DOMAIN queue /\ prevtid[queue[i + 1]] = mytid[queue[i]]
        BY SMTT(20) DEF ChainInv
      <4>2. CASE i = 1
        BY <4>1, <4>2
      <4>3. CASE i # 1
        BY <4>1, <4>3
      <4> QED BY <4>2, <4>3
    <3>5. ingress' = IF queue' = <<>> THEN egress' ELSE mytid'[queue'[Len(queue')]]
      BY DEF ChainInv
    <3>6. \A u \in Threads : mytid'[u] \in {u, Neg(u)}
      BY DEF ChainInv
    <3>7. \A u \in Threads : pc'[u] # "idle" => mytid'[u] # egress'
      <4> SUFFICES ASSUME NEW u \in Threads, pc'[u] # "idle" PROVE mytid[u] # mytid[t]
        OBVIOUS
      <4>1. u # t
        BY DEF TypeOK
      <4> QED BY <4>1, NegFacts DEF ChainInv
    <3> QED BY Zenon, <3>1, <3>2, <3>3, <3>4, <3>5, <3>6, <3>7 DEF ChainInv
  <2> QED BY <2>3, <2>5
<1>5. CASE UNCHANGED vars
  BY <1>5 DEF TypeOK, ChainInv, vars
<1> QED BY <1>1, <1>2, <1>3, <1>4, <1>5 DEF Next

\* The invariant that mutual exclusion and the FIFO order rest on: the
\* identifiers exchanged into ingress chain the waiting threads to egress.
THEOREM ChainInvariant == Spec => [](TypeOK /\ ChainInv)
<1>1. IInv => TypeOK /\ ChainInv
  BY DEF IInv
<1> QED BY <1>1, InitIInv, NextIInv, PTL DEF Spec

\* Mutual exclusion: two threads in the critical section are both the first
\* element of the queue.
THEOREM TidexMutualExclusion == Spec => []MutualExclusion
<1>1. IInv => MutualExclusion
  BY DEF IInv, ChainInv, MutualExclusion
<1> QED BY <1>1, InitIInv, NextIInv, PTL DEF Spec

\* Each step of the lock is a step of the FIFO lock or leaves it alone.
THEOREM TidexRefinesFifo == Spec => ImplementsFifoLock
<1>1. Init => Fifo!Init
  BY DEF Init, Fifo!Init
<1>2. IInv /\ IInv' /\ [Next]_vars => [Fifo!Next]_Fifo!vars
  <2> SUFFICES ASSUME IInv, IInv', [Next]_vars PROVE [Fifo!Next]_Fifo!vars
    OBVIOUS
  <2> USE DEF IInv
  <2>1. ASSUME NEW t \in Threads, ChooseID(t) PROVE UNCHANGED Fifo!vars
    BY <2>1 DEF ChooseID, TypeOK, Fifo!vars
  <2>2. ASSUME NEW t \in Threads, Exchange(t) PROVE Fifo!Join(t)
    <3>1. \A i \in DOMAIN queue : queue[i] # t
      BY <2>2 DEF Exchange, ChainInv
    <3>2. (\E u \in Threads : pc'[u] = "critical") = (\E u \in Threads : pc[u] = "critical")
      BY <2>2 DEF Exchange, TypeOK
    <3> QED BY <2>2, <3>1, <3>2 DEF Exchange, Fifo!Join
  <2>3. ASSUME NEW t \in Threads, Enter(t) PROVE Fifo!Acquire
    <3>1. pc'[t] = "critical" /\ pc[t] = "spin"
      BY <2>3 DEF Enter, TypeOK
    <3>2. queue[1] = t /\ queue # <<>>
      BY <2>3, <3>1 DEF ChainInv, Enter
    <3>3. \A u \in Threads : pc[u] # "critical"
      BY <3>1, <3>2 DEF ChainInv
    <3>4. (\E u \in Threads : pc[u] = "critical") = FALSE
      BY <3>3
    <3>5. (\E u \in Threads : pc'[u] = "critical") = TRUE
      BY <3>1
    <3> QED BY <2>3, <3>2, <3>4, <3>5 DEF Enter, Fifo!Acquire
  <2>4. ASSUME NEW t \in Threads, Unlock(t) PROVE Fifo!Release
    <3>1. pc[t] = "critical" /\ queue[1] = t /\ queue # <<>>
      BY <2>4 DEF ChainInv, Unlock
    <3>2. \A u \in Threads : pc'[u] # "critical"
      BY <2>4, <3>1 DEF ChainInv, Unlock, TypeOK
    <3>3. (\E u \in Threads : pc[u] = "critical") = TRUE
      BY <3>1
    <3>4. (\E u \in Threads : pc'[u] = "critical") = FALSE
      BY <3>2
    <3> QED BY <2>4, <3>1, <3>3, <3>4 DEF Unlock, Fifo!Release
  <2>5. CASE UNCHANGED vars
    BY <2>5 DEF vars, Fifo!vars
  <2> QED BY <2>1, <2>2, <2>3, <2>4, <2>5 DEF Next, Fifo!Next
<1> QED BY <1>1, <1>2, InitIInv, NextIInv, PTL DEF Spec, ImplementsFifoLock, Fifo!Spec

=============================================================================
