---------------------------- MODULE PortalProofs ----------------------------
(***************************************************************************)
(* The protocol of Portal, for any number of portals, execution contexts    *)
(* and destinations.                                                        *)
(*                                                                         *)
(* An invocation passes one portal through the library's lock, the system   *)
(* call of a thread, the destination's handler and the owner's event        *)
(* queue.  The invariant says that it is in one of these places at a time.  *)
(***************************************************************************)
EXTENDS Portal, FiniteSetTheorems, TLAPS

PortalAssumption == IsFiniteSet(Portals) /\ None \notin ECs /\ None \notin Dests

Answers == [at : {"none", "work", "delete", "reply", "attach"}, c : Dests \cup {None}, to : ECs \cup {None}]
Calls == [at : {"user", "lookup", "send", "poll"}, p : Portals \cup {None}, c : Dests \cup {None}]

Types ==
    /\ state \in [Portals -> {"OPEN", "INVOKING", "REPLYING"}]
    /\ dest \in [Portals -> Dests \cup {None}]
    /\ serving \in [Portals -> Answers]
    /\ owner \in [Portals -> ECs]
    /\ entryRefs \in [Dests -> Int]
    /\ queue \in [ECs -> Seq(Portals)]
    /\ refcount \in [Portals -> Nat]
    /\ future \in [Portals -> Dests \cup {None, UNSET} \cup Errors]
    /\ thread \in [ECs -> Calls]
    /\ failed \in BOOLEAN

\* The system call of an invocation: its portal is open and locked, and no other call uses it.
CallInv ==
    \A e \in ECs : thread[e].at \in {"lookup", "send"} =>
        LET p == thread[e].p IN
        /\ p \in Portals
        /\ \A f \in ECs : thread[f].at \in {"lookup", "send"} /\ thread[f].p = p => f = e
        /\ refcount[p] = 1 /\ future[p] = UNSET
        /\ state[p] = "OPEN"
        /\ thread[e].c \in Dests
        /\ thread[e].at = "send" => dest[p] \in Dests

\* A portal that is not open is locked and its future is not set.
LockInv == \A p \in Portals : state[p] # "OPEN" => refcount[p] = 1 /\ future[p] = UNSET

\* The destination and the state of the portal.
ServingInv ==
    \A p \in Portals :
        /\ state[p] = "OPEN" => serving[p].at = "none"
        /\ serving[p].at \in {"work", "delete"} => state[p] = "INVOKING"
        /\ serving[p].at \in {"reply", "attach"} => state[p] = "REPLYING"
        /\ serving[p].at = "work" => dest[p] = serving[p].c /\ dest[p] \in Dests
        /\ serving[p].at = "attach" => serving[p].to = owner[p]

\* The handle is in the queue of the owner, once, after the answer.
QueueInv ==
    \A e \in ECs : \A i \in DOMAIN queue[e] :
        /\ owner[queue[e][i]] = e
        /\ state[queue[e][i]] = "REPLYING" /\ serving[queue[e][i]].at = "none"
        /\ \A j \in DOMAIN queue[e] : queue[e][i] = queue[e][j] => i = j

RefsInv == \A c \in Dests : entryRefs[c] = Cardinality(Serving(c))

IInv == Types /\ CallInv /\ LockInv /\ ServingInv /\ QueueInv /\ RefsInv /\ ~failed

\* Updates of the fields keep the types.
LEMMA AnswerUpdates ==
    ASSUME Types, NEW p \in Portals, NEW at \in {"none", "work", "delete", "reply", "attach"}
    PROVE  /\ [serving EXCEPT ![p].at = at] \in [Portals -> Answers]
           /\ \A c \in Dests : [serving EXCEPT ![p] = [at |-> at, c |-> c, to |-> None]] \in [Portals -> Answers]
           /\ \A e \in ECs : [serving EXCEPT ![p].at = at, ![p].to = e] \in [Portals -> Answers]
<1>1. serving[p] \in Answers BY DEF Types
<1>2. [serving[p] EXCEPT !.at = at] \in Answers BY <1>1 DEF Answers
<1>3. ASSUME NEW e \in ECs PROVE [[serving[p] EXCEPT !.at = at] EXCEPT !.to = e] \in Answers BY Zenon, <1>2 DEF Answers
<1>4. ASSUME NEW c \in Dests PROVE [at |-> at, c |-> c, to |-> None] \in Answers BY DEF Answers
<1> QED BY Zenon, <1>2, <1>3, <1>4 DEF Types

\* A system call that moves on remains a call of its thread.
LEMMA CallUpdates ==
    ASSUME Types, NEW e \in ECs, NEW at \in {"user", "lookup", "send", "poll"}
    PROVE  [thread EXCEPT ![e].at = at] \in [ECs -> Calls]
<1>1. [thread[e] EXCEPT !.at = at] \in Calls BY ZenonT(30) DEF Types, Calls
<1> QED BY <1>1 DEF Types

\* The records that the actions assign have their types.
LEMMA RestRecords ==
    /\ Idle \in Calls /\ NoAnswer \in Answers
    /\ \A p \in Portals, c \in Dests : [at |-> "lookup", p |-> p, c |-> c] \in Calls
BY DEF Idle, Calls, NoAnswer, Answers

\* Elements of a queue after Tail and Append.
LEMMA QueueTail ==
    ASSUME NEW S, NEW s \in Seq(S), s # <<>>
    PROVE  /\ Head(s) = s[1] /\ Head(s) \in S /\ 1 \in DOMAIN s
           /\ Tail(s) \in Seq(S)
           /\ \A i \in DOMAIN Tail(s) : i + 1 \in DOMAIN s /\ Tail(s)[i] = s[i + 1] /\ i \in Nat \ {0}
OBVIOUS

\* The items of a queue after an append.
LEMMA QueueAppend ==
    ASSUME NEW S, NEW s \in Seq(S), NEW x \in S
    PROVE  /\ Append(s, x) \in Seq(S)
           /\ \A i \in DOMAIN Append(s, x) :
                 \/ i \in DOMAIN s /\ Append(s, x)[i] = s[i]
                 \/ i \notin DOMAIN s /\ i = Len(s) + 1 /\ Append(s, x)[i] = x
OBVIOUS


\* The handlers of portals that do not serve a destination leave the counts.
LEMMA ServingSame ==
    ASSUME RefsInv, Types, UNCHANGED entryRefs,
           \A p \in Portals : (serving'[p].at = "work") = (serving[p].at = "work") /\ serving'[p].c = serving[p].c
    PROVE  RefsInv'
<1>1. ASSUME NEW c \in Dests PROVE Serving(c)' = Serving(c)
    BY DEF Serving
<1> QED BY <1>1 DEF RefsInv

\* A handler that ends gives back one reference.
LEMMA ServingEnds ==
    ASSUME PortalAssumption, RefsInv, Types, ServingInv, NEW p \in Portals, serving[p].at = "work",
           ReleaseDest(p), NEW at \in {"reply", "delete"},
           serving' = [serving EXCEPT ![p].at = at]
    PROVE  RefsInv' /\ entryRefs' \in [Dests -> Int]
<1>1. dest[p] \in Dests /\ dest[p] = serving[p].c /\ dest[p] # None
    BY DEF ServingInv, PortalAssumption
<1>2. entryRefs' = [entryRefs EXCEPT ![dest[p]] = @ - 1]
    BY <1>1 DEF ReleaseDest
<1>3. ASSUME NEW c \in Dests PROVE IsFiniteSet(Serving(c))
    BY FS_Subset DEF PortalAssumption, Serving
<1>4. ASSUME NEW c, c = dest[p] PROVE Serving(c)' = Serving(c) \ {p} /\ p \in Serving(c)
    BY <1>1, <1>4 DEF Serving, Types, Answers
<1>5. ASSUME NEW c \in Dests, c # dest[p] PROVE Serving(c)' = Serving(c)
    BY <1>1, <1>5 DEF Serving, Types, Answers
<1>6. ASSUME NEW c \in Dests PROVE entryRefs'[c] = Cardinality(Serving(c)')
    <2>1. CASE c = dest[p]
        <3>1. Cardinality(Serving(c) \ {p}) = Cardinality(Serving(c)) - 1
            BY Zenon, <1>3, <1>4, <2>1, FS_RemoveElement
        <3>2. Serving(c)' = Serving(c) \ {p}
            BY <1>4, <2>1
        <3> QED BY <1>2, <2>1, <3>1, <3>2 DEF RefsInv, Types
    <2>2. CASE c # dest[p]
        BY <1>2, <1>5, <2>2 DEF RefsInv, Types
    <2> QED BY <2>1, <2>2
<1> QED BY <1>1, <1>2, <1>6 DEF RefsInv, Types

\* A message that is sent takes one reference.
LEMMA ServingStarts ==
    ASSUME PortalAssumption, RefsInv, Types, NEW p \in Portals, serving[p].at = "none",
           dest[p] \in Dests, entryRefs' = EntryRefsAcquired(p),
           serving' = [serving EXCEPT ![p] = [at |-> "work", c |-> dest[p], to |-> None]]
    PROVE  RefsInv' /\ entryRefs' \in [Dests -> Int]
<1>3. ASSUME NEW c \in Dests PROVE IsFiniteSet(Serving(c))
    BY FS_Subset DEF PortalAssumption, Serving
<1>4. ASSUME NEW c, c = dest[p] PROVE Serving(c)' = Serving(c) \cup {p} /\ p \notin Serving(c)
    BY <1>4 DEF Serving, Types, Answers
<1>5. ASSUME NEW c \in Dests, c # dest[p] PROVE Serving(c)' = Serving(c)
    BY <1>5 DEF Serving, Types, Answers
<1>6. ASSUME NEW c \in Dests PROVE entryRefs'[c] = Cardinality(Serving(c)')
    <2>1. CASE c = dest[p]
        <3>1. Cardinality(Serving(c) \cup {p}) = Cardinality(Serving(c)) + 1
            BY Zenon, <1>3, <1>4, <2>1, FS_AddElement
        <3>2. Serving(c)' = Serving(c) \cup {p}
            BY <1>4, <2>1
        <3> QED BY <2>1, <3>1, <3>2 DEF RefsInv, Types, EntryRefsAcquired
    <2>2. CASE c # dest[p]
        BY <1>5, <2>2 DEF RefsInv, Types, EntryRefsAcquired
    <2> QED BY <2>1, <2>2
<1> QED BY <1>6 DEF RefsInv, Types, EntryRefsAcquired

\* The inductive invariant contains the protocol of the portal.
LEMMA InvImplies ==
    ASSUME IInv
    PROVE  PortalProtocol
BY DEF IInv, Types, QueueInv, RefsInv, PortalProtocol

\* At first all portals are open and no answer is under way.
LEMMA InvInit ==
    ASSUME PortalAssumption, Init
    PROVE  IInv
<1>1. ASSUME NEW c \in Dests PROVE Serving(c) = {}
    BY DEF Init, Serving, NoAnswer
<1>2. RefsInv
    BY Zenon, <1>1, FS_EmptySet DEF RefsInv, Init
<1>3. Types
    <2>1. serving \in [Portals -> Answers] /\ thread \in [ECs -> Calls] BY RestRecords DEF Init
    <2>2. entryRefs \in [Dests -> Int] /\ refcount \in [Portals -> Nat] BY DEF Init
    <2>3. queue \in [ECs -> Seq(Portals)] BY DEF Init
    <2>4. future \in [Portals -> Dests \cup {None, UNSET} \cup Errors] BY DEF Init
    <2> QED BY Zenon, <2>1, <2>2, <2>3, <2>4 DEF Types, Init
<1>4. CallInv /\ LockInv /\ ServingInv /\ ~failed
    BY DEF Init, CallInv, LockInv, ServingInv, NoAnswer, Idle
<1>5. QueueInv
    BY DEF Init, QueueInv
<1> QED BY <1>2, <1>3, <1>4, <1>5 DEF IInv

\* Every step keeps the invariant.
LEMMA StepIInv ==
    ASSUME PortalAssumption, IInv, [Next]_vars
    PROVE  IInv'
<1> USE DEF IInv
<1>1. ASSUME NEW e \in ECs, NEW p \in Portals, NEW c \in Dests, Invoke(e, p, c)
      PROVE  IInv'
    <2> USE <1>1 DEF Invoke
    <2>0. state[p] = "OPEN" BY DEF LockInv
    <2>1. Types' BY RestRecords DEF Types
    <2>2. CallInv'
        <3>1. ASSUME NEW f \in ECs, f # e, thread[f].at \in {"lookup", "send"} PROVE thread[f].p # p
            BY <3>1 DEF CallInv
        <3> QED BY <2>0, <3>1 DEF CallInv, Types, Calls
    <2>3. LockInv' BY DEF LockInv, Types
    <2>4. ServingInv' /\ QueueInv' BY DEF ServingInv, QueueInv
    <2>5. RefsInv' BY ServingSame
    <2> QED BY <2>1, <2>2, <2>3, <2>4, <2>5
<1>2. ASSUME NEW p \in Portals, Release(p)
      PROVE  IInv'
    <2> USE <1>2 DEF Release
    <2>1. Types' BY DEF Types
    <2>2. CallInv' BY DEF CallInv, Types, Calls
    <2>3. LockInv' BY DEF LockInv, Types
    <2>4. ServingInv' /\ QueueInv' BY DEF ServingInv, QueueInv
    <2>5. RefsInv' BY ServingSame
    <2> QED BY <2>1, <2>2, <2>3, <2>4, <2>5
<1>3. ASSUME NEW e \in ECs, Poll(e)
      PROVE  IInv'
    <2> DEFINE p == Head(queue[e])
    <2>0. /\ p = queue[e][1] /\ p \in Portals /\ 1 \in DOMAIN queue[e] /\ Tail(queue[e]) \in Seq(Portals)
          /\ \A i \in DOMAIN Tail(queue[e]) : i + 1 \in DOMAIN queue[e] /\ Tail(queue[e])[i] = queue[e][i + 1] /\ i \in Nat \ {0}
        BY <1>3, QueueTail DEF Poll, Types
    <2>p. owner[p] = e /\ state[p] = "REPLYING" /\ serving[p].at = "none" /\ refcount[p] = 1
        BY <2>0 DEF QueueInv, LockInv
    <2>u. /\ state' = [state EXCEPT ![p] = "OPEN"]
          /\ future' = [future EXCEPT ![p] = serving[p].c]
          /\ queue' = [queue EXCEPT ![e] = Tail(@)]
          /\ thread' = [thread EXCEPT ![e] = Idle]
          /\ failed' = FALSE
          /\ UNCHANGED <<dest, serving, owner, entryRefs, refcount>>
        BY Zenon, <1>3, <2>p DEF Poll, Asserted
    <2> HIDE DEF p
    <2>f. serving[p].c \in Dests \cup {None} BY <2>0 DEF Types, Answers
    <2>1. Types' BY Zenon, <2>0, <2>u, <2>f, RestRecords DEF Types
    <2>2. CallInv' BY <2>0, <2>p, <2>u DEF CallInv, Types, Calls, Idle
    <2>3. LockInv' BY <2>0, <2>u DEF LockInv, Types
    <2>4. ServingInv' BY <2>0, <2>p, <2>u DEF ServingInv, Types, Answers
    <2>5. QueueInv'
        <3>1. ASSUME NEW i \in DOMAIN Tail(queue[e]) PROVE Tail(queue[e])[i] # p
            BY <2>0 DEF QueueInv
        <3>2. ASSUME NEW f \in ECs, f # e, NEW i \in DOMAIN queue[f] PROVE queue[f][i] # p
            BY <2>p, <3>2 DEF QueueInv
        <3>3. ASSUME NEW f \in ECs, NEW i \in DOMAIN queue'[f]
              PROVE  /\ owner'[queue'[f][i]] = f
                     /\ state'[queue'[f][i]] = "REPLYING" /\ serving'[queue'[f][i]].at = "none"
                     /\ \A j \in DOMAIN queue'[f] : queue'[f][i] = queue'[f][j] => i = j
            <4>1. CASE f = e
                <5>1. queue'[f] = Tail(queue[e]) BY <2>u, <4>1 DEF Types
                <5>2. queue'[f][i] \in Portals BY <2>0, <5>1 DEF Types
                <5>3. i + 1 \in DOMAIN queue[e] /\ queue'[f][i] = queue[e][i + 1] /\ queue'[f][i] # p
                    BY <2>0, <3>1, <3>3, <5>1
                <5>4. /\ owner[queue'[f][i]] = f /\ state[queue'[f][i]] = "REPLYING"
                      /\ serving[queue'[f][i]].at = "none"
                    BY <4>1, <5>3 DEF QueueInv
                <5>5. ASSUME NEW j \in DOMAIN queue'[f], queue'[f][i] = queue'[f][j] PROVE i = j
                    <6>1. j + 1 \in DOMAIN queue[e] /\ queue'[f][j] = queue[e][j + 1] /\ i \in Nat /\ j \in Nat
                        BY <2>0, <3>3, <5>1, <5>5
                    <6>2. queue[e][i + 1] = queue[e][j + 1] BY <5>3, <5>5, <6>1
                    <6>3. i + 1 = j + 1 BY <5>3, <6>1, <6>2 DEF QueueInv
                    <6> QED BY <6>1, <6>3
                <5> QED BY Zenon, <2>u, <5>2, <5>3, <5>4, <5>5 DEF Types
            <4>2. CASE f # e
                <5>1. queue'[f] = queue[f] BY <2>u, <4>2 DEF Types
                <5>2. queue[f][i] \in Portals BY <5>1, <3>3 DEF Types
                <5> QED BY <2>u, <3>2, <3>3, <4>2, <5>1, <5>2 DEF QueueInv, Types, Answers
            <4> QED BY <4>1, <4>2
        <3> QED BY <3>3 DEF QueueInv
    <2>6. RefsInv' BY <2>u, ServingSame
    <2> QED BY <2>1, <2>2, <2>3, <2>4, <2>5, <2>6, <2>u
<1>4. ASSUME NEW e \in ECs, PollNothing(e)
      PROVE  IInv'
    <2> USE <1>4 DEF PollNothing, library
    <2>1. Types' BY RestRecords DEF Types
    <2>2. CallInv' BY DEF CallInv, Types, Calls, Idle
    <2>3. LockInv' /\ ServingInv' /\ QueueInv' BY DEF LockInv, ServingInv, QueueInv
    <2>4. RefsInv' BY ServingSame
    <2> QED BY <2>1, <2>2, <2>3, <2>4
<1>5. ASSUME NEW e \in ECs, Lookup(e)
      PROVE  IInv'
    <2> DEFINE p == thread[e].p
    <2>p. p \in Portals /\ owner[p] # None /\ state[p] = "OPEN" /\ thread[e].c \in Dests
          /\ serving[p].at = "none"
        BY <1>5 DEF Lookup, CallInv, ServingInv, Types, PortalAssumption
    <2>o. ASSUME NEW f \in ECs, f # e, thread[f].at \in {"lookup", "send"} PROVE thread[f].p # p
        BY <1>5, <2>o DEF Lookup, CallInv
    <2>v. dest' \in [Portals -> Dests \cup {None}] /\ (dest' = dest \/ dest' = [dest EXCEPT ![p] = thread[e].c])
        BY <1>5, <2>p DEF Lookup, Types
    <2>u. UNCHANGED <<state, serving, owner, entryRefs, queue, refcount, failed>>
        BY <1>5 DEF Lookup
    <2>3. QueueInv' BY <2>u DEF QueueInv
    <2>4. ServingInv' BY <2>p, <2>u, <2>v DEF ServingInv, Types, Answers
    <2>5. RefsInv' BY <2>u, ServingSame
    <2>6. CASE dest' = [dest EXCEPT ![p] = thread[e].c] /\ thread' = [thread EXCEPT ![e].at = "send"] /\ UNCHANGED future
        <3>1. Types' BY Zenon, <2>u, <2>v, <2>6, CallUpdates DEF Types
        <3>2. CallInv' BY <1>5, <2>p, <2>o, <2>u, <2>6 DEF CallInv, Types, Calls, Lookup
        <3>3. LockInv' BY <2>u, <2>6 DEF LockInv
        <3> QED BY <2>3, <2>4, <2>5, <2>u, <3>1, <3>2, <3>3
    <2>7. CASE /\ thread' = [thread EXCEPT ![e] = Idle]
               /\ \E error \in Errors : future' = [future EXCEPT ![p] = error]
        <3>1. PICK error \in Errors : future' = [future EXCEPT ![p] = error] BY <2>7
        <3>2. Types' BY Zenon, <2>u, <2>v, <2>7, <3>1, RestRecords DEF Types
        <3>3. CallInv'
            <4>1. ASSUME NEW f \in ECs, thread'[f].at \in {"lookup", "send"}
                  PROVE  f # e /\ thread'[f] = thread[f] /\ thread[f].p # p
                BY <2>o, <2>7, <4>1 DEF Types, Idle
            <4> QED BY <2>u, <2>v, <3>1, <4>1 DEF CallInv, Types, Calls
        <3>4. LockInv' BY <2>p, <2>u, <3>1 DEF LockInv, Types
        <3> QED BY <2>3, <2>4, <2>5, <2>u, <3>2, <3>3, <3>4
    <2> QED BY <1>5, <2>6, <2>7 DEF Lookup, Errors
<1>6. ASSUME NEW e \in ECs, Send(e)
      PROVE  IInv'
    <2> DEFINE p == thread[e].p
    <2>p. /\ p \in Portals /\ state[p] = "OPEN" /\ dest[p] \in Dests
          /\ refcount[p] = 1 /\ future[p] = UNSET /\ serving[p].at = "none"
        BY <1>6 DEF Send, CallInv, ServingInv
    <2>o. ASSUME NEW f \in ECs, f # e, thread[f].at \in {"lookup", "send"} PROVE thread[f].p # p
        BY <1>6, <2>o DEF Send, CallInv
    <2>u. /\ state' = [state EXCEPT ![p] = "INVOKING"]
          /\ entryRefs' = EntryRefsAcquired(p)
          /\ serving' = [serving EXCEPT ![p] = [at |-> "work", c |-> dest[p], to |-> None]]
          /\ thread' = [thread EXCEPT ![e].at = "poll"]
          /\ UNCHANGED <<future, dest, owner, queue, refcount, failed>>
        BY <1>6, <2>p DEF Send
    <2>1. RefsInv' /\ entryRefs' \in [Dests -> Int] BY Zenon, <2>p, <2>u, ServingStarts
    <2>2. Types' BY Zenon, <2>1, <2>p, <2>u, CallUpdates, AnswerUpdates DEF Types
    <2>3. CallInv'
        <3>1. ASSUME NEW f \in ECs, thread'[f].at \in {"lookup", "send"}
              PROVE  f # e /\ thread'[f] = thread[f] /\ thread[f].p # p
            BY <2>o, <2>u, <3>1 DEF Types, Calls
        <3> QED BY <2>p, <2>u, <3>1 DEF CallInv, Types, Calls
    <2>4. LockInv' BY <2>p, <2>u DEF LockInv, Types
    <2>5. ServingInv' BY <2>p, <2>u DEF ServingInv, Types, Answers
    <2>6. QueueInv'
        <3>1. ASSUME NEW f \in ECs, NEW i \in DOMAIN queue[f] PROVE queue[f][i] \in Portals /\ queue[f][i] # p
            BY <2>p DEF QueueInv, Types, Answers
        <3> QED BY <2>u, <3>1 DEF QueueInv, Types, Answers
    <2> QED BY <2>1, <2>2, <2>3, <2>4, <2>5, <2>6, <2>u
<1>7. ASSUME NEW p \in Portals, ReplyResponse(p)
      PROVE  IInv'
    <2>p. state[p] = "INVOKING" /\ dest[p] \in Dests /\ refcount[p] = 1 /\ future[p] = UNSET
        BY <1>7 DEF ReplyResponse, ServingInv, LockInv
    <2>u. /\ state' = [state EXCEPT ![p] = "REPLYING"]
          /\ serving' = [serving EXCEPT ![p].at = "reply"]
          /\ dest' = [dest EXCEPT ![p] = None]
          /\ failed' = FALSE
          /\ UNCHANGED <<owner, queue, refcount, future, thread>>
        BY Zenon, <1>7, <2>p DEF ReplyResponse, Asserted, ReleaseDest, StateReplying, library
    <2>1. RefsInv' /\ entryRefs' \in [Dests -> Int]
        BY Zenon, <1>7, <2>u, ServingEnds DEF ReplyResponse, PortalAssumption
    <2>2. Types' BY Zenon, <2>1, <2>p, <2>u, AnswerUpdates DEF Types
    <2>3. CallInv' BY <2>p, <2>u DEF CallInv, Types, Calls
    <2>4. LockInv' BY <2>p, <2>u DEF LockInv, Types
    <2>5. ServingInv' BY <2>p, <2>u DEF ServingInv, Types, Answers
    <2>6. QueueInv'
        <3>1. ASSUME NEW f \in ECs, NEW i \in DOMAIN queue[f] PROVE queue[f][i] \in Portals /\ queue[f][i] # p
            BY <2>p DEF QueueInv, Types, Answers
        <3> QED BY <2>u, <3>1 DEF QueueInv, Types, Answers
    <2> QED BY <2>1, <2>2, <2>3, <2>4, <2>5, <2>6, <2>u
<1>8. ASSUME NEW p \in Portals, DeletionResponse(p)
      PROVE  IInv'
    <2>p. state[p] = "INVOKING" /\ dest[p] \in Dests
        BY <1>8 DEF DeletionResponse, ServingInv
    <2>u. /\ serving' = [serving EXCEPT ![p].at = "delete"]
          /\ dest' = [dest EXCEPT ![p] = None]
          /\ failed' = FALSE
          /\ UNCHANGED <<state, owner, queue, refcount, future, thread>>
        BY Zenon, <1>8, <2>p DEF DeletionResponse, Asserted, ReleaseDest, library
    <2>1. RefsInv' /\ entryRefs' \in [Dests -> Int]
        BY Zenon, <1>8, <2>u, ServingEnds DEF DeletionResponse, PortalAssumption
    <2>2. Types' BY Zenon, <2>1, <2>p, <2>u, AnswerUpdates DEF Types
    <2>3. CallInv' BY <2>p, <2>u DEF CallInv, Types, Calls
    <2>4. LockInv' BY <2>u DEF LockInv
    <2>5. ServingInv' BY <2>p, <2>u DEF ServingInv, Types, Answers
    <2>6. QueueInv'
        <3>1. ASSUME NEW f \in ECs, NEW i \in DOMAIN queue[f] PROVE queue[f][i] \in Portals /\ queue[f][i] # p
            BY <2>p DEF QueueInv, Types, Answers
        <3> QED BY <2>u, <3>1 DEF QueueInv, Types, Answers
    <2> QED BY <2>1, <2>2, <2>3, <2>4, <2>5, <2>6, <2>u
<1>9. ASSUME NEW p \in Portals, Response(p)
      PROVE  IInv'
    <2>p. state[p] = "INVOKING" /\ refcount[p] = 1 /\ future[p] = UNSET
        BY <1>9 DEF Response, ServingInv, LockInv
    <2>u. /\ state' = [state EXCEPT ![p] = "REPLYING"]
          /\ serving' = [serving EXCEPT ![p].at = "reply"]
          /\ serving[p].at = "delete"
          /\ failed' = FALSE
          /\ UNCHANGED <<dest, owner, entryRefs, queue, refcount, future, thread>>
        BY Zenon, <1>9, <2>p DEF Response, Asserted, StateReplying, library
    <2>1. RefsInv' BY <2>u, ServingSame DEF Types, Answers
    <2>2. Types' BY Zenon, <2>u, AnswerUpdates DEF Types
    <2>3. CallInv' BY <2>p, <2>u DEF CallInv, Types, Calls
    <2>4. LockInv' BY <2>p, <2>u DEF LockInv, Types
    <2>5. ServingInv' BY <2>p, <2>u DEF ServingInv, Types, Answers
    <2>6. QueueInv'
        <3>1. ASSUME NEW f \in ECs, NEW i \in DOMAIN queue[f] PROVE queue[f][i] \in Portals /\ queue[f][i] # p
            BY <2>p DEF QueueInv, Types, Answers
        <3> QED BY <2>u, <3>1 DEF QueueInv, Types, Answers
    <2> QED BY <2>1, <2>2, <2>3, <2>4, <2>5, <2>6, <2>u
<1>10. ASSUME NEW p \in Portals, GetOwner(p)
       PROVE  IInv'
    <2>p. state[p] = "REPLYING" /\ owner[p] \in ECs /\ owner[p] # None /\ serving[p].at = "reply"
        BY <1>10 DEF GetOwner, ServingInv, Types, PortalAssumption
    <2>u. /\ serving' = [serving EXCEPT ![p].at = "attach", ![p].to = owner[p]]
          /\ UNCHANGED <<state, dest, owner, entryRefs, queue, refcount, future, thread, failed>>
        BY <1>10, <2>p DEF GetOwner, Recipient, library
    <2>1. RefsInv' BY <2>p, <2>u, ServingSame DEF Types, Answers
    <2>2. Types' BY Zenon, <2>p, <2>u, AnswerUpdates DEF Types
    <2>3. CallInv' /\ LockInv' BY <2>u DEF CallInv, LockInv
    <2>5. ServingInv' BY <2>p, <2>u DEF ServingInv, Types, Answers
    <2>6. QueueInv'
        <3>1. ASSUME NEW f \in ECs, NEW i \in DOMAIN queue[f] PROVE queue[f][i] \in Portals /\ queue[f][i] # p
            BY <2>p DEF QueueInv, Types, Answers
        <3> QED BY <2>u, <3>1 DEF QueueInv, Types, Answers
    <2> QED BY <2>1, <2>2, <2>3, <2>5, <2>6, <2>u
<1>11. ASSUME NEW p \in Portals, AttachKEvent(p)
       PROVE  IInv'
    <2> DEFINE e == owner[p]
    <2>p. state[p] = "REPLYING" /\ e \in ECs /\ serving[p].to = e /\ serving[p].at = "attach"
        BY <1>11 DEF AttachKEvent, ServingInv, Types
    <2>u. /\ queue' = [queue EXCEPT ![e] = Append(@, p)]
          /\ serving' = [serving EXCEPT ![p].at = "none"]
          /\ UNCHANGED <<state, dest, owner, entryRefs, refcount, future, thread, failed>>
        BY <1>11, <2>p DEF AttachKEvent, library
    <2>0. /\ Append(queue[e], p) \in Seq(Portals)
          /\ \A i \in DOMAIN Append(queue[e], p) :
                 \/ i \in DOMAIN queue[e] /\ Append(queue[e], p)[i] = queue[e][i]
                 \/ i \notin DOMAIN queue[e] /\ i = Len(queue[e]) + 1 /\ Append(queue[e], p)[i] = p
        BY <2>p, QueueAppend DEF Types
    <2>n. ASSUME NEW f \in ECs, NEW i \in DOMAIN queue[f] PROVE queue[f][i] \in Portals /\ queue[f][i] # p
        BY <2>p DEF QueueInv, Types, Answers
    <2>1. RefsInv' BY <2>p, <2>u, ServingSame DEF Types, Answers
    <2>2. Types' BY Zenon, <2>0, <2>p, <2>u, AnswerUpdates DEF Types
    <2>3. CallInv' /\ LockInv' BY <2>u DEF CallInv, LockInv
    <2>5. ServingInv' BY <2>p, <2>u DEF ServingInv, Types, Answers
    <2>6. QueueInv'
        <3>3. ASSUME NEW f \in ECs, NEW i \in DOMAIN queue'[f]
              PROVE  /\ owner'[queue'[f][i]] = f
                     /\ state'[queue'[f][i]] = "REPLYING" /\ serving'[queue'[f][i]].at = "none"
                     /\ \A j \in DOMAIN queue'[f] : queue'[f][i] = queue'[f][j] => i = j
            <4>1. CASE f = e
                <5>1. queue'[f] = Append(queue[e], p) BY <2>u, <2>p, <4>1 DEF Types
                <5> QED BY <2>0, <2>n, <2>p, <2>u, <3>3, <4>1, <5>1 DEF QueueInv, Types, Answers
            <4>2. CASE f # e
                <5>1. queue'[f] = queue[f] BY <2>u, <4>2 DEF Types
                <5> QED BY <2>n, <2>u, <3>3, <4>2, <5>1 DEF QueueInv, Types, Answers
            <4> QED BY <4>1, <4>2
        <3> QED BY <3>3 DEF QueueInv
    <2> QED BY <2>1, <2>2, <2>3, <2>5, <2>6, <2>u
<1>12. ASSUME UNCHANGED vars
       PROVE  IInv'
    <2> USE <1>12 DEF vars
    <2>1. Types' BY DEF Types
    <2>2. CallInv' /\ LockInv' /\ ServingInv' /\ QueueInv' BY DEF CallInv, LockInv, ServingInv, QueueInv
    <2>3. RefsInv' BY ServingSame
    <2> QED BY <2>1, <2>2, <2>3
<1> QED
    BY <1>1, <1>2, <1>3, <1>4, <1>5, <1>6, <1>7, <1>8, <1>9, <1>10, <1>11, <1>12 DEF Next, Answer, Syscall

\* Portal::sendInvocation(), replyResponse(), deletionResponse(), response()
\* and deliverKEvent() meet their ASSERTs, queue each handle once, and take and
\* give back the references to the destination's capability map in pairs.
THEOREM PortalProtocolHolds ==
    ASSUME PortalAssumption
    PROVE  Spec => []PortalProtocol
<1>1. Init => IInv BY InvInit
<1>2. IInv /\ [Next]_vars => IInv' BY StepIInv
<1>3. IInv => PortalProtocol BY InvImplies
<1> QED BY <1>1, <1>2, <1>3, PTL DEF Spec
=============================================================================
