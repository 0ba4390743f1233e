-------------------------- MODULE SchedulingProofs --------------------------
(***************************************************************************)
(* No event is lost, for any number of places, execution contexts and       *)
(* callers.                                                                 *)
(*                                                                         *)
(* A notifier first makes its event visible and then clears IS_WAITING;     *)
(* wait() first sets IS_WAITING and then looks for events.  Whichever comes *)
(* first, a context that waits while there is something to receive has a    *)
(* pending instruction that clears IS_WAITING.                              *)
(***************************************************************************)
EXTENDS Scheduling, TLAPS

\* An instruction that makes an event visible, and one that ends the waiting.
Announces(c) == c.do = "pushEvent" \/ (c.do \in {"set", "suspend"} /\ "IS_NOTIFIED" \in c.f)
Wakes(c) == c.do \in {"clear", "unset"} /\ "IS_WAITING" \in c.f

\* Only wait() sets IS_WAITING.
Blocks(c) == c.do \in {"set", "suspend"} /\ "IS_WAITING" \in c.f

Verbs == {"set", "unset", "suspend", "suspendCheck", "sync", "done", "waitSync", "clear", "clearCheck", "getSched",
          "ready", "readyRemove", "readyPush", "preempt", "unbindAS", "unbindSched", "deselect", "resetAS",
          "resetSched", "setAS", "atHome", "respond", "setBase", "registers", "reply", "pushEvent", "checkEvents",
          "wait", "saveState", "deleteObject"}

\* The functions and responses that an instruction carries announce nothing and carry nothing.
Fields(then) == [do : Verbs, ec : ECs, f : SUBSET Flags, at : Places \cup {Null}, then : then]
Simple == {c \in Fields({<<>>}) : ~Blocks(c) /\ ~Announces(c)}
Instr == {c \in Fields(Seq(Simple)) : ~Blocks(c)}
Quiet == {c \in Instr : ~Announces(c)}

\* Every program of a notifier ends the waiting after its announcement.
Good(q) == \A i \in DOMAIN q : Announces(q[i]) => \E j \in DOMAIN q : j > i /\ q[j].ec = q[i].ec /\ Wakes(q[j])

DataTypes ==
    /\ TypeOK
    /\ scenario \in Scenarios
    /\ readyQueue \in [Places -> Lists]

Types ==
    /\ DataTypes
    /\ prog \in [Places -> Seq(Instr)]
    /\ tasks \in [Places -> SUBSET Seq(Quiet)]
    /\ syncs \in [Places -> SUBSET Seq(Quiet)]

ProgInv ==
    /\ \A p \in Places : mode[p] # "kernel" => prog[p] = <<>>
    /\ \A p \in Places : Good(prog[p])

\* Once tryRunUser() has chosen a context, it is the one that becomes loaded.
Chosen == {"check", "select", "save", "load", "resume", "return", "event", "loadAS", "user"}
Loaded == {"resume", "return", "event", "loadAS", "user"}

SelInv ==
    \A p \in Places : /\ mode[p] \in Chosen => sel[p] # Null
                      /\ mode[p] \in Loaded => current_ec[p] = sel[p]

\* Some place is going to execute instruction c.
Pending(c) ==
    \E p \in Places :
        \/ \E i \in DOMAIN prog[p] : prog[p][i] = c
        \/ \E q \in tasks[p] \cup syncs[p] : \E i \in DOMAIN q : q[i] = c

\* The waiting of e is going to end: by a notifier, or by wait() that has seen
\* the notification or is going to see the event.
NotifiedInv ==
    \A e \in ECs : {"IS_WAITING", "IS_NOTIFIED"} \subseteq flags[e] =>
        \E c \in Instr : /\ Pending(c) /\ c.ec = e
                         /\ Wakes(c) \/ (c.do = "checkEvents" /\ c.f # {})
EventInv ==
    \A e \in ECs : "IS_WAITING" \in flags[e] /\ eventQueue[e] > 0 =>
        \E c \in Instr : /\ Pending(c) /\ c.ec = e
                         /\ Wakes(c) \/ c.do = "checkEvents"

IInv == Types /\ ProgInv /\ SelInv /\ NotifiedInv /\ EventInv

-----------------------------------------------------------------------------
(* Programs *)

\* The items of a concatenation.
LEMMA ConcatItems ==
    ASSUME NEW S, NEW a \in Seq(S), NEW b \in Seq(S)
    PROVE  /\ a \o b \in Seq(S)
           /\ \A i \in DOMAIN a : i \in DOMAIN (a \o b) /\ (a \o b)[i] = a[i]
           /\ \A i \in DOMAIN b : Len(a) + i \in DOMAIN (a \o b) /\ (a \o b)[Len(a) + i] = b[i]
           /\ \A k \in DOMAIN (a \o b) : \/ k \in DOMAIN a /\ (a \o b)[k] = a[k]
                                        \/ \E i \in DOMAIN b : k = Len(a) + i /\ (a \o b)[k] = b[i]
<1>1. /\ a \o b \in Seq(S) /\ Len(a \o b) = Len(a) + Len(b)
      /\ \A i \in 1 .. Len(a) + Len(b) : (a \o b)[i] = IF i <= Len(a) THEN a[i] ELSE b[i - Len(a)]
  OBVIOUS
<1>2. DOMAIN a = 1..Len(a) /\ DOMAIN b = 1..Len(b) /\ DOMAIN (a \o b) = 1..(Len(a) + Len(b))
  BY <1>1
<1>3. Len(a) \in Nat /\ Len(b) \in Nat
  OBVIOUS
<1>4. ASSUME NEW i \in DOMAIN b PROVE Len(a) + i \in DOMAIN (a \o b) /\ (a \o b)[Len(a) + i] = b[i]
  BY <1>1, <1>2, <1>3
<1>5. ASSUME NEW k \in DOMAIN (a \o b), k \notin DOMAIN a
      PROVE  \E i \in DOMAIN b : k = Len(a) + i /\ (a \o b)[k] = b[i]
  <2>1. k - Len(a) \in DOMAIN b /\ k = Len(a) + (k - Len(a)) /\ (a \o b)[k] = b[k - Len(a)]
    BY <1>1, <1>2, <1>3, <1>5
  <2> QED
    BY Zenon, <2>1
<1>6. ASSUME NEW i \in DOMAIN a PROVE i \in DOMAIN (a \o b) /\ (a \o b)[i] = a[i]
  BY <1>1, <1>2, <1>3
<1> QED
  BY Zenon, <1>1, <1>4, <1>5, <1>6

\* What is left of a program without its first instruction.
LEMMA TailItems ==
    ASSUME NEW S, NEW s \in Seq(S), s # <<>>
    PROVE  /\ Tail(s) \in Seq(S) /\ Head(s) \in S /\ Head(s) = s[1] /\ 1 \in DOMAIN s
           /\ \A i \in DOMAIN s : i # 1 => i - 1 \in DOMAIN Tail(s) /\ Tail(s)[i - 1] = s[i]
           /\ \A i \in DOMAIN Tail(s) : i + 1 \in DOMAIN s /\ Tail(s)[i] = s[i + 1]
<1>1. Tail(s) \in Seq(S) /\ Head(s) \in S /\ Head(s) = s[1] /\ 1 \in DOMAIN s
  OBVIOUS
<1>2. DOMAIN s = 1..Len(s) /\ DOMAIN Tail(s) = 1..(Len(s) - 1) /\ Len(s) \in Nat
  OBVIOUS
<1>3. \A i \in 1..(Len(s) - 1) : Tail(s)[i] = s[i + 1]
  OBVIOUS
<1> QED
  BY <1>1, <1>2, <1>3

\* A program that announces nothing is good, before a good one too.
LEMMA GoodConcat ==
    ASSUME NEW a \in Seq(Quiet), NEW b \in Seq(Instr), Good(b)
    PROVE  a \o b \in Seq(Instr) /\ Good(a \o b)
<1>1. a \in Seq(Instr)
  BY DEF Quiet
<1>2. /\ a \o b \in Seq(Instr) /\ Len(a) \in Nat
      /\ \A i \in DOMAIN b : Len(a) + i \in DOMAIN (a \o b) /\ (a \o b)[Len(a) + i] = b[i]
      /\ \A k \in DOMAIN (a \o b) : \/ k \in DOMAIN a /\ (a \o b)[k] = a[k]
                                   \/ \E i \in DOMAIN b : k = Len(a) + i /\ (a \o b)[k] = b[i]
  BY <1>1, ConcatItems
<1> DEFINE n == a \o b
<1> HIDE DEF n
<1>3. ASSUME NEW k \in DOMAIN n, Announces(n[k])
      PROVE  \E j \in DOMAIN n : j > k /\ n[j].ec = n[k].ec /\ Wakes(n[j])
  <2>1. ~(k \in DOMAIN a /\ n[k] = a[k])
    <3>1. \A x \in Quiet : ~Announces(x)
      BY Zenon DEF Quiet
    <3>2. k \in DOMAIN a => a[k] \in Quiet
      OBVIOUS
    <3> QED
      BY Zenon, <1>3, <3>1, <3>2
  <2>2. PICK i \in DOMAIN b : k = Len(a) + i /\ n[k] = b[i]
    BY Zenon, <1>2, <2>1 DEF n
  <2>3. PICK j \in DOMAIN b : j > i /\ b[j].ec = b[i].ec /\ Wakes(b[j])
    BY Zenon, <1>3, <2>2 DEF Good
  <2>4. i \in Nat /\ j \in Nat
    OBVIOUS
  <2>5. Len(a) + j \in DOMAIN n /\ n[Len(a) + j] = b[j]
    BY Zenon, <1>2 DEF n
  <2>6. Len(a) + j > k
    BY <1>2, <2>2, <2>3, <2>4
  <2> QED
    BY Zenon, <2>2, <2>3, <2>5, <2>6
<1> QED
  BY Zenon, <1>2, <1>3 DEF Good, n

\* What is left of a good program is good, and wakes up for its first instruction.
LEMMA GoodTail ==
    ASSUME NEW s \in Seq(Instr), s # <<>>, Good(s)
    PROVE  /\ Tail(s) \in Seq(Instr) /\ Good(Tail(s))
           /\ Announces(Head(s)) => \E j \in DOMAIN Tail(s) : Tail(s)[j].ec = Head(s).ec /\ Wakes(Tail(s)[j])
<1>1. /\ Tail(s) \in Seq(Instr) /\ Head(s) = s[1] /\ 1 \in DOMAIN s
      /\ \A i \in DOMAIN s : i # 1 => i - 1 \in DOMAIN Tail(s) /\ Tail(s)[i - 1] = s[i]
      /\ \A i \in DOMAIN Tail(s) : i + 1 \in DOMAIN s /\ Tail(s)[i] = s[i + 1]
  BY Zenon, TailItems
<1> DEFINE t == Tail(s)
<1> HIDE DEF t
<1>2. \A i \in DOMAIN t : i \in Nat \ {0}
  BY <1>1 DEF t
<1>3. \A i \in DOMAIN s : i \in Nat \ {0}
  OBVIOUS
<1>4. ASSUME NEW k \in DOMAIN t, Announces(t[k])
      PROVE  \E j \in DOMAIN t : j > k /\ t[j].ec = t[k].ec /\ Wakes(t[j])
  <2>1. k + 1 \in DOMAIN s /\ t[k] = s[k + 1] /\ Announces(s[k + 1])
    BY Zenon, <1>1, <1>4 DEF t
  <2>2. PICK j \in DOMAIN s : j > k + 1 /\ s[j].ec = s[k + 1].ec /\ Wakes(s[j])
    BY Zenon, <2>1 DEF Good
  <2>3. j # 1 /\ j - 1 > k
    BY <1>2, <1>3, <2>2
  <2>4. j - 1 \in DOMAIN t /\ t[j - 1] = s[j]
    BY Zenon, <1>1, <2>3 DEF t
  <2> QED
    BY Zenon, <2>1, <2>2, <2>3, <2>4
<1>5. ASSUME Announces(Head(s))
      PROVE  \E j \in DOMAIN t : t[j].ec = Head(s).ec /\ Wakes(t[j])
  <2>1. PICK j \in DOMAIN s : j > 1 /\ s[j].ec = s[1].ec /\ Wakes(s[j])
    BY Zenon, <1>1, <1>5 DEF Good
  <2>2. j # 1
    BY <1>3, <2>1
  <2>3. j - 1 \in DOMAIN t /\ t[j - 1] = s[j]
    BY Zenon, <1>1, <2>2 DEF t
  <2> QED
    BY Zenon, <1>1, <2>1, <2>3
<1> QED
  BY Zenon, <1>1, <1>4, <1>5 DEF Good, t

-----------------------------------------------------------------------------
(* Steps *)

\* A step that keeps all instructions which end a waiting, and adds neither
\* waiting contexts nor events.
LEMMA KeepStep ==
    ASSUME IInv, Types', ProgInv', SelInv',
           \A c \in Instr : Pending(c) /\ (Wakes(c) \/ c.do = "checkEvents") => Pending(c)',
           \A e \in ECs : flags'[e] \cap {"IS_WAITING", "IS_NOTIFIED"} \subseteq flags[e],
           \A e \in ECs : eventQueue'[e] <= eventQueue[e]
    PROVE  IInv'
<1>1. NotifiedInv'
  <2> SUFFICES ASSUME NEW e \in ECs, {"IS_WAITING", "IS_NOTIFIED"} \subseteq flags'[e]
               PROVE  \E c \in Instr : /\ Pending(c)' /\ c.ec = e
                                       /\ Wakes(c) \/ (c.do = "checkEvents" /\ c.f # {})
    BY Zenon DEF NotifiedInv
  <2>1. PICK c \in Instr : Pending(c) /\ c.ec = e /\ (Wakes(c) \/ (c.do = "checkEvents" /\ c.f # {}))
    BY Zenon DEF IInv, NotifiedInv
  <2> QED
    BY Zenon, <2>1
<1>2. EventInv'
  <2> SUFFICES ASSUME NEW e \in ECs, "IS_WAITING" \in flags'[e], eventQueue'[e] > 0
               PROVE  \E c \in Instr : Pending(c)' /\ c.ec = e /\ (Wakes(c) \/ c.do = "checkEvents")
    BY Zenon DEF EventInv
  <2>1. eventQueue[e] > 0 /\ "IS_WAITING" \in flags[e]
    BY DEF IInv, Types, DataTypes, TypeOK
  <2>2. PICK c \in Instr : Pending(c) /\ c.ec = e /\ (Wakes(c) \/ c.do = "checkEvents")
    BY Zenon, <2>1 DEF IInv, EventInv
  <2> QED
    BY Zenon, <2>2
<1> QED
  BY Zenon, <1>1, <1>2 DEF IInv

\* What remains pending when p has executed its instruction and continues with q.
LEMMA Continue ==
    ASSUME IInv, NEW p \in Places, prog[p] # <<>>, NEW q \in Seq(Quiet), Cont(p, q),
           DataTypes', UNCHANGED <<mode, sel>>,
           \A x \in Places : mode[x] # "kernel" => current_ec'[x] = current_ec[x],
           tasks' \in [Places -> SUBSET Seq(Quiet)], syncs' \in [Places -> SUBSET Seq(Quiet)],
           \A x \in Places : tasks[x] \subseteq tasks'[x] /\ syncs[x] \subseteq syncs'[x]
    PROVE  /\ Types' /\ ProgInv' /\ SelInv'
           /\ \A c : Pending(c) => Pending(c)' \/ c = Cur(p)
           /\ \A i \in DOMAIN q : Pending(q[i])'
           /\ Announces(Cur(p)) => \E c \in Instr : Pending(c)' /\ c.ec = Cur(p).ec /\ Wakes(c)
<1>1. prog[p] \in Seq(Instr) /\ Good(prog[p]) /\ mode[p] = "kernel"
  BY Zenon DEF IInv, Types, ProgInv
<1>2. PICK t : t = Tail(prog[p])
  BY Zenon
<1>3. /\ t \in Seq(Instr) /\ Good(t)
      /\ Announces(Cur(p)) => \E j \in DOMAIN t : t[j].ec = Cur(p).ec /\ Wakes(t[j])
      /\ \A i \in DOMAIN prog[p] : prog[p][i] = Cur(p) \/ \E j \in DOMAIN t : t[j] = prog[p][i]
  <2>1. /\ t \in Seq(Instr) /\ Good(t)
        /\ Announces(Cur(p)) => \E j \in DOMAIN t : t[j].ec = Cur(p).ec /\ Wakes(t[j])
    BY Zenon, <1>1, <1>2, GoodTail DEF Cur
  <2>2. ASSUME NEW i \in DOMAIN prog[p] PROVE prog[p][i] = Cur(p) \/ \E j \in DOMAIN t : t[j] = prog[p][i]
    <3>1. /\ Head(prog[p]) = prog[p][1]
          /\ i # 1 => i - 1 \in DOMAIN Tail(prog[p]) /\ Tail(prog[p])[i - 1] = prog[p][i]
      BY Zenon, <1>1, TailItems
    <3> QED
      BY Zenon, <1>2, <3>1 DEF Cur
  <2> QED
    BY Zenon, <2>1, <2>2
<1>4. PICK n : n = q \o t
  BY Zenon
<1>5. q \in Seq(Instr) /\ n \in Seq(Instr) /\ Good(n)
  <2>1. q \in Seq(Instr)
    BY DEF Quiet
  <2> QED
    BY Zenon, <1>3, <1>4, <2>1, GoodConcat
<1>6. /\ \A i \in DOMAIN q : i \in DOMAIN n /\ n[i] = q[i]
      /\ \A i \in DOMAIN t : \E k \in DOMAIN n : n[k] = t[i]
  <2>1. /\ \A i \in DOMAIN q : i \in DOMAIN n /\ n[i] = q[i]
        /\ \A i \in DOMAIN t : Len(q) + i \in DOMAIN n /\ n[Len(q) + i] = t[i]
    <3>1. /\ \A i \in DOMAIN q : i \in DOMAIN (q \o t) /\ (q \o t)[i] = q[i]
          /\ \A i \in DOMAIN t : Len(q) + i \in DOMAIN (q \o t) /\ (q \o t)[Len(q) + i] = t[i]
      BY <1>3, <1>5, ConcatItems
    <3> QED
      BY Zenon, <1>4, <3>1
  <2> QED
    BY Zenon, <2>1
<1>7. prog'[p] = n /\ \A x \in Places : x # p => prog'[x] = prog[x]
  BY Zenon, <1>2, <1>4 DEF IInv, Types, Cont
<1>8. Types'
  <2>1. prog' \in [Places -> Seq(Instr)]
    BY Zenon, <1>5, <1>7 DEF IInv, Types, Cont
  <2> QED
    BY Zenon, <2>1 DEF IInv, Types
<1>9. ProgInv'
  BY Zenon, <1>1, <1>5, <1>7 DEF IInv, ProgInv
<1>10. ASSUME NEW k \in DOMAIN n PROVE Pending(n[k])'
  BY Zenon, <1>7 DEF Pending
<1>11. ASSUME NEW c, Pending(c), c # Cur(p) PROVE Pending(c)'
  <2>1. PICK x \in Places : \/ \E i \in DOMAIN prog[x] : prog[x][i] = c
                           \/ \E r \in tasks[x] \cup syncs[x] : \E i \in DOMAIN r : r[i] = c
    BY Zenon, <1>11 DEF Pending
  <2>2. CASE \E r \in tasks[x] \cup syncs[x] : \E i \in DOMAIN r : r[i] = c
    BY Zenon, <2>2 DEF Pending
  <2>3. CASE x # p /\ \E i \in DOMAIN prog[x] : prog[x][i] = c
    BY <1>7, <2>3 DEF Pending
  <2>4. CASE x = p /\ \E i \in DOMAIN prog[x] : prog[x][i] = c
    <3>1. PICK k \in DOMAIN n : n[k] = c
      BY <1>3, <1>6, <1>11, <2>4
    <3> QED
      BY Zenon, <1>10, <3>1
  <2> QED
    BY Zenon, <2>1, <2>2, <2>3, <2>4
<1>12. ASSUME NEW i \in DOMAIN q PROVE Pending(q[i])'
  <2>1. i \in DOMAIN n /\ n[i] = q[i]
    BY Zenon, <1>6
  <2> QED
    BY Zenon, <1>10, <2>1
<1>13. ASSUME Announces(Cur(p)) PROVE \E c \in Instr : Pending(c)' /\ c.ec = Cur(p).ec /\ Wakes(c)
  <2>1. PICK j \in DOMAIN t : t[j].ec = Cur(p).ec /\ Wakes(t[j])
    BY Zenon, <1>3, <1>13
  <2>2. PICK k \in DOMAIN n : n[k] = t[j]
    BY Zenon, <1>6
  <2>3. t[j] \in Instr /\ Pending(t[j])'
    BY <1>3, <1>10, <2>2
  <2> QED
    BY Zenon, <2>1, <2>3
<1>14. SelInv'
  BY Zenon DEF IInv, SelInv, Chosen, Loaded
<1> QED
  BY Zenon, <1>8, <1>9, <1>11, <1>12, <1>13, <1>14

\* A step of p that does not end a waiting, and continues with q: an event
\* becomes visible only if its instruction announces it.
LEMMA QuietStep ==
    ASSUME IInv, NEW p \in Places, prog[p] # <<>>, Cur(p).do \notin {"clear", "unset", "checkEvents"},
           NEW q \in Seq(Quiet), Cont(p, q),
           DataTypes', UNCHANGED <<mode, sel>>,
           \A e \in ECs : /\ "IS_WAITING" \in flags'[e] => "IS_WAITING" \in flags[e]
                          /\ "IS_NOTIFIED" \in flags'[e] =>
                                 "IS_NOTIFIED" \in flags[e] \/ (Announces(Cur(p)) /\ e = Cur(p).ec)
                          /\ eventQueue'[e] = eventQueue[e] \/ (Announces(Cur(p)) /\ e = Cur(p).ec),
           \A x \in Places : mode[x] # "kernel" => current_ec'[x] = current_ec[x],
           tasks' \in [Places -> SUBSET Seq(Quiet)], syncs' \in [Places -> SUBSET Seq(Quiet)],
           \A x \in Places : tasks[x] \subseteq tasks'[x] /\ syncs[x] \subseteq syncs'[x]
    PROVE  IInv'
<1>1. /\ Types' /\ ProgInv' /\ SelInv'
      /\ \A c : Pending(c) => Pending(c)' \/ c = Cur(p)
      /\ Announces(Cur(p)) => \E c \in Instr : Pending(c)' /\ c.ec = Cur(p).ec /\ Wakes(c)
  BY Zenon, Continue
<1>2. \A c \in Instr : Pending(c) /\ (Wakes(c) \/ c.do = "checkEvents") => Pending(c)'
  BY Zenon, <1>1 DEF Wakes
<1>3. NotifiedInv'
  <2> SUFFICES ASSUME NEW e \in ECs, {"IS_WAITING", "IS_NOTIFIED"} \subseteq flags'[e]
               PROVE  \E c \in Instr : /\ Pending(c)' /\ c.ec = e
                                       /\ Wakes(c) \/ (c.do = "checkEvents" /\ c.f # {})
    BY Zenon DEF NotifiedInv
  <2>1. CASE Announces(Cur(p)) /\ e = Cur(p).ec
    BY Zenon, <1>1, <2>1
  <2>2. CASE "IS_NOTIFIED" \in flags[e]
    <3>1. PICK c \in Instr : Pending(c) /\ c.ec = e /\ (Wakes(c) \/ (c.do = "checkEvents" /\ c.f # {}))
      BY <2>2 DEF IInv, NotifiedInv
    <3> QED
      BY Zenon, <1>2, <3>1
  <2>3. "IS_NOTIFIED" \in flags'[e]
    BY Zenon
  <2> QED
    BY Zenon, <2>1, <2>2, <2>3
<1>4. EventInv'
  <2> SUFFICES ASSUME NEW e \in ECs, "IS_WAITING" \in flags'[e], eventQueue'[e] > 0
               PROVE  \E c \in Instr : Pending(c)' /\ c.ec = e /\ (Wakes(c) \/ c.do = "checkEvents")
    BY Zenon DEF EventInv
  <2>1. CASE Announces(Cur(p)) /\ e = Cur(p).ec
    BY Zenon, <1>1, <2>1
  <2>2. CASE eventQueue'[e] = eventQueue[e]
    <3>1. PICK c \in Instr : Pending(c) /\ c.ec = e /\ (Wakes(c) \/ c.do = "checkEvents")
      BY Zenon, <2>2 DEF IInv, EventInv
    <3> QED
      BY Zenon, <1>2, <3>1
  <2> QED
    BY Zenon, <2>1, <2>2
<1> QED
  BY Zenon, <1>1, <1>3, <1>4 DEF IInv

-----------------------------------------------------------------------------
(* Instructions *)

\* Programs that announce nothing can be joined.
LEMMA SeqQuiet ==
    /\ <<>> \in Seq(Quiet)
    /\ \A a, b \in Seq(Quiet) : a \o b \in Seq(Quiet)
    /\ \A c \in Quiet : <<c>> \in Seq(Quiet)
    /\ Seq(Simple) \subseteq Seq(Quiet)
<1>1. Simple \subseteq Quiet
  <2> SUFFICES ASSUME NEW c \in Simple PROVE c \in Quiet
    BY Zenon
  <2>1. <<>> \in Seq(Simple)
    OBVIOUS
  <2>2. c \in Instr
    BY Zenon, <2>1 DEF Simple, Instr, Fields
  <2> QED
    BY Zenon, <2>2 DEF Simple, Quiet
<1>2. \A a, b \in Seq(Quiet) : a \o b \in Seq(Quiet)
  OBVIOUS
<1> QED
  BY <1>1, <1>2

\* Instructions that do not add these flags announce nothing.
LEMMA IQuiet ==
    ASSUME NEW d \in Verbs \ {"pushEvent"}, NEW e \in ECs, NEW f \in SUBSET Flags,
           NEW at \in Places \cup {Null}, NEW then \in Seq(Simple),
           d \in {"set", "suspend"} => f \cap {"IS_WAITING", "IS_NOTIFIED"} = {}
    PROVE  /\ I(d, e, f, at, then) \in Seq(Quiet)
           /\ [do |-> d, ec |-> e, f |-> f, at |-> at, then |-> then] \in Quiet
<1> DEFINE c == [do |-> d, ec |-> e, f |-> f, at |-> at, then |-> then]
<1>1. c \in Fields(Seq(Simple)) /\ c.do = d /\ c.f = f
  BY Zenon DEF Fields
<1>2. ~Blocks(c) /\ ~Announces(c)
  BY Zenon, <1>1 DEF Blocks, Announces
<1>3. c \in Quiet
  BY Zenon, <1>1, <1>2 DEF Quiet, Instr
<1> QED
  BY Zenon, <1>3, SeqQuiet DEF I

\* An instruction that carries nothing and does not touch the flags of events is simple.
LEMMA ISimple ==
    ASSUME NEW d \in Verbs \ {"pushEvent"}, NEW e \in ECs, NEW f \in SUBSET Flags,
           d \in {"set", "suspend"} => f \cap {"IS_WAITING", "IS_NOTIFIED"} = {}
    PROVE  I(d, e, f, Null, <<>>) \in Seq(Simple)
<1> DEFINE c == [do |-> d, ec |-> e, f |-> f, at |-> Null, then |-> <<>>]
<1>1. c \in Fields({<<>>}) /\ c.do = d /\ c.f = f
  BY Zenon DEF Fields
<1>2. ~Blocks(c) /\ ~Announces(c)
  BY Zenon, <1>1 DEF Blocks, Announces
<1>3. c \in Simple
  BY Zenon, <1>1, <1>2 DEF Simple
<1> QED
  BY <1>3 DEF I

\* The continuation of an instruction announces nothing.
LEMMA ThenQuiet ==
    ASSUME NEW c \in Instr, NEW d \in Verbs \ {"pushEvent", "set", "suspend"}
    PROVE  Then(c, d) \in Seq(Quiet)
<1>1. [c EXCEPT !.do = d] \in Fields(Seq(Simple)) /\ [c EXCEPT !.do = d].do = d
  BY Zenon DEF Instr, Fields
<1>2. [c EXCEPT !.do = d] \in Quiet
  BY Zenon, <1>1 DEF Quiet, Instr, Blocks, Announces
<1> QED
  BY Zenon, <1>2, SeqQuiet DEF Then

\* The instruction of p.
LEMMA CurInstr ==
    ASSUME IInv, NEW p \in Places, prog[p] # <<>>
    PROVE  /\ Cur(p) \in Instr /\ Cur(p).ec \in ECs /\ Cur(p).f \in SUBSET Flags
           /\ Cur(p).at \in Places \cup {Null} /\ Cur(p).then \in Seq(Simple)
           /\ mode[p] = "kernel" /\ ~Blocks(Cur(p))
<1>1. prog[p] \in Seq(Instr)
  BY Zenon DEF IInv, Types
<1>2. Cur(p) \in Instr
  BY <1>1 DEF Cur
<1> QED
  BY Zenon, <1>2 DEF Instr, Fields, IInv, ProgInv

\* An instruction that neither changes the flags and events nor sends a program.
LEMMA PlainStep ==
    ASSUME IInv, NEW p \in Places, prog[p] # <<>>, Cur(p).do \notin {"clear", "unset", "checkEvents"},
           NEW q \in Seq(Quiet), Cont(p, q),
           DataTypes', UNCHANGED <<flags, eventQueue, mode, sel, current_ec, tasks, syncs>>
    PROVE  IInv'
<1>1. tasks' \in [Places -> SUBSET Seq(Quiet)] /\ syncs' \in [Places -> SUBSET Seq(Quiet)]
  BY Zenon DEF IInv, Types
<1> QED
  BY Zenon, <1>1, QuietStep

\* Lists of handles stay lists of handles.
LEMMA ListTypes ==
    ASSUME NEW l \in Lists, NEW h \in ECs
    PROVE  ListPush(l, h) \in Lists /\ ListPull(l) \in Lists /\ ListRemove(l, h) \in Lists
<1>1. ListPush(l, h) \in Lists
  BY Zenon DEF ListPush, Lists
<1>2. ListPull(l) \in Lists
  BY Zenon DEF ListPull, IsEmpty, Lists
<1>3. ListRemove(l, h) \in Lists
  <2> DEFINE before == {c \in ECs : c \in Members(l) /\ l.next[c] = h}
             c == CHOOSE c \in before : TRUE
  <2>1. CASE l.head = h
    BY Zenon, <1>2, <2>1 DEF ListRemove
  <2>2. CASE l.head # h /\ before = {}
    BY Zenon, <2>2 DEF ListRemove
  <2>3. CASE l.head # h /\ before # {}
    <3>1. c \in ECs
      BY Zenon, <2>3
    <3>2. ListRemove(l, h) = [l EXCEPT !.next[c] = l.next[h], !.tail = IF @ = h THEN c ELSE @]
      BY Zenon, <2>3 DEF ListRemove
    <3> HIDE DEF c
    <3>3. /\ l = [head |-> l.head, tail |-> l.tail, next |-> l.next]
          /\ l.head \in ECs \cup {Null} /\ l.tail \in ECs \cup {Null} /\ l.next \in [ECs -> ECs \cup {Null}]
      BY Zenon DEF Lists
    <3>4. ListRemove(l, h) = [head |-> l.head, tail |-> IF l.tail = h THEN c ELSE l.tail,
                              next |-> [l.next EXCEPT ![c] = l.next[h]]]
      BY Zenon, <3>2, <3>3
    <3> QED
      BY <3>1, <3>3, <3>4 DEF Lists
  <2> QED
    BY Zenon, <2>1, <2>2, <2>3
<1> QED
  BY Zenon, <1>1, <1>2, <1>3

\* A set() that announces an event is followed by the clear() of its notifier.
LEMMA UpdateFlags_IInv ==
    ASSUME IInv, NEW p \in Places, Fetch(p, "set"), UpdateFlags(p)
    PROVE  IInv'
<1>1. /\ prog[p] # <<>> /\ Cur(p).do = "set"
      /\ flags' = [flags EXCEPT ![Cur(p).ec] = @ \cup Cur(p).f]
      /\ Cont(p, <<>>)
      /\ UNCHANGED <<butFlags, scVars, local, queues, ghost>>
  BY Zenon DEF UpdateFlags, Fetch, Cur
<1>2. /\ Cur(p).ec \in ECs /\ Cur(p).f \in SUBSET Flags /\ "IS_WAITING" \notin Cur(p).f
  BY Zenon, <1>1, CurInstr DEF Blocks
<1>3. DataTypes'
  BY Zenon, <1>1, <1>2 DEF IInv, Types, DataTypes, TypeOK, butFlags, scVars, local, queues, ghost
<1>4. flags \in [ECs -> SUBSET Flags]
  BY Zenon DEF IInv, Types, DataTypes, TypeOK
<1>5. ASSUME NEW e \in ECs
      PROVE  /\ "IS_WAITING" \in flags'[e] => "IS_WAITING" \in flags[e]
             /\ "IS_NOTIFIED" \in flags'[e] =>
                   "IS_NOTIFIED" \in flags[e] \/ (Announces(Cur(p)) /\ e = Cur(p).ec)
  BY Zenon, <1>1, <1>2, <1>4 DEF Announces
<1>6. UNCHANGED <<eventQueue, mode, sel, current_ec, tasks, syncs>>
  BY Zenon, <1>1 DEF butFlags, local, queues
<1>7. tasks' \in [Places -> SUBSET Seq(Quiet)] /\ syncs' \in [Places -> SUBSET Seq(Quiet)]
  BY Zenon, <1>6 DEF IInv, Types
<1> QED
  BY Zenon, <1>1, <1>3, <1>5, <1>6, <1>7, SeqQuiet, QuietStep

\* Instructions that change data of the kernel objects only.
LEMMA Data_IInv ==
    ASSUME IInv, NEW p \in Places,
           \/ SynchronousDone(p) \/ WaitSync(p) \/ SetBase(p) \/ Registers(p) \/ Reply(p) \/ DeleteObject(p)
           \/ ReadyRemove(p) \/ ReadyPush(p) \/ Preempt(p) \/ Deselect(p) \/ ResetRef(p) \/ BindAS(p)
    PROVE  IInv'
<1>0. prog[p] # <<>> /\ Cur(p).do \notin {"clear", "unset", "checkEvents"} /\ Cont(p, <<>>)
  BY Zenon DEF SynchronousDone, WaitSync, SetBase, Registers, Reply, DeleteObject, ReadyRemove, ReadyPush, Preempt, Deselect,
         ResetRef, BindAS, Fetch, Cur
<1>1. UNCHANGED <<flags, eventQueue, mode, sel, current_ec, tasks, syncs, scenario, currentPlace>>
  BY Zenon DEF SynchronousDone, WaitSync, SetBase, Registers, Reply, DeleteObject, ReadyRemove, ReadyPush, Preempt, Deselect,
         ResetRef, BindAS, ecVars, scVars, local, queues, ghost
<1>2. Cur(p).ec \in ECs
  BY Zenon, <1>0, CurInstr
<1>3. /\ flags \in [ECs -> SUBSET Flags] /\ currentPlace \in [ECs -> Places \cup {Null}]
      /\ eventQueue \in [ECs -> Nat] /\ as \in [ECs -> BOOLEAN] /\ sched \in [ECs -> Places \cup {Null}]
      /\ refs \in [ECs -> SUBSET {"as", "sched"}] /\ busy \in [ECs -> BOOLEAN]
      /\ current_handle \in [Places -> ECs \cup {Null}] /\ readyQueue \in [Places -> Lists]
  BY Zenon DEF IInv, Types, DataTypes, TypeOK
<1>4. as' \in [ECs -> BOOLEAN] /\ sched' \in [ECs -> Places \cup {Null}]
  BY Zenon, <1>2, <1>3
     DEF SynchronousDone, WaitSync, SetBase, Registers, Reply, DeleteObject, ReadyRemove, ReadyPush, Preempt, Deselect,
         ResetRef, BindAS, ecVars
<1>5. refs' \in [ECs -> SUBSET {"as", "sched"}] /\ busy' \in [ECs -> BOOLEAN]
  BY ZenonT(30), <1>2, <1>3
     DEF SynchronousDone, WaitSync, SetBase, Registers, Reply, DeleteObject, ReadyRemove, ReadyPush, Preempt, Deselect,
         ResetRef, BindAS, ecVars
<1>6. current_handle' \in [Places -> ECs \cup {Null}]
  BY Zenon, <1>3
     DEF SynchronousDone, WaitSync, SetBase, Registers, Reply, DeleteObject, ReadyRemove, ReadyPush, Preempt, Deselect,
         ResetRef, BindAS, scVars
<1>7. readyQueue' \in [Places -> Lists]
  <2>1. CASE ReadyRemove(p) \/ ReadyPush(p)
    <3>1. \A x \in Places : ListRemove(readyQueue[x], Cur(p).ec) \in Lists /\ ListPush(readyQueue[x], Cur(p).ec) \in Lists
      BY Zenon, <1>2, <1>3, ListTypes
    <3>2. CASE ReadyRemove(p)
      BY Zenon, <1>3, <3>1, <3>2 DEF ReadyRemove
    <3>3. CASE ReadyPush(p)
      BY Zenon, <1>3, <3>1, <3>3 DEF ReadyPush
    <3> QED
      BY Zenon, <2>1, <3>2, <3>3
  <2>2. CASE UNCHANGED readyQueue
    BY Zenon, <1>3, <2>2
  <2> QED
    BY Zenon, <2>1, <2>2
       DEF SynchronousDone, WaitSync, SetBase, Registers, Reply, DeleteObject, Preempt, Deselect, ResetRef, BindAS, scVars
<1>8. DataTypes'
  BY Zenon, <1>1, <1>4, <1>5, <1>6, <1>7 DEF IInv, Types, DataTypes, TypeOK
<1> QED
  BY Zenon, <1>0, <1>1, <1>8, SeqQuiet, PlainStep

\* Instructions that decide with which others to continue.
LEMMA Branch_IInv ==
    ASSUME IInv, NEW p \in Places,
           \/ SuspendCheck(p) \/ ClearCheck(p) \/ GetSched(p) \/ Ready(p) \/ UnbindAS(p) \/ UnbindSched(p)
    PROVE  IInv'
<1>0. prog[p] # <<>> /\ Cur(p).do \notin {"clear", "unset", "checkEvents"}
  BY Zenon DEF SuspendCheck, ClearCheck, GetSched, Ready, UnbindAS, UnbindSched, Fetch, Cur
<1>1. UNCHANGED <<flags, eventQueue, mode, sel, current_ec, tasks, syncs, scenario, currentPlace, as, sched, busy,
                  current_handle, readyQueue>>
  BY Zenon DEF SuspendCheck, ClearCheck, GetSched, Ready, UnbindAS, UnbindSched, ecVars, scVars, local, queues, ghost
<1>2. Cur(p) \in Instr /\ Cur(p).ec \in ECs
  BY Zenon, <1>0, CurInstr
<1>3. DataTypes'
  <2>1. refs \in [ECs -> SUBSET {"as", "sched"}]
    BY Zenon DEF IInv, Types, DataTypes, TypeOK
  <2>2. refs' \in [ECs -> SUBSET {"as", "sched"}]
    BY Zenon, <2>1 DEF SuspendCheck, ClearCheck, GetSched, Ready, UnbindAS, UnbindSched, ecVars
  <2> QED
    BY Zenon, <1>1, <2>2 DEF IInv, Types, DataTypes, TypeOK
<1>4. \A d \in Verbs \ {"pushEvent", "set", "suspend"} : Then(Cur(p), d) \in Seq(Quiet)
  BY Zenon, <1>2, ThenQuiet
<1>4a. {"readyRemove", "readyPush", "preempt", "getSched"} \subseteq Verbs \ {"pushEvent", "set", "suspend"}
  BY Zenon DEF Verbs
<1>5. ASSUME NEW d \in {"sync", "ready", "readyRemove", "deselect", "resetAS", "resetSched"}, NEW e \in ECs,
             NEW at \in Places \cup {Null}
      PROVE  I(d, e, {}, at, <<>>) \in Seq(Quiet)
  <2>1. <<>> \in Seq(Simple) /\ {} \in SUBSET Flags
    OBVIOUS
  <2>2. d \in Verbs \ {"pushEvent"} /\ d \notin {"set", "suspend"}
    BY Zenon DEF Verbs
  <2> QED
    BY Zenon, <2>1, <2>2, IQuiet
<1>6. ASSUME NEW e \in ECs, NEW f \in {{"NO_AS"}, {"NO_SCHED"}} PROVE SetFlagsSuspend(e, f) \in Seq(Quiet)
  <2>1. <<>> \in Seq(Simple) /\ "suspend" \in Verbs \ {"pushEvent"}
    BY DEF Verbs
  <2>2. f \in SUBSET Flags /\ f \cap {"IS_WAITING", "IS_NOTIFIED"} = {}
    BY Zenon DEF Flags, BLOCK_MASK
  <2> QED
    BY Zenon, <2>1, <2>2, IQuiet DEF SetFlagsSuspend
<1>7. ASSUME NEW q \in Seq(Quiet), NEW b PROVE When(b, q) \in Seq(Quiet)
  BY Zenon, SeqQuiet DEF When
<1>8. PICK q \in Seq(Quiet) : Cont(p, q)
  <2>1. CASE SuspendCheck(p)
    <3>1. I("sync", Cur(p).ec, {}, Null, <<>>) \in Seq(Quiet)
      BY Zenon, <1>2, <1>5
    <3> QED
      BY Zenon, <1>7, <2>1, <3>1 DEF SuspendCheck, SynchronousAt
  <2>2. CASE ClearCheck(p)
    BY Zenon, <1>4, <1>4a, <1>7, <2>2 DEF ClearCheck
  <2>3. CASE GetSched(p)
    <3>1. sched[Cur(p).ec] \in Places \cup {Null}
      BY Zenon, <1>2 DEF IInv, Types, DataTypes, TypeOK
    <3>2. I("ready", Cur(p).ec, {}, sched[Cur(p).ec], <<>>) \in Seq(Quiet)
      BY Zenon, <1>2, <1>5, <3>1
    <3> QED
      BY Zenon, <1>7, <2>3, <3>2 DEF GetSched
  <2>4. CASE Ready(p)
    <3>1. /\ Then(Cur(p), "readyRemove") \in Seq(Quiet) /\ Then(Cur(p), "readyPush") \in Seq(Quiet)
          /\ Then(Cur(p), "preempt") \in Seq(Quiet)
      BY Zenon, <1>4, <1>4a
    <3>2. PICK b : Cont(p, Then(Cur(p), "readyRemove") \o Then(Cur(p), "readyPush") \o When(b, Then(Cur(p), "preempt")))
      BY Zenon, <2>4 DEF Ready
    <3> QED
      BY Zenon, <1>7, <3>1, <3>2, SeqQuiet
  <2>5. CASE UnbindAS(p)
    <3>1. SetFlagsSuspend(Cur(p).ec, {"NO_AS"}) \in Seq(Quiet) /\ Do("resetAS", Cur(p).ec) \in Seq(Quiet)
      BY Zenon, <1>2, <1>5, <1>6 DEF Do
    <3> QED
      BY Zenon, <1>7, <2>5, <3>1, SeqQuiet DEF UnbindAS
  <2>6. CASE UnbindSched(p)
    <3>1. sched[Cur(p).ec] \in Places \cup {Null}
      BY Zenon, <1>2 DEF IInv, Types, DataTypes, TypeOK
    <3>2. /\ SetFlagsSuspend(Cur(p).ec, {"NO_SCHED"}) \in Seq(Quiet) /\ Do("resetSched", Cur(p).ec) \in Seq(Quiet)
          /\ I("readyRemove", Cur(p).ec, {}, sched[Cur(p).ec], <<>>) \in Seq(Quiet)
          /\ I("deselect", Cur(p).ec, {}, sched[Cur(p).ec], <<>>) \in Seq(Quiet)
      BY Zenon, <1>2, <1>5, <1>6, <3>1 DEF Do
    <3> QED
      BY Zenon, <1>7, <2>6, <3>2, SeqQuiet DEF UnbindSched
  <2> QED
    BY Zenon, <2>1, <2>2, <2>3, <2>4, <2>5, <2>6
<1> QED
  BY Zenon, <1>0, <1>1, <1>3, <1>8, PlainStep

\* Instructions that send a program to another place.
LEMMA SendStep ==
    ASSUME IInv, NEW p \in Places, prog[p] # <<>>, Cur(p).do \in {"sync", "atHome", "respond"},
           NEW q \in Seq(Quiet), Cont(p, q), UNCHANGED <<ecVars, scVars, local, ghost>>,
           NEW d, NEW r \in Seq(Quiet),
           tasks' \in {tasks, [tasks EXCEPT ![d] = @ \cup {r}]},
           syncs' \in {syncs, [syncs EXCEPT ![d] = @ \cup {r}]}
    PROVE  IInv'
<1>1. DataTypes' /\ UNCHANGED <<flags, eventQueue, mode, sel, current_ec>>
  BY Zenon DEF IInv, Types, DataTypes, TypeOK, ecVars, scVars, local, ghost
<1>2. tasks \in [Places -> SUBSET Seq(Quiet)] /\ syncs \in [Places -> SUBSET Seq(Quiet)]
  BY Zenon DEF IInv, Types
<1> HIDE DEF IInv
<1>3. tasks' \in [Places -> SUBSET Seq(Quiet)] /\ \A x \in Places : tasks[x] \subseteq tasks'[x]
  BY <1>2
<1>4. syncs' \in [Places -> SUBSET Seq(Quiet)] /\ \A x \in Places : syncs[x] \subseteq syncs'[x]
  BY <1>2
<1>5. Cur(p).do \notin {"clear", "unset", "checkEvents"}
  BY Zenon
<1> QED
  BY Zenon, <1>1, <1>3, <1>4, <1>5, QuietStep

\* A synchronous task moves to another place and announces nothing.
LEMMA Synchronous_IInv ==
    ASSUME IInv, NEW p \in Places, Synchronous(p)
    PROVE  IInv'
<1>1. prog[p] # <<>> /\ Cur(p).do = "sync" /\ UNCHANGED <<ecVars, scVars, local, tasks, ghost>>
  BY Zenon DEF Synchronous, Fetch, Cur
<1>2. /\ Cur(p) \in Instr /\ Cur(p).ec \in ECs /\ Cur(p).then \in Seq(Quiet)
  BY Zenon, <1>1, CurInstr, SeqQuiet
<1>3. CASE currentPlace[Cur(p).ec] \in {Null, p}
  <2>1. PICK b : Cont(p, When(b, Cur(p).then)) /\ UNCHANGED syncs
    BY Zenon, <1>3 DEF Synchronous
  <2>2. When(b, Cur(p).then) \in Seq(Quiet)
    BY Zenon, <1>2, SeqQuiet DEF When
  <2> QED
    BY Zenon, <1>1, <2>1, <2>2, SendStep
<1>4. CASE currentPlace[Cur(p).ec] \notin {Null, p}
  <2> DEFINE r == Cur(p).then \o I("done", Cur(p).ec, {}, p, <<>>)
  <2>1. r \in Seq(Quiet)
    <3>1. "done" \in Verbs \ {"pushEvent"} /\ <<>> \in Seq(Simple) /\ {} \in SUBSET Flags
      BY DEF Verbs
    <3>2. I("done", Cur(p).ec, {}, p, <<>>) \in Seq(Quiet)
      BY Zenon, <1>2, <3>1, IQuiet
    <3> QED
      BY Zenon, <1>2, <3>2, SeqQuiet
  <2>2. /\ Cont(p, Then(Cur(p), "waitSync"))
        /\ syncs' = [syncs EXCEPT ![currentPlace[Cur(p).ec]] = @ \cup {r}]
    BY Zenon, <1>4 DEF Synchronous
  <2>3. Then(Cur(p), "waitSync") \in Seq(Quiet)
    <3>1. "waitSync" \in Verbs \ {"pushEvent", "set", "suspend"}
      BY Zenon DEF Verbs
    <3> QED
      BY Zenon, <1>2, <3>1, ThenQuiet
  <2> HIDE DEF r
  <2> QED
    BY Zenon, <1>1, <2>1, <2>2, <2>3, SendStep
<1> QED
  BY Zenon, <1>3, <1>4

\* What a handler does at the home of a context announces nothing.
LEMMA AtHome_IInv ==
    ASSUME IInv, NEW p \in Places, AtHome(p)
    PROVE  IInv'
<1>1. prog[p] # <<>> /\ Cur(p).do = "atHome" /\ UNCHANGED <<ecVars, scVars, local, syncs, ghost>>
  BY Zenon DEF AtHome, Fetch, Cur
<1>2. /\ Cur(p).ec \in ECs /\ Cur(p).then \in Seq(Simple) /\ Cur(p).then \in Seq(Quiet)
  BY Zenon, <1>1, CurInstr, SeqQuiet
<1>3. CASE currentPlace[Cur(p).ec] = Null
  <2>1. Cont(p, Cur(p).then) /\ UNCHANGED tasks
    BY Zenon, <1>3 DEF AtHome
  <2> QED
    BY Zenon, <1>1, <1>2, <2>1, SendStep
<1>4. CASE currentPlace[Cur(p).ec] # Null
  <2> DEFINE r == I("respond", Cur(p).ec, {}, p, Cur(p).then)
  <2>1. r \in Seq(Quiet)
    <3>1. "respond" \in Verbs \ {"pushEvent"} /\ {} \in SUBSET Flags
      BY Zenon DEF Verbs
    <3> QED
      BY Zenon, <1>2, <3>1, IQuiet
  <2>2. /\ Cont(p, <<>>)
        /\ tasks' = [tasks EXCEPT ![currentPlace[Cur(p).ec]] = @ \cup {r}]
    BY Zenon, <1>4 DEF AtHome
  <2> HIDE DEF r
  <2> QED
    BY Zenon, <1>1, <2>1, <2>2, SeqQuiet, SendStep
<1> QED
  BY Zenon, <1>3, <1>4

\* A response continues with what the request carried.
LEMMA Respond_IInv ==
    ASSUME IInv, NEW p \in Places, Respond(p)
    PROVE  IInv'
<1>1. prog[p] # <<>> /\ Cur(p).do = "respond" /\ UNCHANGED <<ecVars, scVars, local, syncs, ghost>>
  BY Zenon DEF Respond, Fetch, Cur
<1>2. Cur(p).then \in Seq(Quiet)
  BY Zenon, <1>1, CurInstr, SeqQuiet
<1>3. CASE Cur(p).at = p
  <2>1. Cont(p, Cur(p).then) /\ UNCHANGED tasks
    BY Zenon, <1>3 DEF Respond
  <2> QED
    BY Zenon, <1>1, <1>2, <2>1, SendStep
<1>4. CASE Cur(p).at # p
  <2>1. Cont(p, <<>>) /\ tasks' = [tasks EXCEPT ![Cur(p).at] = @ \cup {Cur(p).then}]
    BY Zenon, <1>4 DEF Respond
  <2> QED
    BY Zenon, <1>1, <1>2, <2>1, SeqQuiet, SendStep
<1> QED
  BY Zenon, <1>3, <1>4

\* suspend() never sets the flags of events without a clear() that follows.
LEMMA Suspend_IInv ==
    ASSUME IInv, NEW p \in Places, Suspend(p)
    PROVE  IInv'
<1>1. /\ prog[p] # <<>> /\ Cur(p).do = "suspend"
      /\ flags' = [flags EXCEPT ![Cur(p).ec] = @ \cup Cur(p).f \cup {"DONT_PREEMPT"}]
      /\ UNCHANGED <<butFlags, scVars, local, queues, ghost>>
  BY Zenon DEF Suspend, Fetch, Cur
<1>2. /\ Cur(p) \in Instr /\ Cur(p).ec \in ECs /\ Cur(p).f \in SUBSET Flags /\ "IS_WAITING" \notin Cur(p).f
  BY Zenon, <1>1, CurInstr DEF Blocks
<1>3. PICK q \in Seq(Quiet) : Cont(p, q)
  <2>1. "suspendCheck" \in Verbs \ {"pushEvent", "set", "suspend"}
    BY Zenon DEF Verbs
  <2>2. Then(Cur(p), "suspendCheck") \in Seq(Quiet)
    BY Zenon, <1>2, <2>1, ThenQuiet
  <2> QED
    BY Zenon, <2>2, SeqQuiet DEF Suspend, When
<1>4. flags \in [ECs -> SUBSET Flags]
  BY Zenon DEF IInv, Types, DataTypes, TypeOK
<1>5. flags' \in [ECs -> SUBSET Flags]
  BY Zenon, <1>1, <1>2, <1>4 DEF Flags
<1>6. DataTypes'
  BY Zenon, <1>1, <1>5 DEF IInv, Types, DataTypes, TypeOK, butFlags, scVars, local, queues, ghost
<1>7. ASSUME NEW e \in ECs
      PROVE  /\ "IS_WAITING" \in flags'[e] => "IS_WAITING" \in flags[e]
             /\ "IS_NOTIFIED" \in flags'[e] =>
                   "IS_NOTIFIED" \in flags[e] \/ (Announces(Cur(p)) /\ e = Cur(p).ec)
  BY Zenon, <1>1, <1>2, <1>4 DEF Announces
<1>8. UNCHANGED <<eventQueue, mode, sel, current_ec, tasks, syncs>>
  BY Zenon, <1>1 DEF butFlags, local, queues
<1>9. tasks' \in [Places -> SUBSET Seq(Quiet)] /\ syncs' \in [Places -> SUBSET Seq(Quiet)]
  BY Zenon, <1>8 DEF IInv, Types
<1> QED
  BY Zenon, <1>1, <1>3, <1>6, <1>7, <1>8, <1>9, QuietStep

\* A new event is followed by the clear() of its notifier.
LEMMA PushEvent_IInv ==
    ASSUME IInv, NEW p \in Places, PushEvent(p)
    PROVE  IInv'
<1>1. /\ prog[p] # <<>> /\ Cur(p).do = "pushEvent" /\ Cont(p, <<>>)
      /\ eventQueue' = [eventQueue EXCEPT ![Cur(p).ec] = @ + 1]
      /\ UNCHANGED <<flags, currentPlace, as, sched, refs, busy, scVars, local, queues, ghost>>
  BY Zenon DEF PushEvent, Fetch, Cur
<1>2. Announces(Cur(p))
  BY Zenon, <1>1 DEF Announces
<1>3. eventQueue \in [ECs -> Nat]
  BY Zenon DEF IInv, Types, DataTypes, TypeOK
<1>4. DataTypes'
  <2>1. eventQueue' \in [ECs -> Nat]
    <3>1. \A e \in ECs : eventQueue[e] + 1 \in Nat
      BY <1>3
    <3> QED
      BY Zenon, <1>1, <1>3, <3>1
  <2> QED
    BY Zenon, <1>1, <2>1 DEF IInv, Types, DataTypes, TypeOK, scVars, local, queues, ghost
<1>5. \A e \in ECs : eventQueue'[e] = eventQueue[e] \/ (Announces(Cur(p)) /\ e = Cur(p).ec)
  BY Zenon, <1>1, <1>2, <1>3
<1>6. UNCHANGED <<flags, mode, sel, current_ec, tasks, syncs>>
  BY Zenon, <1>1 DEF local, queues
<1>7. tasks' \in [Places -> SUBSET Seq(Quiet)] /\ syncs' \in [Places -> SUBSET Seq(Quiet)]
  BY Zenon, <1>6 DEF IInv, Types
<1> QED
  BY Zenon, <1>1, <1>4, <1>5, <1>6, <1>7, SeqQuiet, QuietStep

\* What a revocation or a deletion does at the place announces nothing.
LEMMA Unload_IInv ==
    ASSUME IInv, NEW p \in Places, Unload(p)
    PROVE  IInv'
<1>1. /\ prog[p] # <<>> /\ Cur(p).do = "saveState" /\ Cont(p, <<>>) /\ mode[p] = "kernel"
      /\ flags' = [flags EXCEPT ![Cur(p).ec] = @ \cup {"NOT_LOADED"}]
      /\ currentPlace' = [currentPlace EXCEPT ![Cur(p).ec] = Null]
      /\ current_ec' = [current_ec EXCEPT ![p] = Null]
      /\ UNCHANGED <<eventQueue, as, sched, refs, busy, scVars, mode, sel, queues, scenario, calls, life>>
  BY Zenon DEF Unload, SaveState, Fetch, Cur
<1>2. flags \in [ECs -> SUBSET Flags] /\ current_ec \in [Places -> ECs \cup {Null}]
  BY Zenon DEF IInv, Types, DataTypes, TypeOK
<1>3. DataTypes'
  <2>1. flags' \in [ECs -> SUBSET Flags]
    BY Zenon, <1>1, <1>2 DEF Flags
  <2>2. current_ec' \in [Places -> ECs \cup {Null}]
    BY Zenon, <1>1, <1>2
  <2>3. \A x \in Places : mode'[x] = "user" => current_ec'[x] # Null
    BY Zenon, <1>1, <1>2 DEF IInv, Types, DataTypes, TypeOK
  <2>4. currentPlace' \in [ECs -> Places \cup {Null}]
    BY Zenon, <1>1 DEF IInv, Types, DataTypes, TypeOK
  <2> QED
    BY Zenon, <1>1, <2>1, <2>2, <2>3, <2>4 DEF IInv, Types, DataTypes, TypeOK, scVars
<1>4. ASSUME NEW e \in ECs
      PROVE  /\ "IS_WAITING" \in flags'[e] => "IS_WAITING" \in flags[e]
             /\ "IS_NOTIFIED" \in flags'[e] => "IS_NOTIFIED" \in flags[e]
  BY Zenon, <1>1, <1>2
<1>5. \A x \in Places : mode[x] # "kernel" => current_ec'[x] = current_ec[x]
  BY Zenon, <1>1, <1>2
<1>6. UNCHANGED <<eventQueue, mode, sel, tasks, syncs>>
  BY Zenon, <1>1 DEF queues
<1>7. tasks' \in [Places -> SUBSET Seq(Quiet)] /\ syncs' \in [Places -> SUBSET Seq(Quiet)]
  BY Zenon, <1>6 DEF IInv, Types
<1> QED
  BY Zenon, <1>1, <1>3, <1>4, <1>5, <1>6, <1>7, SeqQuiet, QuietStep

\* Clearing flags: the instruction that ends the waiting is gone when the
\* context no longer waits.
LEMMA ClearStep ==
    ASSUME IInv, NEW p \in Places, prog[p] # <<>>, Cur(p).do \in {"clear", "unset"},
           NEW q \in Seq(Quiet), Cont(p, q),
           flags' = [flags EXCEPT ![Cur(p).ec] = @ \ Cur(p).f],
           UNCHANGED <<butFlags, scVars, local, queues, ghost>>
    PROVE  IInv'
<1>1. flags \in [ECs -> SUBSET Flags] /\ Cur(p).ec \in ECs
  BY Zenon, CurInstr DEF IInv, Types, DataTypes, TypeOK
<1>2. DataTypes' /\ UNCHANGED <<eventQueue, mode, sel, current_ec, tasks, syncs>>
  <2>1. flags' \in [ECs -> SUBSET Flags]
    BY Zenon, <1>1
  <2> QED
    BY Zenon, <2>1 DEF IInv, Types, DataTypes, TypeOK, butFlags, scVars, local, queues, ghost
<1>3. tasks' \in [Places -> SUBSET Seq(Quiet)] /\ syncs' \in [Places -> SUBSET Seq(Quiet)]
  BY Zenon, <1>2 DEF IInv, Types
<1>4. /\ Types' /\ ProgInv' /\ SelInv'
      /\ \A c : Pending(c) => Pending(c)' \/ c = Cur(p)
  BY Zenon, <1>2, <1>3, Continue
<1>5. ASSUME NEW e \in ECs
      PROVE  /\ flags'[e] \subseteq flags[e]
             /\ "IS_WAITING" \in flags'[e] => e # Cur(p).ec \/ ~Wakes(Cur(p))
  BY Zenon, <1>1 DEF Wakes
<1>6. ASSUME NEW c \in Instr, NEW e \in ECs, "IS_WAITING" \in flags'[e], Pending(c), c.ec = e,
             Wakes(c) \/ c.do = "checkEvents"
      PROVE  Pending(c)'
  <2>1. c # Cur(p)
    BY Zenon, <1>5, <1>6
  <2> QED
    BY Zenon, <1>4, <1>6, <2>1
<1>7. NotifiedInv'
  <2> SUFFICES ASSUME NEW e \in ECs, {"IS_WAITING", "IS_NOTIFIED"} \subseteq flags'[e]
               PROVE  \E c \in Instr : /\ Pending(c)' /\ c.ec = e
                                       /\ Wakes(c) \/ (c.do = "checkEvents" /\ c.f # {})
    BY Zenon DEF NotifiedInv
  <2>1. {"IS_WAITING", "IS_NOTIFIED"} \subseteq flags[e]
    BY Zenon, <1>5
  <2>2. PICK c \in Instr : Pending(c) /\ c.ec = e /\ (Wakes(c) \/ (c.do = "checkEvents" /\ c.f # {}))
    BY Zenon, <2>1 DEF IInv, NotifiedInv
  <2>3. Pending(c)'
    BY Zenon, <1>6, <2>2
  <2> QED
    BY Zenon, <2>2, <2>3
<1>8. EventInv'
  <2> SUFFICES ASSUME NEW e \in ECs, "IS_WAITING" \in flags'[e], eventQueue'[e] > 0
               PROVE  \E c \in Instr : Pending(c)' /\ c.ec = e /\ (Wakes(c) \/ c.do = "checkEvents")
    BY Zenon DEF EventInv
  <2>1. "IS_WAITING" \in flags[e] /\ eventQueue[e] > 0
    BY Zenon, <1>2, <1>5
  <2>2. PICK c \in Instr : Pending(c) /\ c.ec = e /\ (Wakes(c) \/ c.do = "checkEvents")
    BY Zenon, <2>1 DEF IInv, EventInv
  <2>3. Pending(c)'
    BY Zenon, <1>6, <2>2
  <2> QED
    BY Zenon, <2>2, <2>3
<1> QED
  BY Zenon, <1>4, <1>7, <1>8 DEF IInv

\* Resetting flags ends a waiting or leaves it as it is.
LEMMA Unset_IInv ==
    ASSUME IInv, NEW p \in Places, UpdateFlags(p), ~Fetch(p, "set")
    PROVE  IInv'
<1>1. /\ prog[p] # <<>> /\ Cur(p).do = "unset" /\ Cont(p, <<>>)
      /\ flags' = [flags EXCEPT ![Cur(p).ec] = @ \ Cur(p).f]
      /\ UNCHANGED <<butFlags, scVars, local, queues, ghost>>
  BY Zenon DEF UpdateFlags, Fetch, Cur
<1>2. Cur(p).do \in {"clear", "unset"}
  BY Zenon, <1>1
<1> QED
  BY Zenon, <1>1, <1>2, SeqQuiet, ClearStep

\* A clear() of IS_WAITING ends the waiting that was accounted for.
LEMMA Clear_IInv ==
    ASSUME IInv, NEW p \in Places, Clear(p)
    PROVE  IInv'
<1>1. /\ prog[p] # <<>> /\ Cur(p).do \in {"clear", "unset"}
      /\ flags' = [flags EXCEPT ![Cur(p).ec] = @ \ Cur(p).f]
      /\ UNCHANGED <<butFlags, scVars, local, queues, ghost>>
  BY Zenon DEF Clear, Fetch, Cur
<1>2. PICK q \in Seq(Quiet) : Cont(p, q)
  <2>1. "clearCheck" \in Verbs \ {"pushEvent", "set", "suspend"}
    BY Zenon DEF Verbs
  <2>2. Then(Cur(p), "clearCheck") \in Seq(Quiet)
    BY Zenon, <1>1, <2>1, CurInstr, ThenQuiet
  <2> QED
    BY Zenon, <2>2, SeqQuiet DEF Clear, When
<1> QED
  BY Zenon, <1>1, <1>2, ClearStep

\* wait() sets IS_WAITING, and is then going to check for what came before.
LEMMA Wait_IInv ==
    ASSUME IInv, NEW p \in Places, Wait(p)
    PROVE  IInv'
<1> PICK e0 : e0 = Cur(p).ec
  BY Zenon
<1> PICK f0 : f0 = flags[e0] \cap {"IS_NOTIFIED"}
  BY Zenon
<1>1. /\ prog[p] # <<>> /\ Cur(p).do = "wait"
      /\ flags' = [flags EXCEPT ![e0] = @ \cup {"IN_WAIT", "IS_WAITING"}]
      /\ Cont(p, I("checkEvents", e0, f0, Null, <<>>))
      /\ UNCHANGED <<butFlags, scVars, local, queues, ghost>>
  BY Zenon DEF Wait, Fetch, Cur
<1>2. flags \in [ECs -> SUBSET Flags] /\ e0 \in ECs
  BY Zenon, <1>1, CurInstr DEF IInv, Types, DataTypes, TypeOK
<1>3. DataTypes' /\ UNCHANGED <<eventQueue, mode, sel, current_ec, tasks, syncs>>
  <2>1. flags' \in [ECs -> SUBSET Flags]
    BY Zenon, <1>1, <1>2 DEF Flags, BLOCK_MASK
  <2> QED
    BY Zenon, <1>1, <2>1 DEF IInv, Types, DataTypes, TypeOK, butFlags, scVars, local, queues, ghost
<1>4. tasks' \in [Places -> SUBSET Seq(Quiet)] /\ syncs' \in [Places -> SUBSET Seq(Quiet)]
  BY Zenon, <1>3 DEF IInv, Types
<1> PICK k : k = [do |-> "checkEvents", ec |-> e0, f |-> f0, at |-> Null, then |-> <<>>]
  BY Zenon
<1>5. I("checkEvents", e0, f0, Null, <<>>) = <<k>> /\ <<k>> \in Seq(Quiet) /\ k \in Instr
  <2>1. "checkEvents" \in Verbs \ {"pushEvent"} /\ <<>> \in Seq(Simple) /\ f0 \in SUBSET Flags
    BY <1>2 DEF Verbs
  <2>2. I("checkEvents", e0, f0, Null, <<>>) \in Seq(Quiet)
    BY Zenon, <1>2, <2>1, IQuiet
  <2>3. I("checkEvents", e0, f0, Null, <<>>) = <<k>>
    BY Zenon DEF I
  <2>4. k \in Quiet
    BY Zenon, <1>2, <2>1, IQuiet
  <2> QED
    BY Zenon, <2>2, <2>3, <2>4 DEF Quiet
<1>6. /\ Types' /\ ProgInv' /\ SelInv'
      /\ \A c : Pending(c) => Pending(c)' \/ c = Cur(p)
      /\ \A i \in DOMAIN <<k>> : Pending(<<k>>[i])'
  BY Zenon, <1>1, <1>3, <1>4, <1>5, Continue
<1>7. Pending(k)' /\ k.ec = e0 /\ k.do = "checkEvents" /\ k.f = f0
  <2>1. 1 \in DOMAIN <<k>> /\ <<k>>[1] = k
    OBVIOUS
  <2> QED
    BY Zenon, <1>6, <2>1
<1>8. \A c \in Instr : Pending(c) /\ (Wakes(c) \/ c.do = "checkEvents") => Pending(c)'
  BY Zenon, <1>1, <1>6 DEF Wakes
<1>9. NotifiedInv'
  <2> SUFFICES ASSUME NEW e \in ECs, {"IS_WAITING", "IS_NOTIFIED"} \subseteq flags'[e]
               PROVE  \E c \in Instr : /\ Pending(c)' /\ c.ec = e
                                       /\ Wakes(c) \/ (c.do = "checkEvents" /\ c.f # {})
    BY Zenon DEF NotifiedInv
  <2>1. CASE e = e0
    <3>1. f0 # {}
      BY Zenon, <1>1, <1>2, <2>1
    <3> QED
      BY Zenon, <1>5, <1>7, <2>1, <3>1
  <2>2. CASE e # e0
    <3>0. {"IS_WAITING", "IS_NOTIFIED"} \subseteq flags[e]
      BY Zenon, <1>1, <1>2, <2>2
    <3>1. PICK c \in Instr : Pending(c) /\ c.ec = e /\ (Wakes(c) \/ (c.do = "checkEvents" /\ c.f # {}))
      BY Zenon, <3>0 DEF IInv, NotifiedInv
    <3> QED
      BY Zenon, <1>8, <3>1
  <2> QED
    BY Zenon, <2>1, <2>2
<1>10. EventInv'
  <2> SUFFICES ASSUME NEW e \in ECs, "IS_WAITING" \in flags'[e], eventQueue'[e] > 0
               PROVE  \E c \in Instr : Pending(c)' /\ c.ec = e /\ (Wakes(c) \/ c.do = "checkEvents")
    BY Zenon DEF EventInv
  <2>1. CASE e = e0
    BY Zenon, <1>5, <1>7, <2>1
  <2>2. CASE e # e0
    <3>0. "IS_WAITING" \in flags[e] /\ eventQueue[e] > 0
      BY Zenon, <1>1, <1>2, <1>3, <2>2
    <3>1. PICK c \in Instr : Pending(c) /\ c.ec = e /\ (Wakes(c) \/ c.do = "checkEvents")
      BY Zenon, <3>0 DEF IInv, EventInv
    <3> QED
      BY Zenon, <1>8, <3>1
  <2> QED
    BY Zenon, <2>1, <2>2
<1> QED
  BY Zenon, <1>6, <1>9, <1>10 DEF IInv

\* If wait() finds nothing, nothing had come; otherwise it ends its waiting.
LEMMA CheckEvents_IInv ==
    ASSUME IInv, NEW p \in Places, CheckEvents(p)
    PROVE  IInv'
<1> PICK e0 : e0 = Cur(p).ec
  BY Zenon
<1> PICK f0 : f0 = Cur(p).f
  BY Zenon
<1>1. /\ prog[p] # <<>> /\ Cur(p).do = "checkEvents"
      /\ UNCHANGED <<ecVars, scVars, local, queues, ghost>>
  BY Zenon DEF CheckEvents, Fetch, Cur
<1>2. eventQueue \in [ECs -> Nat] /\ e0 \in ECs
  BY Zenon, <1>1, CurInstr DEF IInv, Types, DataTypes, TypeOK
<1>3. DataTypes' /\ UNCHANGED <<flags, eventQueue, mode, sel, current_ec, tasks, syncs>>
  BY Zenon, <1>1 DEF IInv, Types, DataTypes, TypeOK, ecVars, scVars, local, queues, ghost
<1>4. tasks' \in [Places -> SUBSET Seq(Quiet)] /\ syncs' \in [Places -> SUBSET Seq(Quiet)]
  BY Zenon, <1>3 DEF IInv, Types
<1> PICK k : k = [do |-> "unset", ec |-> e0, f |-> {"IS_WAITING"}, at |-> Null, then |-> <<>>]
  BY Zenon
<1>5. ClearFlags(e0, {"IS_WAITING"}) = <<k>> /\ <<k>> \in Seq(Quiet) /\ k \in Instr /\ Wakes(k) /\ k.ec = e0
  <2>1. "unset" \in Verbs \ {"pushEvent"} /\ <<>> \in Seq(Simple) /\ {"IS_WAITING"} \in SUBSET Flags
    BY DEF Verbs, Flags, BLOCK_MASK
  <2>2. k \in Quiet
    BY Zenon, <1>2, <2>1, IQuiet
  <2>3. ClearFlags(e0, {"IS_WAITING"}) = <<k>>
    BY Zenon DEF I, ClearFlags
  <2>4. Wakes(k) /\ k.ec = e0
    BY Zenon DEF Wakes
  <2> QED
    BY <2>2, <2>3, <2>4 DEF Quiet
<1>6. ASSUME NEW q \in Seq(Quiet), Cont(p, q)
      PROVE  /\ Types' /\ ProgInv' /\ SelInv'
             /\ \A c : Pending(c) => Pending(c)' \/ c = Cur(p)
             /\ \A i \in DOMAIN q : Pending(q[i])'
  BY Zenon, <1>1, <1>3, <1>4, <1>6, Continue
<1>7. CASE eventQueue[e0] > 0 \/ f0 # {}
  <2>1. Cont(p, <<k>>)
    BY Zenon, <1>5, <1>7 DEF CheckEvents, When
  <2>2. /\ Types' /\ ProgInv' /\ SelInv'
        /\ \A c : Pending(c) => Pending(c)' \/ c = Cur(p)
        /\ \A i \in DOMAIN <<k>> : Pending(<<k>>[i])'
    BY Zenon, <1>5, <1>6, <2>1
  <2>3. Pending(k)'
    <3>1. 1 \in DOMAIN <<k>> /\ <<k>>[1] = k
      OBVIOUS
    <3> QED
      BY Zenon, <2>2, <3>1
  <2>4. NotifiedInv'
    <3> SUFFICES ASSUME NEW e \in ECs, {"IS_WAITING", "IS_NOTIFIED"} \subseteq flags'[e]
                 PROVE  \E c \in Instr : /\ Pending(c)' /\ c.ec = e
                                         /\ Wakes(c) \/ (c.do = "checkEvents" /\ c.f # {})
      BY Zenon DEF NotifiedInv
    <3>1. PICK c \in Instr : Pending(c) /\ c.ec = e /\ (Wakes(c) \/ (c.do = "checkEvents" /\ c.f # {}))
      BY Zenon, <1>3 DEF IInv, NotifiedInv
    <3>2. CASE c = Cur(p)
      BY Zenon, <1>5, <2>3, <3>1, <3>2
    <3> QED
      BY Zenon, <2>2, <3>1, <3>2
  <2>5. EventInv'
    <3> SUFFICES ASSUME NEW e \in ECs, "IS_WAITING" \in flags'[e], eventQueue'[e] > 0
                 PROVE  \E c \in Instr : Pending(c)' /\ c.ec = e /\ (Wakes(c) \/ c.do = "checkEvents")
      BY Zenon DEF EventInv
    <3>1. PICK c \in Instr : Pending(c) /\ c.ec = e /\ (Wakes(c) \/ c.do = "checkEvents")
      BY Zenon, <1>3 DEF IInv, EventInv
    <3>2. CASE c = Cur(p)
      BY Zenon, <1>5, <2>3, <3>1, <3>2
    <3> QED
      BY Zenon, <2>2, <3>1, <3>2
  <2> QED
    BY Zenon, <2>2, <2>4, <2>5 DEF IInv
<1>8. CASE ~(eventQueue[e0] > 0 \/ f0 # {})
  <2>1. Cont(p, <<>>)
    BY Zenon, <1>8 DEF CheckEvents, When
  <2>2. /\ Types' /\ ProgInv' /\ SelInv'
        /\ \A c : Pending(c) => Pending(c)' \/ c = Cur(p)
    BY Zenon, <1>6, <2>1, SeqQuiet
  <2>3. ~Wakes(Cur(p))
    BY Zenon, <1>1 DEF Wakes
  <2>4. NotifiedInv'
    <3> SUFFICES ASSUME NEW e \in ECs, {"IS_WAITING", "IS_NOTIFIED"} \subseteq flags'[e]
                 PROVE  \E c \in Instr : /\ Pending(c)' /\ c.ec = e
                                         /\ Wakes(c) \/ (c.do = "checkEvents" /\ c.f # {})
      BY Zenon DEF NotifiedInv
    <3>1. PICK c \in Instr : Pending(c) /\ c.ec = e /\ (Wakes(c) \/ (c.do = "checkEvents" /\ c.f # {}))
      BY Zenon, <1>3 DEF IInv, NotifiedInv
    <3>2. c # Cur(p)
      BY Zenon, <1>8, <2>3, <3>1
    <3> QED
      BY Zenon, <2>2, <3>1, <3>2
  <2>5. EventInv'
    <3> SUFFICES ASSUME NEW e \in ECs, "IS_WAITING" \in flags'[e], eventQueue'[e] > 0
                 PROVE  \E c \in Instr : Pending(c)' /\ c.ec = e /\ (Wakes(c) \/ c.do = "checkEvents")
      BY Zenon DEF EventInv
    <3>1. PICK c \in Instr : Pending(c) /\ c.ec = e /\ (Wakes(c) \/ c.do = "checkEvents")
      BY Zenon, <1>3 DEF IInv, EventInv
    <3>2. c # Cur(p)
      BY Zenon, <1>3, <1>8, <3>1
    <3> QED
      BY Zenon, <2>2, <3>1, <3>2
  <2> QED
    BY Zenon, <2>2, <2>4, <2>5 DEF IInv
<1> QED
  BY Zenon, <1>7, <1>8

\* Every instruction preserves the inductive invariant.
LEMMA Instruction_IInv ==
    ASSUME IInv, NEW p \in Places, Instruction(p)
    PROVE  IInv'
BY Zenon, UpdateFlags_IInv, Unset_IInv, Suspend_IInv, Synchronous_IInv, Clear_IInv, AtHome_IInv, Respond_IInv,
   PushEvent_IInv, CheckEvents_IInv, Wait_IInv, Unload_IInv, Data_IInv, Branch_IInv DEF Instruction

-----------------------------------------------------------------------------
(* Tasks and invocations *)

\* p starts program n, which contains what is left of its old one and the task
\* q that it took from a queue; flags, events and the choice of contexts stay.
Starts(p, n, q) ==
    /\ mode[p] = "kernel"
    /\ n \in Seq(Instr) /\ Good(n)
    /\ prog' = [prog EXCEPT ![p] = n]
    /\ \A i \in DOMAIN prog[p] : \E k \in DOMAIN n : n[k] = prog[p][i]
    /\ \A i \in DOMAIN q : \E k \in DOMAIN n : n[k] = q[i]
    /\ DataTypes' /\ UNCHANGED <<flags, eventQueue, mode, sel, current_ec>>
    /\ tasks' \in [Places -> SUBSET Seq(Quiet)] /\ syncs' \in [Places -> SUBSET Seq(Quiet)]
    /\ \A x \in Places : tasks[x] \cup syncs[x] \subseteq tasks'[x] \cup syncs'[x] \cup {q}

\* Starting such a program preserves the invariant: nothing that was pending is lost.
LEMMA StartStep ==
    ASSUME IInv, NEW p \in Places, NEW n, NEW q, Starts(p, n, q)
    PROVE  IInv'
<1> USE DEF Starts
<1>1. prog \in [Places -> Seq(Instr)] /\ eventQueue \in [ECs -> Nat]
  BY Zenon DEF IInv, Types, DataTypes, TypeOK
<1>2. prog'[p] = n /\ \A x \in Places : x # p => prog'[x] = prog[x]
  BY Zenon, <1>1
<1>3. Types'
  <2>1. prog' \in [Places -> Seq(Instr)]
    BY Zenon, <1>1
  <2> QED
    BY Zenon, <2>1 DEF Types
<1>4. ProgInv'
  BY Zenon, <1>2 DEF IInv, ProgInv
<1>5. SelInv'
  BY Zenon DEF IInv, SelInv
<1>6. ASSUME NEW c, \E k \in DOMAIN n : n[k] = c PROVE Pending(c)'
  BY <1>2, <1>6 DEF Pending
<1>7. ASSUME NEW c, Pending(c) PROVE Pending(c)'
  <2>1. PICK x \in Places : \/ \E i \in DOMAIN prog[x] : prog[x][i] = c
                           \/ \E r \in tasks[x] \cup syncs[x] : \E i \in DOMAIN r : r[i] = c
    BY Zenon, <1>7 DEF Pending
  <2>2. CASE \E i \in DOMAIN prog[x] : prog[x][i] = c
    <3>1. CASE x = p
      <4>1. \E k \in DOMAIN n : n[k] = c
        BY Zenon, <2>2, <3>1
      <4> QED
        BY Zenon, <1>6, <4>1
    <3>2. CASE x # p
      BY <1>2, <2>2, <3>2 DEF Pending
    <3> QED
      BY Zenon, <3>1, <3>2
  <2>3. CASE \E r \in tasks[x] \cup syncs[x] : \E i \in DOMAIN r : r[i] = c
    <3>1. PICK r \in tasks[x] \cup syncs[x] : \E i \in DOMAIN r : r[i] = c
      BY Zenon, <2>3
    <3>2. CASE r = q
      <4>1. \E k \in DOMAIN n : n[k] = c
        BY Zenon, <3>1, <3>2
      <4> QED
        BY Zenon, <1>6, <4>1
    <3>3. CASE r # q
      <4>1. r \in tasks'[x] \cup syncs'[x]
        BY Zenon, <3>3
      <4> QED
        BY Zenon, <3>1, <4>1 DEF Pending
    <3> QED
      BY Zenon, <3>2, <3>3
  <2> QED
    BY Zenon, <2>1, <2>2, <2>3
<1> QED
  <2>1. \A e \in ECs : eventQueue'[e] <= eventQueue[e]
    BY <1>1
  <2> QED
    BY Zenon, <1>3, <1>4, <1>5, <1>7, <2>1, KeepStep

\* A place that runs a synchronous task continues with its own program.
LEMMA RunSync_IInv ==
    ASSUME IInv, NEW p \in Places, RunSync(p)
    PROVE  IInv'
<1>1. mode[p] = "kernel" /\ UNCHANGED <<ecVars, scVars, local, tasks, done, irq, ghost>>
  BY Zenon DEF RunSync, Idle, Fetch
<1>2. PICK q \in syncs[p] : syncs' = [syncs EXCEPT ![p] = @ \ {q}] /\ prog' = [prog EXCEPT ![p] = q \o @]
  BY Zenon DEF RunSync
<1>3. prog \in [Places -> Seq(Instr)] /\ q \in Seq(Quiet) /\ Good(prog[p])
      /\ tasks \in [Places -> SUBSET Seq(Quiet)] /\ syncs \in [Places -> SUBSET Seq(Quiet)]
  BY Zenon, <1>2 DEF IInv, Types, ProgInv
<1> PICK n : n = q \o prog[p]
  BY Zenon
<1>4. n \in Seq(Instr) /\ Good(n)
  BY Zenon, <1>3, GoodConcat
<1>5. /\ \A i \in DOMAIN q : i \in DOMAIN n /\ n[i] = q[i]
      /\ \A i \in DOMAIN prog[p] : Len(q) + i \in DOMAIN n /\ n[Len(q) + i] = prog[p][i]
  <2>1. q \in Seq(Instr) /\ prog[p] \in Seq(Instr)
    BY <1>3 DEF Quiet
  <2>2. /\ \A i \in DOMAIN q : i \in DOMAIN (q \o prog[p]) /\ (q \o prog[p])[i] = q[i]
        /\ \A i \in DOMAIN prog[p] :
              Len(q) + i \in DOMAIN (q \o prog[p]) /\ (q \o prog[p])[Len(q) + i] = prog[p][i]
    BY <2>1, ConcatItems
  <2> QED
    BY Zenon, <2>2
<1>6. prog' = [prog EXCEPT ![p] = n]
  BY Zenon, <1>2
<1>7. DataTypes' /\ UNCHANGED <<flags, eventQueue, mode, sel, current_ec, tasks>>
  BY Zenon, <1>1 DEF IInv, Types, DataTypes, TypeOK, ecVars, scVars, local, ghost
<1>8. /\ tasks' \in [Places -> SUBSET Seq(Quiet)] /\ syncs' \in [Places -> SUBSET Seq(Quiet)]
      /\ \A x \in Places : tasks[x] \cup syncs[x] \subseteq tasks'[x] \cup syncs'[x] \cup {q}
  BY Zenon, <1>2, <1>3, <1>7
<1>9. /\ \A i \in DOMAIN prog[p] : \E k \in DOMAIN n : n[k] = prog[p][i]
      /\ \A i \in DOMAIN q : \E k \in DOMAIN n : n[k] = q[i]
  BY Zenon, <1>5
<1>10. Starts(p, n, q)
  BY Zenon, <1>1, <1>4, <1>6, <1>7, <1>8, <1>9 DEF Starts
<1> QED
  BY Zenon, <1>10, StartStep

\* Programs that announce nothing are good.
LEMMA QuietGood ==
    ASSUME NEW q \in Seq(Quiet)
    PROVE  q \in Seq(Instr) /\ Good(q)
<1>1. \A i \in DOMAIN q : q[i] \in Quiet
  OBVIOUS
<1>2. q \in Seq(Instr)
  BY DEF Quiet
<1> QED
  BY Zenon, <1>1, <1>2 DEF Quiet, Good

\* A place without a program starts a tasklet.
LEMMA RunTask_IInv ==
    ASSUME IInv, NEW p \in Places, RunTask(p)
    PROVE  IInv'
<1>1. mode[p] = "kernel" /\ prog[p] = <<>> /\ UNCHANGED <<ecVars, scVars, local, syncs, done, irq, ghost>>
  BY Zenon DEF RunTask, Idle
<1>2. PICK q \in tasks[p] : tasks' = [tasks EXCEPT ![p] = @ \ {q}] /\ prog' = [prog EXCEPT ![p] = q]
  BY Zenon DEF RunTask
<1>3. q \in Seq(Quiet) /\ tasks \in [Places -> SUBSET Seq(Quiet)] /\ syncs \in [Places -> SUBSET Seq(Quiet)]
  BY Zenon, <1>2 DEF IInv, Types
<1>4. q \in Seq(Instr) /\ Good(q)
  BY Zenon, <1>3, QuietGood
<1>5. DataTypes' /\ UNCHANGED <<flags, eventQueue, mode, sel, current_ec, syncs>>
  BY Zenon, <1>1 DEF IInv, Types, DataTypes, TypeOK, ecVars, scVars, local, ghost
<1>6. /\ tasks' \in [Places -> SUBSET Seq(Quiet)] /\ syncs' \in [Places -> SUBSET Seq(Quiet)]
      /\ \A x \in Places : tasks[x] \cup syncs[x] \subseteq tasks'[x] \cup syncs'[x] \cup {q}
  BY Zenon, <1>2, <1>3, <1>5
<1> PICK n : n = q
  BY Zenon
<1>7. /\ \A i \in DOMAIN prog[p] : \E k \in DOMAIN n : n[k] = prog[p][i]
      /\ \A i \in DOMAIN q : \E k \in DOMAIN n : n[k] = q[i]
  BY <1>1
<1>8. prog' = [prog EXCEPT ![p] = n] /\ n \in Seq(Instr) /\ Good(n)
  BY Zenon, <1>2, <1>4
<1>9. Starts(p, n, q)
  BY Zenon, <1>1, <1>5, <1>6, <1>7, <1>8 DEF Starts
<1> QED
  BY Zenon, <1>9, StartStep

\* The programs that end a waiting, resume and suspend, in handlers.
LEMMA HandlerParts ==
    ASSUME NEW e \in ECs
    PROVE  /\ \A d \in {"reply", "setBase", "registers", "setAS", "unbindAS", "unbindSched", "saveState",
                        "deleteObject"} :
                  Do(d, e) \in Seq(Simple)
           /\ \A f \in SUBSET (Flags \ {"IS_WAITING", "IS_NOTIFIED"}) :
                  SetFlags(e, f) \in Seq(Simple) /\ SetFlagsSuspend(e, f) \in Seq(Simple)
           /\ \A f \in SUBSET Flags : ClearFlags(e, f) \in Seq(Simple) /\ ClearFlagsResume(e, f) \in Seq(Simple)
           /\ \A r \in Seq(Simple) : SynchronousAt(e, r) \in Seq(Quiet) /\ RunAtHome(e, r) \in Seq(Quiet)
           /\ \A r, s \in Seq(Simple) : r \o s \in Seq(Simple)
<1>1. <<>> \in Seq(Simple) /\ {} \in SUBSET Flags
  OBVIOUS
<1>2. ASSUME NEW d \in {"reply", "setBase", "registers", "setAS", "unbindAS", "unbindSched", "saveState", "deleteObject"}
      PROVE  Do(d, e) \in Seq(Simple)
  <2>1. d \in Verbs \ {"pushEvent"} /\ d \notin {"set", "suspend"}
    BY Zenon DEF Verbs
  <2> QED
    BY Zenon, <1>1, <2>1, ISimple DEF Do
<1>3. ASSUME NEW f \in SUBSET (Flags \ {"IS_WAITING", "IS_NOTIFIED"})
      PROVE  SetFlags(e, f) \in Seq(Simple) /\ SetFlagsSuspend(e, f) \in Seq(Simple)
  <2>1. {"set", "suspend"} \subseteq Verbs \ {"pushEvent"} /\ f \in SUBSET Flags
        /\ f \cap {"IS_WAITING", "IS_NOTIFIED"} = {}
    BY Zenon DEF Verbs
  <2>2. I("set", e, f, Null, <<>>) \in Seq(Simple) /\ I("suspend", e, f, Null, <<>>) \in Seq(Simple)
    BY Zenon, <2>1, ISimple
  <2> QED
    BY Zenon, <1>1, <2>2 DEF SetFlags, SetFlagsSuspend
<1>4. ASSUME NEW f \in SUBSET Flags
      PROVE  ClearFlags(e, f) \in Seq(Simple) /\ ClearFlagsResume(e, f) \in Seq(Simple)
  <2>1. {"unset", "clear"} \subseteq Verbs \ {"pushEvent"}
    BY Zenon DEF Verbs
  <2>2. I("unset", e, f, Null, <<>>) \in Seq(Simple) /\ I("clear", e, f, Null, <<>>) \in Seq(Simple)
    BY Zenon, <2>1, ISimple
  <2> QED
    BY Zenon, <1>1, <2>2 DEF ClearFlags, ClearFlagsResume
<1>5. ASSUME NEW r \in Seq(Simple)
      PROVE  SynchronousAt(e, r) \in Seq(Quiet) /\ RunAtHome(e, r) \in Seq(Quiet)
  <2>1. {"sync", "atHome"} \subseteq Verbs \ {"pushEvent"}
    BY Zenon DEF Verbs
  <2>2. I("sync", e, {}, Null, r) \in Seq(Quiet) /\ I("atHome", e, {}, Null, r) \in Seq(Quiet)
    BY Zenon, <1>1, <2>1, IQuiet
  <2> QED
    BY Zenon, <2>2 DEF SynchronousAt, RunAtHome
<1>6. \A r, s \in Seq(Simple) : r \o s \in Seq(Simple)
  OBVIOUS
<1> QED
  BY Zenon, <1>2, <1>3, <1>4, <1>5, <1>6

\* A notifier makes the event visible before it ends the waiting.
LEMMA Notifier ==
    ASSUME NEW e \in ECs, NEW q \in Signal(e) \cup AttachKEvent(e)
    PROVE  q \in Seq(Instr) /\ Good(q)
<1> DEFINE a == IF q \in Signal(e) THEN [do |-> "set", ec |-> e, f |-> {"IS_NOTIFIED"}, at |-> Null, then |-> <<>>]
                ELSE [do |-> "pushEvent", ec |-> e, f |-> {}, at |-> Null, then |-> <<>>]
           b == [do |-> "clear", ec |-> e, f |-> {"IS_WAITING"}, at |-> Null, then |-> <<>>]
<1>1. q = <<a>> \o <<b>>
  BY Zenon DEF Signal, AttachKEvent, SetFlags, ClearFlagsResume, Do, I
<1>2. q = <<a, b>>
  BY <1>1
<1>3. a \in Instr /\ b \in Instr
  <2>1. /\ {"set", "pushEvent", "clear"} \subseteq Verbs /\ <<>> \in Seq(Simple)
        /\ {{}, {"IS_NOTIFIED"}, {"IS_WAITING"}} \subseteq SUBSET Flags
    BY DEF Verbs, Flags, BLOCK_MASK
  <2>2. a \in Fields(Seq(Simple)) /\ b \in Fields(Seq(Simple))
    BY Zenon, <2>1 DEF Fields
  <2>3. ~Blocks(a) /\ ~Blocks(b)
    BY Zenon DEF Blocks
  <2> QED
    BY Zenon, <2>2, <2>3 DEF Instr
<1>4. a.ec = b.ec /\ Wakes(b) /\ ~Announces(b)
  BY Zenon DEF Wakes, Announces
<1> HIDE DEF a, b
<1>5. q \in Seq(Instr) /\ DOMAIN q = {1, 2} /\ q[1] = a /\ q[2] = b
  BY <1>2, <1>3
<1>6. Good(q)
  BY <1>4, <1>5 DEF Good
<1> QED
  BY Zenon, <1>5, <1>6

\* Every handler is a good program.
LEMMA HandlersGood ==
    ASSUME NEW e \in ECs, NEW op \in Operations, NEW q \in Handlers(op, e)
    PROVE  q \in Seq(Instr) /\ Good(q)
<1> USE HandlerParts
<1> DEFINE reply == Do("reply", e)
<1>1. /\ reply \in Seq(Simple) /\ Do("setBase", e) \in Seq(Simple)
      /\ Do("registers", e) \in Seq(Simple) /\ Do("setAS", e) \in Seq(Simple)
      /\ UnsetAS(e) \in Seq(Simple) /\ UnsetSched(e) \in Seq(Simple) /\ Do("saveState", e) \in Seq(Simple)
      /\ Do("deleteObject", e) \in Seq(Simple)
  BY Zenon DEF UnsetAS, UnsetSched
<1>2. /\ \A f \in {{"IS_TRAPPED"}, {"REGISTER_ACCESS"}, {"NO_AS"}, {}} :
            /\ SetFlags(e, f) \in Seq(Simple) /\ SetFlagsSuspend(e, f) \in Seq(Simple)
            /\ ClearFlags(e, f) \in Seq(Simple) /\ ClearFlagsResume(e, f) \in Seq(Simple)
      /\ SetFlags(e, {"IS_TRAPPED", "DONT_PREEMPT"}) \in Seq(Simple)
      /\ SetFlags(e, {"NO_AS", "NO_SCHED"}) \in Seq(Simple)
      /\ \A s \in {{}, {"IS_TRAPPED"}} : SetFlags(e, {"REGISTER_ACCESS", "DONT_PREEMPT"} \cup s) \in Seq(Simple)
  <2>1. /\ \A f \in {{"IS_TRAPPED"}, {"REGISTER_ACCESS"}, {"NO_AS"}, {}} :
              f \in SUBSET Flags /\ f \in SUBSET (Flags \ {"IS_WAITING", "IS_NOTIFIED"})
        /\ {"IS_TRAPPED", "DONT_PREEMPT"} \in SUBSET (Flags \ {"IS_WAITING", "IS_NOTIFIED"})
        /\ {"NO_AS", "NO_SCHED"} \in SUBSET (Flags \ {"IS_WAITING", "IS_NOTIFIED"})
        /\ \A s \in {{}, {"IS_TRAPPED"}} :
              {"REGISTER_ACCESS", "DONT_PREEMPT"} \cup s \in SUBSET (Flags \ {"IS_WAITING", "IS_NOTIFIED"})
    BY Zenon DEF Flags, BLOCK_MASK
  <2> QED
    BY Zenon, <2>1
<1>3. /\ \A r, s \in Seq(Simple) : r \o s \in Seq(Simple)
      /\ \A r \in Seq(Simple) : SynchronousAt(e, r) \in Seq(Quiet) /\ RunAtHome(e, r) \in Seq(Quiet)
      /\ \A r, s \in Seq(Quiet) : r \o s \in Seq(Quiet)
      /\ \A r \in Seq(Simple) : r \in Seq(Quiet)
  BY Zenon, SeqQuiet
<1> HIDE HandlerParts
<1> HIDE DEF reply
<1>4. CASE op \in {"signal", "attachKEvent"}
  <2>1. q \in Signal(e) \cup AttachKEvent(e)
    BY Zenon, <1>4 DEF Handlers
  <2> QED
    BY Zenon, <2>1, Notifier
<1>5. CASE op \notin {"signal", "attachKEvent"}
  <2>1. q \in Seq(Quiet)
    <3>1. CASE op = "resume"
      <4>1. q = ClearFlagsResume(e, {"IS_TRAPPED"}) \o reply
        BY Zenon, <3>1 DEF Handlers, InvokeResume, RequestDone, reply
      <4> QED
        BY Zenon, <1>1, <1>2, <1>3, <4>1
    <3>2. CASE op = "suspend"
      <4>1. q = SetFlags(e, {"IS_TRAPPED", "DONT_PREEMPT"}) \o RunAtHome(e, reply)
        BY Zenon, <3>2 DEF Handlers, InvokeSuspend, RequestDone, reply
      <4> QED
        BY Zenon, <1>1, <1>2, <1>3, <4>1
    <3>3. CASE op = "read"
      <4>1. PICK s \in {{}, {"IS_TRAPPED"}} :
               q = SetFlags(e, {"REGISTER_ACCESS", "DONT_PREEMPT"} \cup s) \o
                   RunAtHome(e, Do("registers", e) \o ClearFlagsResume(e, {"REGISTER_ACCESS"}) \o reply)
        BY Zenon, <3>3 DEF Handlers, InvokeReadRegisters, RequestDone, reply
      <4>2. Do("registers", e) \o ClearFlagsResume(e, {"REGISTER_ACCESS"}) \o reply \in Seq(Simple)
        BY Zenon, <1>1, <1>2, <1>3
      <4> QED
        BY Zenon, <1>2, <1>3, <4>1, <4>2
    <3>4. CASE op = "write"
      <4>1. PICK r \in {{}, {"IS_TRAPPED"}}, f \in {{}, {"IS_TRAPPED"}} :
               q = SetFlags(e, {"REGISTER_ACCESS"}) \o ClearFlags(e, r) \o
                   RunAtHome(e, Do("registers", e) \o SetFlags(e, f) \o
                                ClearFlagsResume(e, {"REGISTER_ACCESS"}) \o reply)
        <5>1. q \in InvokeWriteRegisters(e)
          BY Zenon, <3>4 DEF Handlers
        <5>2. \E r \in {{}, {"IS_TRAPPED"}}, f \in {{}, {"IS_TRAPPED"}} : q = WriteRegisters(e, r, f)
          BY SMT, <5>1 DEF InvokeWriteRegisters
        <5> QED
          BY Zenon, <5>2 DEF WriteRegisters, RequestDone, reply
      <4>2. Do("registers", e) \o SetFlags(e, f) \o ClearFlagsResume(e, {"REGISTER_ACCESS"}) \o reply \in Seq(Simple)
        BY Zenon, <1>1, <1>2, <1>3
      <4>3. SetFlags(e, {"REGISTER_ACCESS"}) \o ClearFlags(e, r) \in Seq(Quiet)
        BY Zenon, <1>2, <1>3
      <4> QED
        BY Zenon, <1>3, <4>1, <4>2, <4>3
    <3>5. CASE op = "setFSGS"
      <4>1. q \in {reply, Do("setBase", e) \o SetFlagsSuspend(e, {"IS_TRAPPED"}) \o
                          ClearFlagsResume(e, {"IS_TRAPPED"}) \o reply}
        BY Zenon, <3>5 DEF Handlers, InvokeSetFSGS, RequestDone, reply
      <4> QED
        BY Zenon, <1>1, <1>2, <1>3, <4>1
    <3>6. CASE op = "configure"
      <4>1. q \in {UnsetAS(e) \o reply, UnsetAS(e) \o (Do("setAS", e) \o ClearFlagsResume(e, {"NO_AS"})) \o reply}
        BY Zenon, <3>6 DEF Handlers, InvokeConfigure, SetAS, RequestDone, reply
      <4>2. Do("setAS", e) \o ClearFlagsResume(e, {"NO_AS"}) \in Seq(Simple)
        BY Zenon, <1>1, <1>2, <1>3
      <4> QED
        BY Zenon, <1>1, <1>3, <4>1, <4>2
    <3>7. CASE op \in {"revokeAS", "revokeSched"}
      <4>1. q \in {UnsetAS(e), UnsetSched(e)}
        BY Zenon, <3>7 DEF Handlers
      <4> QED
        BY Zenon, <1>1, <1>3, <4>1
    <3>8. CASE op = "delete"
      <4>1. q = SetFlags(e, {"NO_AS", "NO_SCHED"}) \o
                SynchronousAt(e, Do("saveState", e) \o UnsetSched(e)) \o
                UnsetAS(e) \o UnsetSched(e) \o Do("deleteObject", e)
        BY Zenon, <3>8 DEF Handlers, DeleteCap
      <4>2. SynchronousAt(e, Do("saveState", e) \o UnsetSched(e)) \in Seq(Quiet)
        BY Zenon, <1>1, <1>3
      <4> QED
        BY Zenon, <1>1, <1>2, <1>3, <4>1, <4>2
    <3> QED
      BY Zenon, <1>5, <3>1, <3>2, <3>3, <3>4, <3>5, <3>6, <3>7, <3>8 DEF Operations, Monitored
  <2> QED
    BY Zenon, <2>1, QuietGood
<1> QED
  BY Zenon, <1>4, <1>5

\* The handlers of the invocations, signals and revocations are good programs.
LEMMA Invoke_IInv ==
    ASSUME IInv, NEW p \in Places, NEW op \in scenario.ops, NEW e \in scenario.ecs, Invoke(p, op, e)
    PROVE  IInv'
<1>1. /\ mode[p] = "kernel" /\ prog[p] = <<>> /\ busy' = [busy EXCEPT ![e] = @ \/ op \in Monitored]
      /\ UNCHANGED <<flags, currentPlace, eventQueue, as, sched, refs, scVars, local, queues, scenario>>
  BY Zenon DEF Invoke, Idle
<1>2. PICK q \in Handlers(op, e) : prog' = [prog EXCEPT ![p] = q]
  BY Zenon DEF Invoke
<1>3. op \in Operations /\ e \in ECs
  BY Zenon, SchedulingAssumption DEF IInv, Types, DataTypes
<1>4. q \in Seq(Instr) /\ Good(q)
  BY Zenon, <1>3, HandlersGood
<1>5. DataTypes'
  <2>1. busy \in [ECs -> BOOLEAN]
    BY Zenon DEF IInv, Types, DataTypes, TypeOK
  <2>2. busy' \in [ECs -> BOOLEAN]
    BY Zenon, <1>1, <2>1
  <2> QED
    BY Zenon, <1>1, <2>2 DEF IInv, Types, DataTypes, TypeOK, scVars, local, queues
<1>6. UNCHANGED <<flags, eventQueue, mode, sel, current_ec, tasks, syncs>>
  BY Zenon, <1>1 DEF local, queues
<1>7. /\ tasks' \in [Places -> SUBSET Seq(Quiet)] /\ syncs' \in [Places -> SUBSET Seq(Quiet)]
      /\ \A x \in Places : tasks[x] \cup syncs[x] \subseteq tasks'[x] \cup syncs'[x] \cup {<<>>}
  BY Zenon, <1>6 DEF IInv, Types
<1>8. /\ \A i \in DOMAIN prog[p] : \E k \in DOMAIN q : q[k] = prog[p][i]
      /\ \A i \in DOMAIN <<>> : \E k \in DOMAIN q : q[k] = <<>>[i]
  BY <1>1
<1>9. Starts(p, q, <<>>)
  BY Zenon, <1>1, <1>2, <1>4, <1>5, <1>6, <1>7, <1>8 DEF Starts
<1> QED
  BY Zenon, <1>9, StartStep

-----------------------------------------------------------------------------
(* Return to user mode and kernel entries *)

\* A place without a program changes its mode.
LEMMA ModeStep ==
    ASSUME IInv, NEW p \in Places, prog[p] = <<>>, NEW m, mode' = [mode EXCEPT ![p] = m],
           UNCHANGED <<prog, tasks, syncs>>, DataTypes', SelInv',
           \A e \in ECs : flags'[e] \cap {"IS_WAITING", "IS_NOTIFIED"} \subseteq flags[e],
           \A e \in ECs : eventQueue'[e] <= eventQueue[e]
    PROVE  IInv'
<1>1. Types'
  BY Zenon DEF IInv, Types
<1>2. ProgInv'
  <2>1. mode \in [Places -> {"user", "sleep", "kernel", "try", "save", "load", "resume", "return", "event", "loadAS",
                            "drop", "next", "check", "select"}]
    BY Zenon DEF IInv, Types, DataTypes, TypeOK
  <2> QED
    BY Zenon, <2>1 DEF IInv, ProgInv
<1>3. \A c \in Instr : Pending(c) /\ (Wakes(c) \/ c.do = "checkEvents") => Pending(c)'
  BY Zenon DEF Pending
<1> QED
  BY Zenon, <1>1, <1>2, <1>3, KeepStep

\* The types of the variables that the scheduler loop uses.
LEMMA LoopTypes ==
    ASSUME IInv
    PROVE  /\ flags \in [ECs -> SUBSET Flags] /\ eventQueue \in [ECs -> Nat]
           /\ currentPlace \in [ECs -> Places \cup {Null}]
           /\ current_handle \in [Places -> ECs \cup {Null}] /\ readyQueue \in [Places -> Lists]
           /\ current_ec \in [Places -> ECs \cup {Null}] /\ sel \in [Places -> ECs \cup {Null}]
           /\ mode \in [Places -> {"user", "sleep", "kernel", "try", "save", "load", "resume", "return", "event",
                                   "loadAS", "drop", "next", "check", "select"}]
           /\ \A e \in ECs : eventQueue[e] <= eventQueue[e]
           /\ \A p \in Places : mode[p] = "user" => current_ec[p] # Null
           /\ \A p \in Places : mode[p] # "kernel" => prog[p] = <<>>
           /\ Null \notin ECs
<1>1. eventQueue \in [ECs -> Nat]
  BY Zenon DEF IInv, Types, DataTypes, TypeOK
<1>2. \A e \in ECs : eventQueue[e] <= eventQueue[e]
  BY <1>1
<1> QED
  BY Zenon, <1>2, SchedulingAssumption DEF IInv, Types, DataTypes, TypeOK, ProgInv

\* The steps of tryRunUser() that choose what to do next, and Release.
LEMMA Choose_IInv ==
    ASSUME IInv, NEW p \in Places,
           \/ TryCurrent(p) \/ LoadAS(p) \/ DropCurrent(p) \/ PullNext(p) \/ CheckNext(p) \/ SelectNext(p)
           \/ Release(p) \/ InterruptSleep(p) \/ Call(p)
    PROVE  IInv'
<1>1. UNCHANGED <<flags, currentPlace, eventQueue, as, sched, refs, busy, current_ec, prog, tasks, syncs, scenario>>
  BY Zenon DEF TryCurrent, LoadAS, DropCurrent, PullNext, CheckNext, SelectNext, Release, InterruptSleep, Call, ecVars,
         scVars, queues, ghost
<1>2. prog[p] = <<>>
  BY Zenon, LoopTypes DEF TryCurrent, LoadAS, DropCurrent, PullNext, CheckNext, SelectNext, Release, InterruptSleep, Call,
                   At, Idle
<1>3. /\ \A x \in Places : mode[x] \in Chosen => sel[x] # Null
      /\ \A x \in Places : mode[x] \in Loaded => current_ec[x] = sel[x]
  BY Zenon DEF IInv, SelInv
<1>4. /\ current_handle' \in [Places -> ECs \cup {Null}] /\ sel' \in [Places -> ECs \cup {Null}]
      /\ readyQueue' \in [Places -> Lists]
  <2>1. CASE PullNext(p)
    <3>1. readyQueue[p].head \in ECs \cup {Null} /\ ListPull(readyQueue[p]) \in Lists
      <4>1. readyQueue[p] \in Lists
        BY Zenon, LoopTypes
      <4> QED
        BY Zenon, <4>1 DEF Lists, ListPull, IsEmpty
    <3> QED
      BY Zenon, <2>1, <3>1, LoopTypes DEF PullNext
  <2>2. CASE ~PullNext(p)
    BY Zenon, <2>2, LoopTypes
       DEF TryCurrent, LoadAS, DropCurrent, CheckNext, SelectNext, Release, InterruptSleep, Call, scVars
  <2> QED
    BY Zenon, <2>1, <2>2
<1>5. PICK m : mode' = [mode EXCEPT ![p] = m]
  BY Zenon DEF TryCurrent, LoadAS, DropCurrent, PullNext, CheckNext, SelectNext, Release, InterruptSleep, Call, Goto
<1>6. /\ m \in {"user", "sleep", "kernel", "try", "save", "load", "resume", "return", "event", "loadAS", "drop",
                "next", "check", "select"}
      /\ m \in Chosen => sel'[p] # Null
      /\ m \in Loaded => current_ec[p] = sel'[p]
      /\ \A x \in Places : x # p => sel'[x] = sel[x]
  <2>0. mode'[p] = m
    BY Zenon, <1>5, LoopTypes
  <2>1. CASE TryCurrent(p)
    BY Zenon, <1>5, <2>0, <2>1, LoopTypes DEF TryCurrent, Goto, Chosen, Loaded
  <2>2. CASE LoadAS(p)
    <3>1. mode[p] \in Chosen /\ mode[p] \in Loaded /\ UNCHANGED sel /\ m \in {"user", "drop"}
      BY Zenon, <2>0, <2>2, LoopTypes DEF LoadAS, At, Goto, Chosen, Loaded
    <3> QED
      BY Zenon, <1>3, <3>1
  <2>3. CASE DropCurrent(p) \/ Release(p) \/ InterruptSleep(p) \/ Call(p)
    <3>1. UNCHANGED sel /\ m \in {"next", "try", "kernel"}
      BY Zenon, <2>0, <2>3, LoopTypes DEF DropCurrent, Release, InterruptSleep, Call, Goto
    <3> QED
      BY Zenon, <3>1 DEF Chosen, Loaded
  <2>4. CASE PullNext(p)
    <3>1. /\ m = IF readyQueue[p].head = Null THEN "sleep" ELSE "check"
          /\ sel'[p] = readyQueue[p].head /\ \A x \in Places : x # p => sel'[x] = sel[x]
      BY Zenon, <2>0, <2>4, LoopTypes DEF PullNext, Goto, IsEmpty
    <3> QED
      BY Zenon, <3>1 DEF Chosen, Loaded
  <2>5. CASE CheckNext(p) \/ SelectNext(p)
    <3>1. UNCHANGED sel /\ m \in {"select", "next", "try"} /\ mode[p] \in Chosen
      BY Zenon, <2>0, <2>5, LoopTypes DEF CheckNext, SelectNext, Goto, At, Chosen
    <3> QED
      BY Zenon, <1>3, <3>1 DEF Loaded
  <2> QED
    BY Zenon, <2>1, <2>2, <2>3, <2>4, <2>5
<1>7. SelInv'
  <2>1. \A x \in Places : mode'[x] = IF x = p THEN m ELSE mode[x]
    BY Zenon, <1>5, LoopTypes
  <2> QED
    BY Zenon, <1>1, <1>3, <1>6, <2>1 DEF SelInv
<1>8. DataTypes'
  <2>1. \A x \in Places : mode'[x] = "user" => current_ec'[x] # Null
    <3>1. \A x \in Places : mode'[x] = IF x = p THEN m ELSE mode[x]
      BY Zenon, <1>5, LoopTypes
    <3>2. m = "user" => current_ec[p] # Null
      BY Zenon, <1>6 DEF Chosen, Loaded
    <3> QED
      BY Zenon, <1>1, <3>1, <3>2, LoopTypes
  <2>2. mode' \in [Places -> {"user", "sleep", "kernel", "try", "save", "load", "resume", "return", "event",
                              "loadAS", "drop", "next", "check", "select"}]
    BY Zenon, <1>5, <1>6, LoopTypes
  <2> QED
    BY Zenon, <1>1, <1>4, <2>1, <2>2 DEF IInv, Types, DataTypes, TypeOK
<1>9. /\ \A e \in ECs : flags'[e] \cap {"IS_WAITING", "IS_NOTIFIED"} \subseteq flags[e]
      /\ \A e \in ECs : eventQueue'[e] <= eventQueue[e]
  BY Zenon, <1>1, LoopTypes
<1> QED
  BY Zenon, <1>1, <1>2, <1>5, <1>7, <1>8, <1>9, ModeStep

\* The steps of tryRunUser() that change the execution context.
LEMMA Resume_IInv ==
    ASSUME IInv, NEW p \in Places, SaveLoaded(p) \/ LoadState(p) \/ Resume(p) \/ ReturnWait(p) \/ ReturnEvent(p)
    PROVE  IInv'
<1>1. UNCHANGED <<as, sched, refs, busy, readyQueue, current_handle, sel, prog, tasks, syncs, scenario>>
  BY Zenon DEF SaveLoaded, LoadState, Resume, ReturnWait, ReturnEvent, butFlags, scVars, queues, ghost
<1>2. prog[p] = <<>>
  BY Zenon, LoopTypes DEF SaveLoaded, LoadState, Resume, ReturnWait, ReturnEvent, At
<1>3. /\ \A x \in Places : mode[x] \in Chosen => sel[x] # Null
      /\ \A x \in Places : mode[x] \in Loaded => current_ec[x] = sel[x]
  BY Zenon DEF IInv, SelInv
<1>4. mode[p] \in Chosen /\ sel[p] \in ECs
  <2>1. mode[p] \in Chosen
    BY Zenon DEF SaveLoaded, LoadState, Resume, ReturnWait, ReturnEvent, At, Chosen
  <2> QED
    BY Zenon, <1>3, <2>1, LoopTypes
<1>5. /\ flags' \in [ECs -> SUBSET Flags]
      /\ \A e \in ECs : flags'[e] \cap {"IS_WAITING", "IS_NOTIFIED"} \subseteq flags[e]
  <2>1. CASE SaveLoaded(p)
    <3>1. flags' = [flags EXCEPT ![current_ec[p]] = @ \cup {"NOT_LOADED"}]
      BY Zenon, <2>1 DEF SaveLoaded, SaveState
    <3> QED
      BY Zenon, <3>1, LoopTypes DEF Flags
  <2>2. CASE LoadState(p) \/ Resume(p) \/ ReturnWait(p) \/ ReturnEvent(p)
    <3>1. PICK f : flags' = flags \/ flags' = [flags EXCEPT ![sel[p]] = @ \ f]
      BY Zenon, <2>2 DEF LoadState, Resume, ReturnWait, ReturnEvent
    <3>2. \A e \in ECs : flags[e] \in SUBSET Flags
      BY Zenon, LoopTypes
    <3>3. flags' \in [ECs -> SUBSET Flags]
      BY <3>1, <3>2, LoopTypes
    <3>4. \A e \in ECs : flags'[e] \subseteq flags[e]
      BY Zenon, <3>1, LoopTypes
    <3> QED
      BY Zenon, <3>3, <3>4
  <2> QED
    BY Zenon, <2>1, <2>2
<1>6. eventQueue' \in [ECs -> Nat] /\ \A e \in ECs : eventQueue'[e] <= eventQueue[e]
  <2>1. CASE ReturnEvent(p)
    <3>1. eventQueue' = [eventQueue EXCEPT ![sel[p]] = IF @ = 0 THEN 0 ELSE @ - 1]
      BY Zenon, <2>1 DEF ReturnEvent
    <3>2. \A e \in ECs : eventQueue[e] \in Nat
      BY Zenon, LoopTypes
    <3>3. \A e \in ECs : (IF eventQueue[e] = 0 THEN 0 ELSE eventQueue[e] - 1) \in 0 .. eventQueue[e]
      BY <3>2
    <3> QED
      BY <1>4, <3>1, <3>2, <3>3, LoopTypes
  <2>2. CASE UNCHANGED eventQueue
    BY Zenon, <2>2, LoopTypes
  <2> QED
    BY Zenon, <2>1, <2>2 DEF SaveLoaded, LoadState, Resume, ReturnWait, butFlags
<1>7. /\ currentPlace' \in [ECs -> Places \cup {Null}] /\ current_ec' \in [Places -> ECs \cup {Null}]
      /\ \A x \in Places : x # p => current_ec'[x] = current_ec[x]
  <2>1. CASE SaveLoaded(p)
    <3>1. /\ currentPlace' = [currentPlace EXCEPT ![current_ec[p]] = Null]
          /\ current_ec' = [current_ec EXCEPT ![p] = Null]
      BY Zenon, <2>1 DEF SaveLoaded, SaveState
    <3> QED
      BY Zenon, <3>1, LoopTypes
  <2>2. CASE LoadState(p)
    <3>1. /\ currentPlace' = [currentPlace EXCEPT ![sel[p]] = p]
          /\ current_ec' = [current_ec EXCEPT ![p] = sel[p]]
      BY Zenon, <2>2 DEF LoadState
    <3> QED
      BY Zenon, <1>4, <3>1, LoopTypes
  <2>3. CASE UNCHANGED <<currentPlace, current_ec>>
    BY Zenon, <2>3, LoopTypes
  <2> QED
    BY Zenon, <2>1, <2>2, <2>3 DEF Resume, ReturnWait, ReturnEvent, butFlags
<1>8. PICK m \in {"load", "resume", "drop", "return", "event", "loadAS"} :
          mode' = [mode EXCEPT ![p] = m] /\ (m \in Loaded => current_ec'[p] = sel[p])
  <2>1. CASE SaveLoaded(p)
    BY Zenon, <2>1 DEF SaveLoaded, Goto, Loaded
  <2>2. CASE LoadState(p)
    BY Zenon, <2>2, LoopTypes DEF LoadState, Goto
  <2>3. CASE Resume(p) \/ ReturnWait(p) \/ ReturnEvent(p)
    <3>1. mode[p] \in Loaded /\ UNCHANGED current_ec
      BY Zenon, <2>3 DEF Resume, ReturnWait, ReturnEvent, At, Loaded
    <3>2. \E m \in {"load", "resume", "drop", "return", "event", "loadAS"} : mode' = [mode EXCEPT ![p] = m]
      BY Zenon, <2>3 DEF Resume, ReturnWait, ReturnEvent, Goto
    <3> QED
      BY Zenon, <1>3, <3>1, <3>2
  <2> QED
    BY Zenon, <2>1, <2>2, <2>3
<1>9. \A x \in Places : mode'[x] = IF x = p THEN m ELSE mode[x]
  BY Zenon, <1>8, LoopTypes
<1>10. SelInv'
  BY Zenon, <1>1, <1>3, <1>4, <1>7, <1>8, <1>9 DEF SelInv
<1>11. DataTypes'
  <2>1. \A x \in Places : mode'[x] = "user" => current_ec'[x] # Null
    BY Zenon, <1>7, <1>8, <1>9, LoopTypes
  <2>2. mode' \in [Places -> {"user", "sleep", "kernel", "try", "save", "load", "resume", "return", "event",
                              "loadAS", "drop", "next", "check", "select"}]
    BY Zenon, <1>8, LoopTypes
  <2> QED
    BY Zenon, <1>1, <1>5, <1>6, <1>7, <2>1, <2>2 DEF IInv, Types, DataTypes, TypeOK
<1> QED
  BY Zenon, <1>1, <1>2, <1>5, <1>6, <1>8, <1>10, <1>11, ModeStep

\* A system call, trap or interrupt.
LEMMA Enter_IInv ==
    ASSUME IInv, NEW p \in Places, Syscall(p) \/ Trap(p) \/ InterruptUser(p)
    PROVE  IInv'
<1>1. mode[p] = "user" /\ prog[p] = <<>> /\ current_ec[p] \in ECs
  BY Zenon, LoopTypes DEF Syscall, Trap, InterruptUser, At
<1>2. PICK f \in {{}, {"IN_WAIT"}, {"IS_TRAPPED"}}, q \in {<<>>, Do("wait", current_ec[p])} : Enter(p, f, q)
  BY Zenon DEF Syscall, Trap, InterruptUser
<1>3. q \in Seq(Quiet)
  <2>1. "wait" \in Verbs \ {"pushEvent"} /\ <<>> \in Seq(Simple) /\ {} \in SUBSET Flags
    BY DEF Verbs
  <2>2. Do("wait", current_ec[p]) \in Seq(Quiet)
    BY Zenon, <1>1, <2>1, IQuiet DEF Do
  <2> QED
    BY Zenon, <2>2, SeqQuiet
<1>4. q \in Seq(Instr) /\ Good(q)
  BY Zenon, <1>3, QuietGood
<1>5. /\ mode' = [mode EXCEPT ![p] = "kernel"]
      /\ flags' = [flags EXCEPT ![current_ec[p]] = @ \cup {"NOT_RUNNING"} \cup f]
      /\ prog' = [prog EXCEPT ![p] = q]
      /\ UNCHANGED <<currentPlace, eventQueue, as, sched, refs, busy, readyQueue, current_handle, current_ec, sel,
                     tasks, syncs, scenario>>
  BY Zenon, <1>2 DEF Enter, Goto, butFlags, scVars, ghost
<1>6. \A x \in Places : mode'[x] = IF x = p THEN "kernel" ELSE mode[x]
  BY Zenon, <1>5, LoopTypes
<1>7. /\ flags' \in [ECs -> SUBSET Flags]
      /\ \A e \in ECs : flags'[e] \cap {"IS_WAITING", "IS_NOTIFIED"} \subseteq flags[e]
  <2>1. \A e \in ECs : flags[e] \in SUBSET Flags
    BY Zenon, LoopTypes
  <2>2. {"NOT_RUNNING"} \cup f \subseteq Flags \ {"IS_WAITING", "IS_NOTIFIED"}
    BY Zenon DEF Flags, BLOCK_MASK
  <2>3. flags' \in [ECs -> SUBSET Flags]
    BY Zenon, <1>5, <2>1, <2>2, LoopTypes
  <2>4. \A e \in ECs : flags'[e] \cap {"IS_WAITING", "IS_NOTIFIED"} \subseteq flags[e]
    BY Zenon, <1>5, <2>2, LoopTypes
  <2> QED
    BY Zenon, <2>3, <2>4
<1>8. DataTypes'
  <2>1. \A x \in Places : mode'[x] = "user" => current_ec'[x] # Null
    BY Zenon, <1>5, <1>6, LoopTypes
  <2>2. mode' \in [Places -> {"user", "sleep", "kernel", "try", "save", "load", "resume", "return", "event",
                              "loadAS", "drop", "next", "check", "select"}]
    BY Zenon, <1>5, LoopTypes
  <2> QED
    BY Zenon, <1>5, <1>7, <2>1, <2>2 DEF IInv, Types, DataTypes, TypeOK
<1>9. prog \in [Places -> Seq(Instr)]
  BY Zenon DEF IInv, Types
<1>10. Types'
  <2>1. prog' \in [Places -> Seq(Instr)]
    BY Zenon, <1>4, <1>5, <1>9
  <2> QED
    BY Zenon, <1>5, <1>8, <2>1 DEF IInv, Types
<1>11. \A x \in Places : prog'[x] = IF x = p THEN q ELSE prog[x]
  BY Zenon, <1>5, <1>9
<1>12. ProgInv'
  BY Zenon, <1>4, <1>6, <1>11 DEF IInv, ProgInv
<1>13. SelInv'
  <2>1. "kernel" \notin Chosen /\ "kernel" \notin Loaded
    BY Zenon DEF Chosen, Loaded
  <2> QED
    BY Zenon, <1>5, <1>6, <2>1 DEF IInv, SelInv
<1>14. ASSUME NEW c, Pending(c) PROVE Pending(c)'
  <2>1. PICK x \in Places : \/ \E i \in DOMAIN prog[x] : prog[x][i] = c
                           \/ \E r \in tasks[x] \cup syncs[x] : \E i \in DOMAIN r : r[i] = c
    BY Zenon, <1>14 DEF Pending
  <2>2. CASE \E i \in DOMAIN prog[x] : prog[x][i] = c
    <3>1. x # p
      BY <1>1, <2>2
    <3> QED
      BY Zenon, <1>11, <2>2, <3>1 DEF Pending
  <2>3. CASE \E r \in tasks[x] \cup syncs[x] : \E i \in DOMAIN r : r[i] = c
    BY Zenon, <1>5, <2>3 DEF Pending
  <2> QED
    BY Zenon, <2>1, <2>2, <2>3
<1> QED
  BY Zenon, <1>5, <1>7, <1>10, <1>12, <1>13, <1>14, LoopTypes, KeepStep

-----------------------------------------------------------------------------
(* The theorems *)

\* At first nothing is announced and no context waits.
LEMMA Init_IInv == Init => IInv
<1> SUFFICES ASSUME Init PROVE IInv
  BY Zenon
<1>1. DataTypes
  <2>1. EmptyList \in Lists
    BY Zenon DEF EmptyList, Lists
  <2>2. {"IS_TRAPPED", "DONT_PREEMPT", "NOT_LOADED", "NOT_RUNNING"} \subseteq Flags
    BY Zenon DEF Flags, BLOCK_MASK
  <2> QED
    BY Zenon, <2>1, <2>2, SchedulingAssumption DEF Init, DataTypes, TypeOK
<1>2. prog \in [Places -> Seq(Instr)] /\ tasks \in [Places -> SUBSET Seq(Quiet)]
      /\ syncs \in [Places -> SUBSET Seq(Quiet)]
  <2>1. <<>> \in Seq(Instr)
    OBVIOUS
  <2> QED
    BY Zenon, <2>1 DEF Init
<1>3. ProgInv
  BY DEF Init, ProgInv, Good
<1>4. SelInv
  BY Zenon DEF Init, SelInv, Chosen, Loaded
<1>5. NotifiedInv /\ EventInv
  BY Zenon DEF Init, NotifiedInv, EventInv
<1> QED
  BY Zenon, <1>1, <1>2, <1>3, <1>4, <1>5 DEF IInv, Types

\* A step that changes nothing preserves the inductive invariant.
LEMMA Stutter_IInv == IInv /\ UNCHANGED vars => IInv'
<1> SUFFICES ASSUME IInv, UNCHANGED vars PROVE IInv'
  BY Zenon
<1>1. UNCHANGED <<flags, currentPlace, eventQueue, as, sched, refs, busy, readyQueue, current_handle, current_ec,
                  mode, sel, prog, tasks, syncs, scenario>>
  BY Zenon DEF vars, ecVars, scVars, hwVars
<1>2. DataTypes' /\ Types' /\ ProgInv' /\ SelInv'
  BY Zenon, <1>1 DEF IInv, Types, DataTypes, TypeOK, ProgInv, SelInv
<1>3. \A c \in Instr : Pending(c) => Pending(c)'
  BY Zenon, <1>1 DEF Pending
<1> QED
  BY Zenon, <1>1, <1>2, <1>3, LoopTypes, KeepStep

\* Every step keeps the invariant.
LEMMA Step_IInv == IInv /\ [Next]_vars => IInv'
<1> SUFFICES ASSUME IInv, [Next]_vars PROVE IInv'
  BY Zenon
<1>1. CASE Next
  <2>1. PICK p \in Places :
            \/ KernelStep(p) \/ Syscall(p) \/ Trap(p) \/ Call(p)
            \/ \E op \in scenario.ops, e \in scenario.ecs : p \in scenario.callers /\ Invoke(p, op, e)
    BY Zenon, <1>1 DEF Next
  <2>2. CASE KernelStep(p) \/ Syscall(p) \/ Trap(p) \/ Call(p)
    BY Zenon, <2>2, Instruction_IInv, RunSync_IInv, RunTask_IInv, Choose_IInv, Resume_IInv, Enter_IInv
       DEF KernelStep, TryRunUser
  <2>3. CASE \E op \in scenario.ops, e \in scenario.ecs : Invoke(p, op, e)
    BY Zenon, <2>3, Invoke_IInv
  <2> QED
    BY Zenon, <2>1, <2>2, <2>3
<1>2. CASE UNCHANGED vars
  BY Zenon, <1>2, Stutter_IInv
<1> QED
  BY Zenon, <1>1, <1>2

\* An instruction that is pending in some place is ahead of its context.
LEMMA IInvImplies == IInv => NoLostEvent
<1> SUFFICES ASSUME IInv PROVE NoLostEvent
  BY Zenon
<1>1. ASSUME NEW c \in Instr, Pending(c), Wakes(c) \/ c.do = "checkEvents"
      PROVE  Ahead(c.ec, {"clear", "checkEvents", "unset"})
  <2>1. c.do \in {"clear", "checkEvents", "unset"}
    BY Zenon, <1>1 DEF Wakes
  <2> QED
    BY Zenon, <1>1, <2>1 DEF Pending, Ahead
<1> QED
  BY Zenon, <1>1 DEF IInv, NotifiedInv, EventInv, NoLostEvent

\* No event is lost: a context waits while a notification or an event is
\* pending only until a pending instruction of the notifier (attachKEvent(),
\* signal) or of wait() clears IS_WAITING.
THEOREM SchedulingNoLostEvent == Spec => []NoLostEvent
<1>1. IInv => NoLostEvent
  BY Zenon, IInvImplies
<1> QED
  BY <1>1, Init_IInv, Step_IInv, PTL DEF Spec

\* Whatever the callers do, the programs of the places are made of known instructions on known
\* contexts, what is sent to another place announces no event, only wait() makes a context wait, and
\* a notifier ends the waiting after its announcement; a place outside the kernel has no program
\* left; and the context that tryRunUser() chose is the one that is loaded.  (Of the ready lists
\* only the type of their links is stated: with two callers they do not stay lists.)
THEOREM SchedulingPrograms == Spec => [](Types /\ ProgInv /\ SelInv)
<1>1. IInv => Types /\ ProgInv /\ SelInv
  BY Zenon DEF IInv
<1> QED
  BY <1>1, Init_IInv, Step_IInv, PTL DEF Spec
=============================================================================
