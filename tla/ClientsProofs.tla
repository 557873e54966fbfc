---------------------------- MODULE ClientsProofs ----------------------------
(***************************************************************************)
(* Theorems about Clients, for every number of clients, every id range,    *)
(* every buffer size and every list of words.                              *)
(***************************************************************************)
EXTENDS Clients, FiniteSetTheorems, SequenceTheorems, NaturalsInduction,
        WellFoundedInduction, TLAPS

-----------------------------------------------------------------------------
(* Recursive functions on 0..N.                                            *)

(* A set of numbers has a least element.                                   *)
LEMMA LeastIn ==
    ASSUME NEW S, S \subseteq Nat, S # {}
    PROVE  \E t \in S : \A u \in S : t <= u
<1>1. PICK R : R = {p \in Nat \X Nat : p[1] < p[2]}
  OBVIOUS
<1>2. IsWellFoundedOn(R, Nat)
  BY <1>1, NatLessThanWellFounded DEF OpToRel
<1>3. PICK t \in S : \A u \in S : ~(<<u, t>> \in R)
  BY <1>2, WFMin, Zenon
<1>4. \A u \in S : u \in Nat /\ t \in Nat /\ ~(u < t)
  BY <1>1, <1>3
<1>5. \A u \in S : t <= u
  BY <1>4
<1> QED BY <1>5

(* What each step keeps holds at the end.                                  *)
LEMMA RecursionKeeps ==
    ASSUME NEW N \in Nat, NEW f, NEW S, f[0] \in S[0],
           \A j \in 1..N : f[j - 1] \in S[j - 1] => f[j] \in S[j]
    PROVE  \A j \in 0..N : f[j] \in S[j]
<1> DEFINE bad == {j \in 0..N : f[j] \notin S[j]}
<1>1. SUFFICES ASSUME bad # {} PROVE FALSE
  OBVIOUS
<1>2. PICK t \in bad : \A u \in bad : t <= u
  <2>1. bad \subseteq Nat
    OBVIOUS
  <2> HIDE DEF bad
  <2> QED BY <1>1, <2>1, LeastIn
<1>3. t \in 1..N /\ t - 1 \in 0..N /\ ~(t <= t - 1)
  BY <1>2
<1>4. t - 1 \notin bad
  BY <1>2, <1>3
<1> QED BY <1>2, <1>3, <1>4

(* A recursive function exists when its steps stay in a set.               *)
Runs(N, U, a, step) ==
    \E g \in [0..N -> U] : g[0] = a /\ \A j \in 1..N : g[j] = step[<<j, g[j - 1]>>]
LEMMA RecursionExists ==
    ASSUME NEW N \in Nat, NEW U, NEW a \in U, NEW step \in [(1..N) \X U -> U]
    PROVE  Runs(N, U, a, step)
<1> DEFINE To(k) == \E g \in [0..k -> U] :
                      g[0] = a /\ \A j \in 1..k : g[j] = step[<<j, g[j - 1]>>]
           bad == {k \in 0..N : ~To(k)}
<1>1. SUFFICES ASSUME bad # {} PROVE FALSE
  BY DEF Runs
<1>2. PICK t \in bad : \A u \in bad : t <= u
  <2>1. bad \subseteq Nat
    OBVIOUS
  <2> HIDE DEF bad
  <2> QED BY <1>1, <2>1, LeastIn
<1>3. To(0)
  <2>1. PICK g \in [0..0 -> U] : g[0] = a
    <3>1. [j \in 0..0 |-> a] \in [0..0 -> U] /\ [j \in 0..0 |-> a][0] = a
      OBVIOUS
    <3> QED BY <3>1
  <2>2. 1..0 = {}
    OBVIOUS
  <2> QED BY <2>1, <2>2
<1>4. t \in 1..N /\ t - 1 \in 0..N /\ ~(t <= t - 1)
  <2>1. t \in 0..N /\ ~To(t)
    BY <1>2
  <2>2. t # 0
    BY <1>3, <2>1
  <2> QED BY <2>1, <2>2
<1>5. To(t - 1)
  BY <1>2, <1>4
<1>6. PICK g \in [0..(t - 1) -> U] :
         g[0] = a /\ \A j \in 1..(t - 1) : g[j] = step[<<j, g[j - 1]>>]
  BY <1>5
<1>7. PICK f : f = [j \in 0..t |-> IF j = t THEN step[<<t, g[t - 1]>>] ELSE g[j]]
  OBVIOUS
<1>8. g[t - 1] \in U /\ step[<<t, g[t - 1]>>] \in U
  BY <1>4, <1>6
<1>9. f \in [0..t -> U] /\ f[0] = a
  BY <1>4, <1>6, <1>7, <1>8
<1>10. ASSUME NEW j \in 1..t PROVE f[j] = step[<<j, f[j - 1]>>]
  <2>1. j \in 0..t /\ j - 1 \in 0..t /\ j - 1 # t
    BY <1>4
  <2>2. f[j - 1] = g[j - 1]
    BY <1>7, <2>1
  <2>3. CASE j = t
    BY <1>7, <2>1, <2>2, <2>3
  <2>4. CASE j # t
    <3>1. j \in 1..(t - 1) /\ f[j] = g[j]
      BY <1>4, <1>7, <2>1, <2>4
    <3> QED BY <1>6, <2>2, <3>1
  <2> QED BY <2>3, <2>4
<1>11. To(t)
  BY <1>9, <1>10
<1> QED BY <1>2, <1>11

-----------------------------------------------------------------------------
(* What holds of a connection, in the middle of a command, too.            *)

Reader(e) == e.type \in {"READ_COMMAND", "NOTIFY"}
Monitors(e) == e.type \in {"WAIT_MONITOR", "WRITE_MONITOR"}

(* An own entry's wait is a wait for its done; only NOTIFY waits.          *)
EventOK(e, mon) ==
    /\ e.own => e.type = "NOTIFY" /\ "done" \in e.wait /\ e.id \in Ids
    /\ e.wait # {} => e.type = "NOTIFY"
    /\ Monitors(e) => mon

(* One event at most reads or waits to be notified, and that of a client   *)
(* without notification is alone: only so does no text hide it from done.  *)
(* A monitor client has an event for its buffers, or is about to go, and   *)
(* is not read any more: it is not counted twice.                          *)
Buffers(e) == Monitors(e) \/ e.type = "WRITE_TIMEOUT"
Good(c) ==
    /\ c.open \/ c = NoConn
    /\ \A a \in 1..Len(c.q) : EventOK(c.q[a], c.monitor)
    /\ \A a, b \in 1..Len(c.q) : Reader(c.q[a]) /\ Reader(c.q[b]) => a = b
    /\ c.mask = {} => \A a \in 1..Len(c.q) : Reader(c.q[a]) => Len(c.q) = 1
    /\ c.monitor => \A a \in 1..Len(c.q) : ~Reader(c.q[a])
    /\ c.monitor => \E a \in 1..Len(c.q) : Buffers(c.q[a])

(* An event that neither reads nor waits.                                  *)
Plain(e) == e \in EVENT /\ ~Reader(e) /\ ~Monitors(e) /\ e.own = FALSE /\ e.wait = {}

(* Connections that are the same but for the queue and the history.        *)
Same(c, d) == /\ d \in CONNECTION /\ d.open = c.open /\ d.mask = c.mask
              /\ d.id = c.id /\ d.monitor = c.monitor /\ d.blank = c.blank

(* What texts may do to a connection: d is c later.                        *)
Heard(c, d) ==
    /\ Same(c, d) /\ Good(d)
    /\ c.answered => d.answered
    /\ d.q = <<>> => c.q = <<>>
    /\ \A b \in 1..Len(d.q) : Reader(d.q[b]) => \E a \in 1..Len(c.q) : c.q[a] = d.q[b]
    /\ c.mask = {} =>
          /\ Len(d.q) = Len(c.q)
          /\ \A a \in 1..Len(c.q) : c.q[a].type = "NOTIFY" =>
                d.answered \/ \E b \in 1..Len(d.q) : d.q[b] = c.q[a]

(* Nobody without notification waits for entry i as for its own.           *)
NoOwn(c, i) == c.mask = {} => \A a \in 1..Len(c.q) : c.q[a].own => c.q[a].id # i

(* The constructors of events.                                             *)
LEMMA EventTyped ==
    /\ \A t \in EventTypes :
          /\ Event(t) \in EVENT /\ Event(t).type = t /\ Event(t).own = FALSE
          /\ Event(t).wait = {} /\ Event(t).id = 0
    /\ \A text : Plain(Write(text)) /\ Write(text).type = "WRITE"
    /\ \A kinds \in SUBSET Kinds, i \in Nat, own \in BOOLEAN :
          /\ WaitFor(kinds, i, own) \in EVENT
          /\ WaitFor(kinds, i, own).type = "NOTIFY" /\ WaitFor(kinds, i, own).own = own
          /\ WaitFor(kinds, i, own).wait = kinds /\ WaitFor(kinds, i, own).id = i
<1>1. \A t \in EventTypes :
          /\ Event(t) \in EVENT /\ Event(t).type = t /\ Event(t).own = FALSE
          /\ Event(t).wait = {} /\ Event(t).id = 0
  BY IdAssumption DEF Event, EVENT
<1>2. ASSUME NEW text PROVE Plain(Write(text)) /\ Write(text).type = "WRITE"
  <2>1. PICK e : e = Write(text)
    OBVIOUS
  <2>2. PICK t : t = {text} \cap Texts
    OBVIOUS
  <2>3. t \in SUBSET Texts
    BY <2>2
  <2>4. e = [type |-> "WRITE", id |-> 0, wait |-> {}, own |-> FALSE, n |-> 1,
             has |-> t, keep |-> NotKept, more |-> FALSE]
    BY <2>1, <2>2 DEF Write, Event
  <2>5. e \in EVENT /\ e.type = "WRITE" /\ e.own = FALSE /\ e.wait = {}
    BY <2>3, <2>4, IdAssumption DEF EVENT, EventTypes
  <2> QED BY <2>1, <2>5 DEF Plain, Reader, Monitors
<1>3. ASSUME NEW kinds \in SUBSET Kinds, NEW i \in Nat, NEW own \in BOOLEAN
      PROVE  /\ WaitFor(kinds, i, own) \in EVENT
             /\ WaitFor(kinds, i, own).type = "NOTIFY" /\ WaitFor(kinds, i, own).own = own
             /\ WaitFor(kinds, i, own).wait = kinds /\ WaitFor(kinds, i, own).id = i
  BY IdAssumption DEF WaitFor, Event, EVENT, EventTypes
<1> QED BY <1>1, <1>2, <1>3

(* A plain event is in order in every queue.                               *)
LEMMA PlainOK ==
    ASSUME NEW e, Plain(e), NEW mon
    PROVE  EventOK(e, mon)
BY DEF Plain, EventOK

(* Hearing is hearing more and more.                                       *)
LEMMA HeardTrans ==
    ASSUME NEW c \in CONNECTION, NEW d, NEW e, Heard(c, d), Heard(d, e)
    PROVE  Heard(c, e)
BY DEF Heard, Same

(* What is in order may stay as it is.                                     *)
LEMMA HeardSame ==
    ASSUME NEW c \in CONNECTION, Good(c)
    PROVE  Heard(c, c)
BY DEF Heard, Same

(* Nobody begins to wait by hearing.                                       *)
LEMMA NoOwnStays ==
    ASSUME NEW c \in CONNECTION, NEW d, NEW i, Heard(c, d), NoOwn(c, i)
    PROVE  NoOwn(d, i)
<1>1. SUFFICES ASSUME d.mask = {}, NEW b \in 1..Len(d.q), d.q[b].own
               PROVE  d.q[b].id # i
  BY DEF NoOwn
<1>2. c.mask = {} /\ EventOK(d.q[b], d.monitor)
  BY <1>1 DEF Heard, Same, Good
<1>3. Reader(d.q[b])
  BY <1>1, <1>2 DEF EventOK, Reader
<1>4. PICK a \in 1..Len(c.q) : c.q[a] = d.q[b]
  BY <1>3 DEF Heard
<1> QED BY <1>1, <1>2, <1>4 DEF NoOwn

(* InsertAt makes room for one element.                                    *)
LEMMA Inserted ==
    ASSUME NEW S, NEW q \in Seq(S), NEW k \in 1..(Len(q) + 1), NEW w \in S
    PROVE  /\ InsertAt(q, k, w) \in Seq(S) /\ Len(InsertAt(q, k, w)) = Len(q) + 1
           /\ \A j \in 1..(Len(q) + 1) : InsertAt(q, k, w)[j] =
                 IF j < k THEN q[j] ELSE IF j = k THEN w ELSE q[j - 1]
<1>1. Len(q) \in Nat /\ q \in [1..Len(q) -> S]
  BY LenProperties
<1>2. PICK a : a = SubSeq(q, 1, k - 1)
  OBVIOUS
<1>3. PICK z : z = SubSeq(q, k, Len(q))
  OBVIOUS
<1>4. a \in Seq(S) /\ Len(a) = k - 1 /\ \A i \in 1..(k - 1) : a[i] = q[i]
  BY <1>1, <1>2, SubSeqProperties
<1>5. z \in Seq(S) /\ Len(z) = Len(q) - k + 1 /\ \A i \in 1..(Len(q) - k + 1) : z[i] = q[k + i - 1]
  BY <1>1, <1>3, SubSeqProperties
<1>6. PICK v : v = <<w>>
  OBVIOUS
<1>7. v \in Seq(S) /\ Len(v) = 1 /\ v[1] = w
  BY <1>6
<1>8. PICK b : b = a \o v
  OBVIOUS
<1>9. /\ b \in Seq(S) /\ Len(b) = k
      /\ \A i \in 1..k : b[i] = IF i < k THEN q[i] ELSE w
  <2>1. /\ b \in Seq(S) /\ Len(b) = Len(a) + Len(v)
        /\ \A i \in 1..(Len(a) + Len(v)) : b[i] = IF i <= Len(a) THEN a[i] ELSE v[i - Len(a)]
    BY <1>4, <1>7, <1>8, ConcatProperties
  <2>2. Len(a) + Len(v) = k
    BY <1>4, <1>7
  <2>3. ASSUME NEW i \in 1..k PROVE b[i] = IF i < k THEN q[i] ELSE w
    <3>1. b[i] = IF i <= k - 1 THEN a[i] ELSE v[i - (k - 1)]
      BY <1>4, <2>1, <2>2
    <3>2. i < k => i \in 1..(k - 1) /\ i <= k - 1
      OBVIOUS
    <3>3. ~(i < k) => i - (k - 1) = 1 /\ ~(i <= k - 1)
      OBVIOUS
    <3> QED BY <1>4, <1>7, <3>1, <3>2, <3>3
  <2> QED BY <2>1, <2>2, <2>3
<1>10. PICK r : r = b \o z
  OBVIOUS
<1>11. /\ r \in Seq(S) /\ Len(r) = Len(q) + 1
       /\ \A i \in 1..(Len(q) + 1) : r[i] = IF i <= k THEN b[i] ELSE z[i - k]
  <2>1. /\ r \in Seq(S) /\ Len(r) = Len(b) + Len(z)
        /\ \A i \in 1..(Len(b) + Len(z)) : r[i] = IF i <= Len(b) THEN b[i] ELSE z[i - Len(b)]
    BY <1>5, <1>9, <1>10, ConcatProperties
  <2>2. Len(b) + Len(z) = Len(q) + 1
    BY <1>1, <1>5, <1>9
  <2> QED BY <1>9, <2>1, <2>2
<1>12. ASSUME NEW j \in 1..(Len(q) + 1)
       PROVE  r[j] = IF j < k THEN q[j] ELSE IF j = k THEN w ELSE q[j - 1]
  <2>1. CASE j <= k
    BY <1>1, <1>9, <1>11, <2>1
  <2>2. CASE j > k
    <3>1. PICK i \in 1..(Len(q) - k + 1) : i = j - k
      BY <1>1, <2>2
    <3>2. z[i] = q[k + i - 1] /\ k + i - 1 = j - 1
      BY <1>1, <1>5, <3>1
    <3>3. r[j] = z[i]
      <4>1. r[j] = z[j - k]
        BY <1>1, <1>11, <2>2
      <4> QED BY <3>1, <4>1
    <3> QED BY <2>2, <3>2, <3>3
  <2> QED BY <1>1, <2>1, <2>2
<1>13. InsertAt(q, k, w) = r
  BY <1>2, <1>3, <1>6, <1>8, <1>10 DEF InsertAt
<1> QED BY <1>11, <1>12, <1>13

-----------------------------------------------------------------------------
(* connection_notify.                                                      *)

(* What connection_notify works on.                                        *)
Noted == [conn : [Hosts -> CONNECTION],
          prev : (-1..SPOOL_MAX_ID) \X (-1..SPOOL_MAX_ID),
          kept : [KeptBuffers -> 0..(BufferTexts - 1)]]

(* One text for a connection: it is queued, and a client without           *)
(* notification waits no more.                                             *)
Spoken(c, d) ==
    /\ Same(c, d) /\ Good(d) /\ d.answered = c.answered /\ d.q # <<>>
    /\ \A b \in 1..Len(d.q) : Reader(d.q[b]) => \E a \in 1..Len(c.q) : c.q[a] = d.q[b]
    /\ c.mask = {} => Len(d.q) = Len(c.q) /\ \A b \in 1..Len(d.q) : ~Reader(d.q[b])

(* A text is appended to the last buffer.                                  *)
LEMMA AppendedText ==
    ASSUME NEW c \in CONNECTION, Good(c), c.mask # {}, c.q # <<>>,
           NEW e, e = c.q[Len(c.q)], e.type = "WRITE",
           NEW f \in EVENT, f.type = e.type, f.own = e.own, f.wait = e.wait,
           NEW d, d = [c EXCEPT !.q = [c.q EXCEPT ![Len(c.q)] = f]],
           c.open
    PROVE  Spoken(c, d)
<1>1. c.q \in Seq(EVENT) /\ Len(c.q) \in Nat \ {0}
  BY EmptySeq DEF CONNECTION
<1>2. PICK r : r = [c.q EXCEPT ![Len(c.q)] = f]
  OBVIOUS
<1>3. /\ r \in Seq(EVENT) /\ Len(r) = Len(c.q)
      /\ \A j \in 1..Len(c.q) : r[j] = IF j = Len(c.q) THEN f ELSE c.q[j]
  BY <1>1, <1>2, ExceptSeq
<1>4. d = [c EXCEPT !.q = r]
  BY <1>2
<1>5. d \in CONNECTION /\ d.q = r
  BY <1>3, <1>4 DEF CONNECTION
<1>6. Same(c, d) /\ d.answered = c.answered /\ d.mask = c.mask
  BY <1>4, <1>5 DEF CONNECTION, Same
<1>7. EventOK(f, c.monitor) /\ ~Reader(f)
  <2>1. EventOK(e, c.monitor)
    BY <1>1 DEF Good
  <2> QED BY <2>1 DEF EventOK, Reader, Monitors
<1>8. \A b \in 1..Len(r) : Reader(r[b]) => b # Len(c.q) /\ r[b] = c.q[b]
  BY <1>3, <1>7
<1>9. Good(d)
  <2>1. \A b \in 1..Len(r) : EventOK(r[b], c.monitor)
    BY <1>3, <1>7 DEF Good
  <2>2. \A a, b \in 1..Len(r) : Reader(r[a]) /\ Reader(r[b]) => a = b
    BY <1>3, <1>8 DEF Good
  <2>3. c.monitor => \A b \in 1..Len(r) : ~Reader(r[b])
    BY <1>3, <1>8 DEF Good
  <2>4. ASSUME c.monitor PROVE \E b \in 1..Len(r) : Buffers(r[b])
    <3>1. PICK a \in 1..Len(c.q) : Buffers(c.q[a])
      BY <2>4 DEF Good
    <3>2. Buffers(r[a])
      BY <1>1, <1>3, <3>1 DEF Buffers, Monitors
    <3> QED BY <1>3, <3>2
  <2> QED BY <1>5, <1>6, <2>1, <2>2, <2>3, <2>4 DEF Good, Same
<1>10. d.q # <<>>
  BY <1>1, <1>3, <1>5, EmptySeq
<1> QED BY <1>3, <1>5, <1>6, <1>8, <1>9, <1>10 DEF Spoken

(* A text takes the place of a NOTIFY.                                     *)
LEMMA ReplacedText ==
    ASSUME NEW c \in CONNECTION, Good(c), c.q # <<>>, c.q[1].type = "NOTIFY",
           NEW w, Plain(w), NEW d, d = event_replace(c, w), c.open
    PROVE  Spoken(c, d)
<1>1. c.q \in Seq(EVENT) /\ Len(c.q) \in Nat \ {0}
  BY EmptySeq DEF CONNECTION
<1>2. PICK t : t = Tail(c.q)
  OBVIOUS
<1>3. t \in Seq(EVENT) /\ Len(t) = Len(c.q) - 1 /\ \A i \in 1..Len(t) : t[i] = c.q[i + 1]
  BY <1>1, <1>2, HeadTailProperties
<1>4. PICK v : v = <<w>>
  OBVIOUS
<1>5. v \in Seq(EVENT) /\ Len(v) = 1 /\ v[1] = w
  BY <1>4 DEF Plain
<1>6. PICK r : r = v \o t
  OBVIOUS
<1>7. /\ r \in Seq(EVENT) /\ Len(r) = Len(c.q)
      /\ \A j \in 1..Len(c.q) : r[j] = IF j = 1 THEN w ELSE c.q[j]
  <2>1. /\ r \in Seq(EVENT) /\ Len(r) = Len(v) + Len(t)
        /\ \A j \in 1..(Len(v) + Len(t)) : r[j] = IF j <= Len(v) THEN v[j] ELSE t[j - Len(v)]
    <3>1. v \in Seq(EVENT) /\ t \in Seq(EVENT)
      BY <1>3, <1>5
    <3> QED BY <3>1, <1>6, ConcatProperties
  <2>2. Len(v) + Len(t) = Len(c.q)
    BY <1>1, <1>3, <1>5
  <2>3. ASSUME NEW j \in 1..Len(c.q), j # 1 PROVE r[j] = c.q[j]
    <3>1. PICK i \in 1..Len(t) : i = j - 1
      BY <1>1, <1>3, <2>3
    <3>2. r[j] = t[j - 1]
      BY <1>5, <2>1, <2>2, <2>3
    <3>3. t[i] = c.q[i + 1] /\ i + 1 = j
      BY <1>3, <3>1
    <3> QED BY <3>1, <3>2, <3>3
  <2>4. r[1] = w
    BY <1>1, <1>5, <2>1, <2>2
  <2> QED BY <2>1, <2>2, <2>3, <2>4
<1>8. d = [c EXCEPT !.q = r]
  BY <1>2, <1>4, <1>6 DEF event_replace
<1>9. d \in CONNECTION /\ d.q = r
  BY <1>7, <1>8 DEF CONNECTION
<1>10. Same(c, d) /\ d.answered = c.answered /\ d.mask = c.mask
  BY <1>8, <1>9 DEF CONNECTION, Same
<1>11. EventOK(w, c.monitor) /\ ~Reader(w)
  BY PlainOK DEF Plain
<1>12. \A b \in 1..Len(r) : Reader(r[b]) => b # 1 /\ r[b] = c.q[b]
  BY <1>7, <1>11
<1>13. \A b \in 1..Len(r) : ~Reader(r[b])
  <2>1. Reader(c.q[1])
    BY DEF Reader
  <2> QED BY <1>1, <1>7, <1>12, <2>1 DEF Good
<1>14. Good(d)
  <2>1. \A b \in 1..Len(r) : EventOK(r[b], c.monitor)
    BY <1>7, <1>11 DEF Good
  <2>2. ~c.monitor
    <3>1. Reader(c.q[1]) /\ 1 \in 1..Len(c.q)
      BY <1>1 DEF Reader
    <3> QED BY <3>1 DEF Good
  <2> QED BY <1>9, <1>10, <1>13, <2>1, <2>2 DEF Good, Same
<1>15. d.q # <<>>
  BY <1>1, <1>7, <1>9, EmptySeq
<1> QED BY <1>7, <1>9, <1>10, <1>13, <1>14, <1>15 DEF Spoken

(* A text goes in front of what reads.                                     *)
LEMMA InsertedText ==
    ASSUME NEW c \in CONNECTION, Good(c), c.mask # {},
           NEW w, Plain(w), NEW d, d = event_insert_before(c, w), c.open
    PROVE  Spoken(c, d)
<1>1. c.q \in Seq(EVENT) /\ Len(c.q) \in Nat
  BY EmptySeq DEF CONNECTION
<1> DEFINE First(n) == /\ n <= Len(c.q) => Reads(c.q[n])
                       /\ \A m \in 1..(n - 1) : ~Reads(c.q[m])
           k == CHOOSE n \in 1..(Len(c.q) + 1) : First(n)
<1>2. k \in 1..(Len(c.q) + 1)
  <2>1. \E n \in 1..(Len(c.q) + 1) : First(n)
    <3> DEFINE S == {n \in 1..(Len(c.q) + 1) : n <= Len(c.q) => Reads(c.q[n])}
    <3>1. Len(c.q) + 1 \in S /\ S \subseteq Nat
      BY <1>1
    <3>2. PICK t \in S : \A u \in S : t <= u
      <4> HIDE DEF S
      <4> QED BY <3>1, LeastIn
    <3>3. \A m \in 1..(t - 1) : ~Reads(c.q[m])
      BY <1>1, <3>2
    <3> QED BY <3>2, <3>3
  <2> QED BY <2>1
<1> HIDE DEF k
<1>3. PICK r : r = InsertAt(c.q, k, w)
  OBVIOUS
<1>4. d = [c EXCEPT !.q = r]
  BY <1>3 DEF event_insert_before, k
<1>5. w \in EVENT
  BY DEF Plain
<1>6. /\ r \in Seq(EVENT) /\ Len(r) = Len(c.q) + 1
      /\ \A j \in 1..(Len(c.q) + 1) : r[j] =
            IF j < k THEN c.q[j] ELSE IF j = k THEN w ELSE c.q[j - 1]
  <2>1. PICK q \in Seq(EVENT) : q = c.q
    BY <1>1
  <2>2. k \in 1..(Len(q) + 1) /\ r = InsertAt(q, k, w)
    BY <1>2, <1>3, <2>1
  <2>3. /\ r \in Seq(EVENT) /\ Len(r) = Len(q) + 1
        /\ \A j \in 1..(Len(q) + 1) : r[j] =
              IF j < k THEN q[j] ELSE IF j = k THEN w ELSE q[j - 1]
    BY <1>5, <2>2, Inserted, SMTT(30)
  <2> QED BY <2>1, <2>3
<1>7. d \in CONNECTION /\ d.q = r
  BY <1>4, <1>6 DEF CONNECTION
<1>8. Same(c, d) /\ d.answered = c.answered /\ d.mask = c.mask
  BY <1>4, <1>7 DEF CONNECTION, Same
<1>9. EventOK(w, c.monitor) /\ ~Reader(w)
  BY PlainOK DEF Plain
<1>10. ASSUME NEW b \in 1..Len(r), b # k
       PROVE  \E a \in 1..Len(c.q) : a = (IF b < k THEN b ELSE b - 1) /\ r[b] = c.q[a]
  <2>1. CASE b < k
    BY <1>1, <1>2, <1>6, <1>10, <2>1
  <2>2. CASE b > k
    BY <1>1, <1>2, <1>6, <1>10, <2>2
  <2> QED BY <1>1, <1>2, <1>6, <1>10, <2>1, <2>2
<1>11. r[k] = w
  BY <1>1, <1>2, <1>6
<1>12. Good(d)
  <2>1. ASSUME NEW b \in 1..Len(r) PROVE EventOK(r[b], c.monitor)
    BY <1>9, <1>10, <1>11, <2>1 DEF Good
  <2>2. ASSUME NEW a \in 1..Len(r), NEW b \in 1..Len(r), Reader(r[a]), Reader(r[b])
        PROVE  a = b
    <3>1. a # k /\ b # k
      BY <1>9, <1>11, <2>2
    <3>2. PICK x \in 1..Len(c.q) : x = (IF a < k THEN a ELSE a - 1) /\ r[a] = c.q[x]
      BY <1>10, <3>1
    <3>3. PICK y \in 1..Len(c.q) : y = (IF b < k THEN b ELSE b - 1) /\ r[b] = c.q[y]
      BY <1>10, <3>1
    <3>4. x = y
      BY <2>2, <3>2, <3>3 DEF Good
    <3> QED BY <1>1, <1>2, <1>6, <3>1, <3>2, <3>3, <3>4
  <2>3. c.monitor => \A b \in 1..Len(r) : ~Reader(r[b])
    BY <1>9, <1>10, <1>11 DEF Good
  <2>4. ASSUME c.monitor PROVE \E b \in 1..Len(r) : Buffers(r[b])
    <3>1. PICK a \in 1..Len(c.q) : Buffers(c.q[a])
      BY <2>4 DEF Good
    <3>2. PICK b \in 1..Len(r) : b = IF a < k THEN a ELSE a + 1
      BY <1>1, <1>6
    <3>3. r[b] = c.q[a]
      BY <1>1, <1>2, <1>6, <3>2
    <3> QED BY <3>1, <3>3
  <2> QED BY <1>7, <1>8, <2>1, <2>2, <2>3, <2>4 DEF Good, Same
<1>13. d.q # <<>>
  BY <1>1, <1>6, <1>7, EmptySeq
<1>14. \A b \in 1..Len(r) : Reader(r[b]) => \E a \in 1..Len(c.q) : c.q[a] = r[b]
  BY <1>9, <1>10, <1>11
<1> QED BY <1>7, <1>8, <1>12, <1>13, <1>14 DEF Spoken

(* The head of a queue.                                                    *)
LEMMA HeadIs ==
    ASSUME NEW c \in CONNECTION
    PROVE  /\ c.q # <<>> => HeadOf(c) = c.q[1] /\ 1 \in 1..Len(c.q)
           /\ c.q = <<>> => HeadOf(c).wait = {} /\ HeadOf(c).type = "NONE"
           /\ c.q = <<>> => HeadOf(c).id = 0
<1>1. c.q \in Seq(EVENT)
  BY DEF CONNECTION
<1>2. ASSUME c.q # <<>> PROVE HeadOf(c) = c.q[1] /\ 1 \in 1..Len(c.q)
  <2>1. Len(c.q) \in Nat \ {0}
    BY <1>1, <1>2, EmptySeq
  <2> QED BY <1>2, <2>1 DEF HeadOf
<1>3. ASSUME c.q = <<>>
      PROVE  HeadOf(c).wait = {} /\ HeadOf(c).type = "NONE" /\ HeadOf(c).id = 0
  BY <1>3 DEF HeadOf, Event
<1> QED BY <1>2, <1>3

(* One text for h is queued at h and nowhere else.                         *)
Speaks(n, h, text) ==
    \E r, d : /\ r = AddText(n, h, text) /\ r \in Noted /\ r.prev = n.prev
              /\ r.conn = [n.conn EXCEPT ![h] = d] /\ Spoken(n.conn[h], d)
LEMMA AddTextSpeaks ==
    ASSUME NEW n \in Noted, NEW h \in Hosts, NEW text,
           Good(n.conn[h]), n.conn[h].open,
           n.conn[h].mask = {} => n.conn[h].q # <<>> /\ n.conn[h].q[1].type = "NOTIFY"
    PROVE  Speaks(n, h, text)
<1> SUFFICES ASSUME NEW c, c = n.conn[h], Good(c), c.open,
                      c.mask = {} => c.q # <<>> /\ c.q[1].type = "NOTIFY"
               PROVE  \E r, d : /\ r = AddText(n, h, text) /\ r \in Noted
                                /\ r.prev = n.prev
                                /\ r.conn = [n.conn EXCEPT ![h] = d] /\ Spoken(c, d)
  BY DEF Speaks
<1>1. c \in CONNECTION
  BY DEF Noted
<1>2. c.q \in Seq(EVENT) /\ Len(c.q) \in Nat /\ c.q \in [1..Len(c.q) -> EVENT]
  <2>1. PICK q \in Seq(EVENT) : q = c.q
    BY <1>1 DEF CONNECTION
  <2>2. Len(q) \in Nat /\ q \in [1..Len(q) -> EVENT]
    BY LenProperties
  <2> QED BY <2>1, <2>2
<1>3. PICK e : e = Last(c.q)
  OBVIOUS
<1>4. PICK w : w = Write(text)
  OBVIOUS
<1>5. Plain(w)
  BY <1>4, EventTyped
<1> DEFINE Fits == c.q # <<>> /\ e.type = "WRITE" /\ ~Full(n, e)
<1>6. CASE Fits
  <2>1. Len(c.q) \in Nat \ {0} /\ e = c.q[Len(c.q)] /\ e \in EVENT
    <3>1. Len(c.q) # 0
      BY <1>2, <1>6, EmptySeq
    <3> QED BY <1>2, <1>3, <3>1 DEF Last
  <2>2. c.mask # {}
    <3>1. SUFFICES ASSUME c.mask = {} PROVE FALSE
      OBVIOUS
    <3>2. Reader(c.q[1]) /\ 1 \in 1..Len(c.q)
      BY <2>1, <3>1 DEF Reader
    <3>3. Len(c.q) = 1
      BY <3>1, <3>2 DEF Good
    <3> QED BY <1>6, <2>1, <3>1, <3>3
  <2>3. PICK t : t = e.has \cup ({text} \cap Texts)
    OBVIOUS
  <2>4. PICK f : f = [e EXCEPT !.n = e.n + 1, !.has = t]
    OBVIOUS
  <2>5. f \in EVENT /\ f.type = e.type /\ f.own = e.own /\ f.wait = e.wait
    <3>1. t \in SUBSET Texts
      BY <2>1, <2>3 DEF EVENT
    <3>2. e.n + 1 \in Nat
      BY <2>1 DEF EVENT
    <3>3. /\ f.type = e.type /\ f.id = e.id /\ f.wait = e.wait /\ f.own = e.own
          /\ f.n = e.n + 1 /\ f.has = t /\ f.keep = e.keep /\ f.more = e.more
          /\ f = [type |-> f.type, id |-> f.id, wait |-> f.wait, own |-> f.own,
                  n |-> f.n, has |-> f.has, keep |-> f.keep, more |-> f.more]
      BY <2>1, <2>4 DEF EVENT
    <3>4. f \in EVENT
      BY <2>1, <3>1, <3>2, <3>3 DEF EVENT
    <3> QED BY <3>3, <3>4
  <2>6. PICK d : d = [c EXCEPT !.q = [c.q EXCEPT ![Len(c.q)] = f]]
    OBVIOUS
  <2>7. Spoken(c, d)
    BY <1>1, <1>6, <2>1, <2>2, <2>5, <2>6, AppendedText
  <2>8. PICK k : k = IF e.keep # NotKept THEN [n.kept EXCEPT ![e.keep] = @ + 1] ELSE n.kept
    OBVIOUS
  <2>9. k \in [KeptBuffers -> 0..(BufferTexts - 1)]
    <3>1. CASE e.keep # NotKept
      <4>1. e.keep \in KeptBuffers /\ n.kept[e.keep] \in 0..(BufferTexts - 1)
        BY <2>1, <3>1 DEF EVENT, Noted
      <4>2. ~(1 + n.kept[e.keep] >= BufferTexts)
        BY <1>6, <3>1 DEF Full
      <4>3. n.kept[e.keep] + 1 \in 0..(BufferTexts - 1)
        BY <4>1, <4>2, LimitAssumption
      <4> QED BY <2>8, <3>1, <4>1, <4>3 DEF Noted
    <3>2. CASE e.keep = NotKept
      BY <2>8, <3>2 DEF Noted
    <3> QED BY <3>1, <3>2
  <2>10. PICK r : r = [n EXCEPT !.conn = [n.conn EXCEPT ![h] = d], !.kept = k]
    OBVIOUS
  <2>11. d \in CONNECTION
    BY <2>7 DEF Spoken, Same
  <2>12. r \in Noted /\ r.prev = n.prev /\ r.conn = [n.conn EXCEPT ![h] = d]
    BY <2>9, <2>10, <2>11 DEF Noted
  <2>13. AddText(n, h, text) = r
    <3>1. AddText(n, h, text) =
            [n EXCEPT !.conn[h].q[Len(c.q)] =
                         [e EXCEPT !.n = @ + 1, !.has = @ \cup ({text} \cap Texts)],
                      !.kept = IF e.keep # NotKept
                               THEN [n.kept EXCEPT ![e.keep] = @ + 1] ELSE n.kept]
      BY <1>3, <1>6 DEF AddText
    <3>2. [e EXCEPT !.n = @ + 1, !.has = @ \cup ({text} \cap Texts)] = f
      BY <2>1, <2>3, <2>4 DEF EVENT
    <3>3. AddText(n, h, text) =
            [n EXCEPT !.conn[h].q[Len(c.q)] = f,
                      !.kept = IF e.keep # NotKept
                               THEN [n.kept EXCEPT ![e.keep] = @ + 1] ELSE n.kept]
      BY <3>1, <3>2
    <3> QED BY <2>6, <2>8, <2>10, <3>3 DEF Noted
  <2> QED BY <2>7, <2>12, <2>13
<1>7. CASE ~Fits
  <2>1. PICK d : d = IF HeadOf(c).type = "NOTIFY" THEN event_replace(c, w)
                     ELSE event_insert_before(c, w)
    OBVIOUS
  <2>2. Spoken(c, d)
    <3>1. CASE HeadOf(c).type = "NOTIFY"
      <4>1. c.q # <<>> /\ c.q[1].type = "NOTIFY"
        BY <1>1, <3>1, HeadIs
      <4> QED BY <1>1, <1>5, <2>1, <3>1, <4>1, ReplacedText
    <3>2. CASE HeadOf(c).type # "NOTIFY"
      <4>1. c.mask # {}
        BY <1>1, <3>2, HeadIs
      <4> QED BY <1>1, <1>5, <2>1, <3>2, <4>1, InsertedText
    <3> QED BY <3>1, <3>2
  <2>3. PICK r : r = [n EXCEPT !.conn = [n.conn EXCEPT ![h] = d]]
    OBVIOUS
  <2>4. d \in CONNECTION
    BY <2>2 DEF Spoken, Same
  <2>5. r \in Noted /\ r.prev = n.prev /\ r.conn = [n.conn EXCEPT ![h] = d]
    BY <2>3, <2>4 DEF Noted
  <2>6. AddText(n, h, text) = r
    <3>1. AddText(n, h, text) = [n EXCEPT !.conn[h] = d]
      BY <1>3, <1>4, <1>7, <2>1 DEF AddText
    <3> QED BY <2>3, <3>1
  <2> QED BY <2>2, <2>5, <2>6
<1> QED BY <1>6, <1>7

(* A connection that is told of k about entry i hears of it, and a wait    *)
(* for the done of its own entry i ends.                                   *)
Tells(n, h, k, i) ==
    \E r, d : /\ r = Tell(n, h, k, i) /\ r \in Noted /\ r.prev = n.prev
              /\ r.conn = [n.conn EXCEPT ![h] = d] /\ Heard(n.conn[h], d)
              /\ k = "done" => NoOwn(d, i)
LEMMA TellIsHeard ==
    ASSUME NEW n \in Noted, NEW h \in Hosts, NEW k, NEW i, Good(n.conn[h])
    PROVE  Tells(n, h, k, i)
<1> SUFFICES ASSUME NEW c, c = n.conn[h], Good(c)
               PROVE  \E r, d : /\ r = Tell(n, h, k, i) /\ r \in Noted /\ r.prev = n.prev
                                /\ r.conn = [n.conn EXCEPT ![h] = d] /\ Heard(c, d)
                                /\ k = "done" => NoOwn(d, i)
  BY DEF Tells
<1>1. c \in CONNECTION
  BY DEF Noted
<1>2. ASSUME k = "done", ~NoOwn(c, i)
      PROVE  Wants(c, k, i) /\ k \in HeadOf(c).wait
  <2>1. PICK a \in 1..Len(c.q) : c.mask = {} /\ c.q[a].own /\ c.q[a].id = i
    BY <1>2 DEF NoOwn
  <2>2. c.q[a].type = "NOTIFY" /\ "done" \in c.q[a].wait
    BY <2>1 DEF Good, EventOK
  <2>3. c.q # <<>>
    BY EmptySeq
  <2>4. a = 1
    BY <2>1, <2>2 DEF Good, Reader
  <2>5. HeadOf(c) = c.q[1]
    BY <1>1, <2>3, HeadIs
  <2>6. c.open
    BY <2>3 DEF Good, NoConn
  <2> QED BY <1>2, <2>1, <2>2, <2>4, <2>5, <2>6 DEF Wants
<1>3. CASE ~Wants(c, k, i)
  <2>1. Tell(n, h, k, i) = n /\ n.conn = [n.conn EXCEPT ![h] = c]
    BY <1>3 DEF Tell, Noted
  <2>2. Heard(c, c)
    BY <1>1, HeardSame
  <2> QED BY <1>2, <1>3, <2>1, <2>2
<1>4. CASE Wants(c, k, i)
  <2>1. c.open /\ Tell(n, h, k, i) = Notified(n, h, k, i)
    BY <1>4 DEF Wants, Tell
  <2>2. \E m, b : /\ m = (IF k \in HeadOf(c).wait
                          THEN [AddText(n, h, Answer(c, k, i)) EXCEPT
                                   !.conn[h].answered = TRUE]
                          ELSE n)
                  /\ m \in Noted /\ m.prev = n.prev
                  /\ m.conn = [n.conn EXCEPT ![h] = b] /\ Heard(c, b)
                  /\ k = "done" => NoOwn(b, i)
    <3>1. CASE k \in HeadOf(c).wait
      <4>1. c.q # <<>> /\ c.q[1].type = "NOTIFY" /\ HeadOf(c) = c.q[1] /\ 1 \in 1..Len(c.q)
        <5>1. c.q # <<>> /\ HeadOf(c) = c.q[1] /\ 1 \in 1..Len(c.q)
          BY <1>1, <3>1, HeadIs
        <5> QED BY <3>1, <5>1 DEF Good, EventOK
      <4>2. PICK r, d : /\ r = AddText(n, h, Answer(c, k, i)) /\ r \in Noted
                        /\ r.prev = n.prev
                        /\ r.conn = [n.conn EXCEPT ![h] = d] /\ Spoken(c, d)
        <5>1. Speaks(n, h, Answer(c, k, i))
          BY <2>1, <4>1, AddTextSpeaks
        <5> QED BY <5>1 DEF Speaks
      <4>3. PICK b : b = [d EXCEPT !.answered = TRUE]
        OBVIOUS
      <4>4. d \in CONNECTION /\ d.open
        BY <2>1, <4>2 DEF Spoken, Same
      <4>5. /\ b \in CONNECTION /\ b.q = d.q /\ b.mask = d.mask /\ b.id = d.id
            /\ b.monitor = d.monitor /\ b.blank = d.blank /\ b.open = d.open /\ b.answered
        BY <4>3, <4>4 DEF CONNECTION
      <4>6. Good(b)
        BY <4>2, <4>4, <4>5 DEF Spoken, Good
      <4>7. Heard(c, b)
        BY <4>2, <4>5, <4>6 DEF Spoken, Same, Heard
      <4>8. NoOwn(b, i)
        <5>1. SUFFICES ASSUME b.mask = {}, NEW a \in 1..Len(b.q), b.q[a].own PROVE FALSE
          BY DEF NoOwn
        <5>2. Reader(b.q[a])
          BY <4>6, <5>1 DEF Good, EventOK, Reader
        <5> QED BY <4>2, <4>5, <5>1, <5>2 DEF Spoken, Same
      <4>9. PICK m : m = [r EXCEPT !.conn = [n.conn EXCEPT ![h] = b]]
        OBVIOUS
      <4>10. m \in Noted /\ m.prev = n.prev /\ m.conn = [n.conn EXCEPT ![h] = b]
        BY <4>2, <4>5, <4>9 DEF Noted
      <4>11. [AddText(n, h, Answer(c, k, i)) EXCEPT !.conn[h].answered = TRUE] = m
        <5>1. r.conn[h] = d
          BY <4>2 DEF Noted
        <5>2. [r.conn EXCEPT ![h] = b] = [n.conn EXCEPT ![h] = b]
          BY <4>2 DEF Noted
        <5>3. [r EXCEPT !.conn[h].answered = TRUE] = [r EXCEPT !.conn = [r.conn EXCEPT ![h] = b]]
          BY <4>3, <5>1
        <5> QED BY <4>2, <4>9, <5>2, <5>3
      <4> QED BY <3>1, <4>7, <4>8, <4>10, <4>11
    <3>2. CASE k \notin HeadOf(c).wait
      <4>1. n.conn = [n.conn EXCEPT ![h] = c]
        BY DEF Noted
      <4>2. Heard(c, c)
        BY <1>1, HeardSame
      <4> QED BY <1>2, <3>2, <4>1, <4>2
    <3> QED BY <3>1, <3>2
  <2>3. PICK m, b : /\ m = (IF k \in HeadOf(c).wait
                            THEN [AddText(n, h, Answer(c, k, i)) EXCEPT
                                     !.conn[h].answered = TRUE]
                            ELSE n)
                    /\ m \in Noted /\ m.prev = n.prev
                    /\ m.conn = [n.conn EXCEPT ![h] = b] /\ Heard(c, b)
                    /\ k = "done" => NoOwn(b, i)
    BY <2>2
  <2>4. Tell(n, h, k, i) = IF k \in c.mask THEN AddText(m, h, "note") ELSE m
    BY <2>1, <2>3 DEF Notified
  <2>5. CASE k \notin c.mask
    BY <2>3, <2>4, <2>5
  <2>6. CASE k \in c.mask
    <3>1. b = m.conn[h] /\ b \in CONNECTION /\ Good(b) /\ b.open /\ b.mask # {}
      BY <2>1, <2>3, <2>6 DEF Noted, Heard, Same
    <3>2. PICK r, d : /\ r = AddText(m, h, "note") /\ r \in Noted /\ r.prev = m.prev
                      /\ r.conn = [m.conn EXCEPT ![h] = d] /\ Spoken(b, d)
      <4>1. m \in Noted
        BY <2>3
      <4>2. Speaks(m, h, "note")
        BY <3>1, <4>1, AddTextSpeaks
      <4> QED BY <3>1, <4>2 DEF Speaks
    <3>3. Heard(b, d)
      BY <3>1, <3>2 DEF Spoken, Heard, Same
    <3>4. Heard(c, d)
      BY <1>1, <2>3, <3>3, HeardTrans
    <3>5. NoOwn(d, i)
      BY <3>1, <3>3 DEF Heard, Same, NoOwn
    <3>6. r.conn = [n.conn EXCEPT ![h] = d]
      <4>1. \A f, g, e : f = [g EXCEPT ![h] = b] /\ e = [f EXCEPT ![h] = d] =>
                             e = [g EXCEPT ![h] = d]
        OBVIOUS
      <4>2. m.conn = [n.conn EXCEPT ![h] = b]
        BY <2>3
      <4>3. r.conn = [m.conn EXCEPT ![h] = d]
        BY <3>2
      <4> QED BY <4>1, <4>2, <4>3, Zenon
    <3> QED BY <2>3, <2>4, <2>6, <3>2, <3>4, <3>5, <3>6
  <2> QED BY <2>5, <2>6
<1> QED BY <1>3, <1>4

(* Every connection is in order, and later every one has heard.            *)
Calm == {m \in Noted : \A x \in Hosts : Good(m.conn[x])}
Hears(n, m) == m \in Noted /\ \A x \in Hosts : Heard(n.conn[x], m.conn[x])

LEMMA HearsCalm ==
    ASSUME NEW n, NEW m, Hears(n, m)
    PROVE  m \in Calm
BY DEF Hears, Calm, Heard

LEMMA HearsSame ==
    ASSUME NEW n \in Calm
    PROVE  Hears(n, n)
<1>1. \A x \in Hosts : n.conn[x] \in CONNECTION /\ Good(n.conn[x])
  BY DEF Calm, Noted
<1>2. \A x \in Hosts : Heard(n.conn[x], n.conn[x])
  BY <1>1, HeardSame
<1> QED BY <1>2 DEF Hears, Calm

LEMMA HearsTrans ==
    ASSUME NEW n \in Noted, NEW m, NEW r, Hears(n, m), Hears(m, r)
    PROVE  Hears(n, r)
<1>1. ASSUME NEW x \in Hosts PROVE Heard(n.conn[x], r.conn[x])
  <2>1. n.conn[x] \in CONNECTION
    BY DEF Noted
  <2>2. Heard(n.conn[x], m.conn[x]) /\ Heard(m.conn[x], r.conn[x])
    BY DEF Hears
  <2> QED BY <2>1, <2>2, HeardTrans
<1> QED BY <1>1 DEF Hears

(* Telling one connection, seen from all of them.                          *)
LEMMA TellHears ==
    ASSUME NEW n \in Calm, NEW h \in Hosts, NEW k, NEW i
    PROVE  /\ Hears(n, Tell(n, h, k, i)) /\ Tell(n, h, k, i).prev = n.prev
           /\ k = "done" => NoOwn(Tell(n, h, k, i).conn[h], i)
<1>1. n \in Noted /\ \A x \in Hosts : n.conn[x] \in CONNECTION /\ Good(n.conn[x])
  BY DEF Calm, Noted
<1>2. Tells(n, h, k, i)
  BY <1>1, TellIsHeard
<1>3. PICK r, d : /\ r = Tell(n, h, k, i) /\ r \in Noted /\ r.prev = n.prev
                  /\ r.conn = [n.conn EXCEPT ![h] = d] /\ Heard(n.conn[h], d)
                  /\ k = "done" => NoOwn(d, i)
  BY <1>2 DEF Tells
<1>4. r.conn[h] = d /\ \A x \in Hosts : x # h => r.conn[x] = n.conn[x]
  BY <1>1, <1>3 DEF Noted
<1>5. \A x \in Hosts : Heard(n.conn[x], n.conn[x])
  BY <1>1, HeardSame
<1>6. Hears(n, r)
  BY <1>3, <1>4, <1>5 DEF Hears
<1> QED BY <1>3, <1>4, <1>6

(* The hosts in the order in which they are told.                          *)
LEMMA InOrder ==
    ASSUME NEW S \in SUBSET Hosts
    PROVE  \E N \in Nat : /\ SetToSeq(S) \in [1..N -> S] /\ Len(SetToSeq(S)) = N
                          /\ \A x \in S : \E j \in 1..N : SetToSeq(S)[j] = x
<1>1. IsFiniteSet(S)
  BY HostAssumption, FS_Subset
<1>2. PICK N \in Nat : N = Cardinality(S) /\ ExistsBijection(1..N, S)
  BY <1>1, FS_CardinalityType
<1>3. \E f \in [1..N -> S] : IsInjective(f)
  BY <1>2 DEF ExistsBijection, Bijection, Injection
<1>4. SetToSeq(S) = CHOOSE f \in [1..N -> S] : IsInjective(f)
  BY <1>2 DEF SetToSeq
<1>5. SetToSeq(S) \in [1..N -> S] /\ IsInjective(SetToSeq(S))
  BY <1>3, <1>4
<1>6. PICK f : f = SetToSeq(S)
  OBVIOUS
<1>7. f \in Injection(1..N, S)
  BY <1>5, <1>6 DEF Injection
<1>8. Cardinality(1..N) = N
  <2>1. Cardinality(1..N) = IF 1 > N THEN 0 ELSE N - 1 + 1
    BY FS_Interval
  <2> QED BY <2>1
<1>9. f \in Surjection(1..N, S)
  BY <1>1, <1>2, <1>7, <1>8, FS_Injection
<1>10. \A x \in S : \E j \in 1..N : f[j] = x
  BY <1>9 DEF Surjection
<1>11. Len(f) = N
  <2>1. f \in Seq(S)
    BY <1>5, <1>6, SeqDef
  <2>2. DOMAIN f = 1..Len(f) /\ DOMAIN f = 1..N /\ Len(f) \in Nat
    BY <1>5, <1>6, <2>1, LenProperties
  <2>3. /\ Len(f) # 0 => Len(f) \in 1..Len(f)
        /\ N # 0 => N \in 1..N
    BY <2>2
  <2>4. /\ Len(f) # 0 => Len(f) \in 1..N
        /\ N # 0 => N \in 1..Len(f)
    BY <2>2, <2>3
  <2>5. PICK len \in Nat : len = Len(f)
    BY <2>2
  <2>6. (len # 0 => len <= N) /\ (N # 0 => N <= len)
    BY <2>4, <2>5
  <2>7. len = N
    BY <2>6
  <2> QED BY <2>5, <2>7
<1> QED BY <1>5, <1>6, <1>10, <1>11

(* All of only are told.                                                   *)
ToldDone(n, m, k, i, only) ==
    /\ Hears(n, m) /\ m.prev = n.prev
    /\ k = "done" => \A x \in only : NoOwn(m.conn[x], i)
LEMMA ToldHears ==
    ASSUME NEW n \in Calm, NEW k, NEW i, NEW only \in SUBSET Hosts
    PROVE  ToldDone(n, Told(n, k, i, only), k, i, only)
<1>1. PICK hs : hs = SetToSeq(only)
  OBVIOUS
<1>2. PICK N \in Nat : /\ hs \in [1..N -> only] /\ Len(hs) = N
                       /\ \A x \in only : \E j \in 1..N : hs[j] = x
  BY <1>1, InOrder
<1>3. PICK step : step = [p \in (1..N) \X Calm |-> Tell(p[2], hs[p[1]], k, i)]
  OBVIOUS
<1>4. step \in [(1..N) \X Calm -> Calm]
  <2>1. ASSUME NEW p \in (1..N) \X Calm PROVE Tell(p[2], hs[p[1]], k, i) \in Calm
    <3>1. p[2] \in Calm /\ hs[p[1]] \in Hosts
      BY <1>2
    <3>2. Hears(p[2], Tell(p[2], hs[p[1]], k, i))
      BY <3>1, TellHears
    <3> QED BY <3>2, HearsCalm
  <2> QED BY <1>3, <2>1
<1>5. PICK g \in [0..N -> Calm] :
         g[0] = n /\ \A j \in 1..N : g[j] = step[<<j, g[j - 1]>>]
  <2>1. Runs(N, Calm, n, step)
    BY <1>4, RecursionExists
  <2> QED BY <2>1 DEF Runs
<1>6. \A j \in 1..N : g[j - 1] \in Calm /\ g[j] = Tell(g[j - 1], hs[j], k, i)
  <2> SUFFICES ASSUME NEW j \in 1..N
               PROVE  g[j - 1] \in Calm /\ g[j] = Tell(g[j - 1], hs[j], k, i)
    OBVIOUS
  <2>1. g[j - 1] \in Calm
    BY <1>5
  <2>2. step[<<j, g[j - 1]>>] = Tell(g[j - 1], hs[j], k, i)
    BY <1>3, <2>1
  <2> QED BY <1>5, <2>1, <2>2
<1> DEFINE Steps(f) == f = [j \in 0..N |-> IF j = 0 THEN n ELSE Tell(f[j - 1], hs[j], k, i)]
           told == CHOOSE f : Steps(f)
<1>7. Steps(g)
  <2>1. \A j \in 0..N : g[j] = IF j = 0 THEN n ELSE Tell(g[j - 1], hs[j], k, i)
    BY <1>5, <1>6
  <2> QED BY <1>5, <2>1
<1>8. Steps(told)
  <2>1. \E f : Steps(f)
    BY <1>7
  <2> HIDE DEF Steps
  <2> QED BY <2>1
<1>9. Told(n, k, i, only) = told[N]
  BY <1>1, <1>2 DEF Told
<1>10. PICK f : f = told
  OBVIOUS
<1>11. f[0] = n /\ \A j \in 1..N : f[j] = Tell(f[j - 1], hs[j], k, i)
  <2>1. f = [j \in 0..N |-> IF j = 0 THEN n ELSE Tell(f[j - 1], hs[j], k, i)]
    BY <1>8, <1>10
  <2>2. \A j \in 0..N : f[j] = IF j = 0 THEN n ELSE Tell(f[j - 1], hs[j], k, i)
    BY <2>1
  <2> QED BY <2>2
<1> HIDE DEF told, Steps
<1> DEFINE P(m, j) == /\ Hears(n, m) /\ m.prev = n.prev
                      /\ k = "done" => \A b \in 1..j : NoOwn(m.conn[hs[b]], i)
<1>12. PICK S : S = [j \in 0..N |-> {m \in Noted : P(m, j)}]
  OBVIOUS
<1>13. f[0] \in S[0]
  <2>1. Hears(n, n) /\ n \in Noted
    BY HearsSame DEF Calm
  <2> QED BY <1>11, <1>12, <2>1
<1>14. ASSUME NEW j \in 1..N, f[j - 1] \in S[j - 1] PROVE f[j] \in S[j]
  <2>1. j - 1 \in 0..N /\ j \in 0..N /\ hs[j] \in Hosts
    BY <1>2
  <2>2. PICK m : m = f[j - 1]
    OBVIOUS
  <2>3. m \in Noted /\ P(m, j - 1)
    BY <1>12, <1>14, <2>1, <2>2
  <2>4. m \in Calm
    BY <2>3, HearsCalm
  <2>5. PICK r : r = Tell(m, hs[j], k, i)
    OBVIOUS
  <2>6. /\ Hears(m, r) /\ r.prev = m.prev
        /\ k = "done" => NoOwn(r.conn[hs[j]], i)
    BY <2>1, <2>4, <2>5, TellHears
  <2>7. Hears(n, r)
    <3>1. n \in Noted
      BY DEF Calm
    <3> QED BY <2>3, <2>6, <3>1, HearsTrans
  <2>8. ASSUME k = "done", NEW b \in 1..j PROVE NoOwn(r.conn[hs[b]], i)
    <3>1. CASE b = j
      BY <2>6, <2>8, <3>1
    <3>2. CASE b # j
      <4>1. b \in 1..(j - 1) /\ hs[b] \in Hosts
        BY <1>2, <2>1, <3>2
      <4>2. NoOwn(m.conn[hs[b]], i) /\ m.conn[hs[b]] \in CONNECTION
        BY <2>3, <2>8, <4>1 DEF Noted
      <4>3. Heard(m.conn[hs[b]], r.conn[hs[b]])
        BY <2>6, <4>1 DEF Hears
      <4> QED BY <4>2, <4>3, NoOwnStays
    <3> QED BY <3>1, <3>2
  <2>9. f[j] = r
    BY <1>11, <2>2, <2>5
  <2>10. r \in Noted /\ P(r, j)
    BY <2>3, <2>6, <2>7, <2>8 DEF Hears
  <2> QED BY <1>12, <2>1, <2>9, <2>10
<1>15. f[N] \in S[N]
  <2>1. \A j \in 0..N : f[j] \in S[j]
    BY <1>13, <1>14, RecursionKeeps
  <2> QED BY <2>1
<1>16. P(f[N], N)
  BY <1>12, <1>15
<1>17. k = "done" => \A x \in only : NoOwn(f[N].conn[x], i)
  <2> SUFFICES ASSUME k = "done", NEW x \in only PROVE NoOwn(f[N].conn[x], i)
    OBVIOUS
  <2>1. PICK j \in 1..N : hs[j] = x
    BY <1>2
  <2> QED BY <1>16, <2>1
<1> QED BY <1>9, <1>10, <1>16, <1>17 DEF ToldDone

(* A notification, with the notification of the server's state.            *)
LEMMA NotifyHears ==
    ASSUME NEW n \in Calm, NEW note,
           NEW now \in (-1..SPOOL_MAX_ID) \X (-1..SPOOL_MAX_ID), NEW only \in SUBSET Hosts
    PROVE  LET m == connection_notify(n, note, now, only)
           IN  /\ Hears(n, m)
               /\ note.kind = "done" => \A x \in only : NoOwn(m.conn[x], note.id)
<1>1. PICK t : t = Told(n, note.kind, note.id, only)
  OBVIOUS
<1>2. ToldDone(n, t, note.kind, note.id, only)
  BY <1>1, ToldHears
<1>3. n \in Noted /\ t \in Calm /\ Hears(n, t)
  BY <1>2, HearsCalm DEF ToldDone, Calm
<1>4. PICK u : u = Told(t, "state", 0, only)
  OBVIOUS
<1>5. ToldDone(t, u, "state", 0, only)
  BY <1>3, <1>4, ToldHears
<1>6. PICK v : v = [u EXCEPT !.prev = now]
  OBVIOUS
<1>7. Hears(t, v)
  <2>1. u \in Noted /\ Hears(t, u)
    BY <1>5 DEF ToldDone, Hears
  <2>2. v \in Noted /\ v.conn = u.conn
    BY <1>6, <2>1 DEF Noted
  <2> QED BY <2>1, <2>2 DEF Hears
<1>8. Hears(n, v)
  BY <1>3, <1>7, HearsTrans
<1>9. connection_notify(n, note, now, only) \in {t, v}
  BY <1>1, <1>4, <1>6 DEF connection_notify, StateTold
<1>10. ASSUME note.kind = "done", NEW x \in only
       PROVE  NoOwn(t.conn[x], note.id) /\ NoOwn(v.conn[x], note.id)
  <2>1. NoOwn(t.conn[x], note.id)
    BY <1>2, <1>10 DEF ToldDone
  <2>2. t.conn[x] \in CONNECTION /\ Heard(t.conn[x], v.conn[x])
    BY <1>3, <1>7 DEF Hears, Noted
  <2> QED BY <2>1, <2>2, NoOwnStays
<1> QED BY <1>3, <1>8, <1>9, <1>10

(* A list of notifications.  A done is heard by all when all are told.     *)
NotesDone(n, m, notes, only) ==
    /\ Hears(n, m)
    /\ only = Hosts => \A b \in 1..Len(notes), x \in Hosts :
                          notes[b].kind = "done" => NoOwn(m.conn[x], notes[b].id)
LEMMA NotesHear ==
    ASSUME NEW n \in Calm, NEW notes, Len(notes) \in Nat,
           NEW now \in (-1..SPOOL_MAX_ID) \X (-1..SPOOL_MAX_ID), NEW only \in SUBSET Hosts
    PROVE  NotesDone(n, Notes(n, notes, now, only), notes, only)
<1>1. PICK N \in Nat : N = Len(notes)
  OBVIOUS
<1>2. PICK step : step = [p \in (1..N) \X Calm |->
                             connection_notify(p[2], notes[p[1]], now, only)]
  OBVIOUS
<1>3. step \in [(1..N) \X Calm -> Calm]
  <2>1. ASSUME NEW p \in (1..N) \X Calm
        PROVE  connection_notify(p[2], notes[p[1]], now, only) \in Calm
    <3>1. p[2] \in Calm
      OBVIOUS
    <3>2. Hears(p[2], connection_notify(p[2], notes[p[1]], now, only))
      BY <3>1, NotifyHears
    <3> QED BY <3>2, HearsCalm
  <2> QED BY <1>2, <2>1
<1>4. PICK g \in [0..N -> Calm] :
         g[0] = n /\ \A j \in 1..N : g[j] = step[<<j, g[j - 1]>>]
  <2>1. Runs(N, Calm, n, step)
    BY <1>3, RecursionExists
  <2> QED BY <2>1 DEF Runs
<1>5. \A j \in 1..N : g[j] = connection_notify(g[j - 1], notes[j], now, only)
  <2> SUFFICES ASSUME NEW j \in 1..N
               PROVE  g[j] = connection_notify(g[j - 1], notes[j], now, only)
    OBVIOUS
  <2>1. g[j - 1] \in Calm
    BY <1>4
  <2>2. step[<<j, g[j - 1]>>] = connection_notify(g[j - 1], notes[j], now, only)
    BY <1>2, <2>1
  <2> QED BY <1>4, <2>2
<1> DEFINE Steps(f) == f = [j \in 0..N |-> IF j = 0 THEN n
                                ELSE connection_notify(f[j - 1], notes[j], now, only)]
           sent == CHOOSE f : Steps(f)
<1>6. Steps(g)
  <2>1. \A j \in 0..N : g[j] = IF j = 0 THEN n
                               ELSE connection_notify(g[j - 1], notes[j], now, only)
    BY <1>4, <1>5
  <2> QED BY <1>4, <2>1
<1>7. Steps(sent)
  <2>1. \E f : Steps(f)
    BY <1>6
  <2> HIDE DEF Steps
  <2> QED BY <2>1
<1>8. Notes(n, notes, now, only) = sent[N]
  BY <1>1 DEF Notes
<1>9. PICK f : f = sent
  OBVIOUS
<1>10. f[0] = n /\ \A j \in 1..N : f[j] = connection_notify(f[j - 1], notes[j], now, only)
  <2>1. f = [j \in 0..N |-> IF j = 0 THEN n
                            ELSE connection_notify(f[j - 1], notes[j], now, only)]
    BY <1>7, <1>9
  <2>2. \A j \in 0..N : f[j] = IF j = 0 THEN n
                               ELSE connection_notify(f[j - 1], notes[j], now, only)
    BY <2>1
  <2> QED BY <2>2
<1> HIDE DEF sent, Steps
<1> DEFINE P(m, j) == /\ Hears(n, m)
                      /\ only = Hosts => \A b \in 1..j, x \in Hosts :
                            notes[b].kind = "done" => NoOwn(m.conn[x], notes[b].id)
<1>11. PICK S : S = [j \in 0..N |-> {m \in Noted : P(m, j)}]
  OBVIOUS
<1>12. f[0] \in S[0]
  <2>1. Hears(n, n) /\ n \in Noted
    BY HearsSame DEF Calm
  <2> QED BY <1>10, <1>11, <2>1
<1>13. ASSUME NEW j \in 1..N, f[j - 1] \in S[j - 1] PROVE f[j] \in S[j]
  <2>1. j - 1 \in 0..N /\ j \in 0..N
    OBVIOUS
  <2>2. PICK m : m = f[j - 1]
    OBVIOUS
  <2>3. m \in Noted /\ P(m, j - 1)
    BY <1>11, <1>13, <2>1, <2>2
  <2>4. m \in Calm
    BY <2>3, HearsCalm
  <2>5. PICK r : r = connection_notify(m, notes[j], now, only)
    OBVIOUS
  <2>6. /\ Hears(m, r)
        /\ notes[j].kind = "done" => \A x \in only : NoOwn(r.conn[x], notes[j].id)
    BY <2>4, <2>5, NotifyHears
  <2>7. Hears(n, r)
    <3>1. n \in Noted
      BY DEF Calm
    <3> QED BY <2>3, <2>6, <3>1, HearsTrans
  <2>8. ASSUME only = Hosts, NEW b \in 1..j, NEW x \in Hosts, notes[b].kind = "done"
        PROVE  NoOwn(r.conn[x], notes[b].id)
    <3>1. CASE b = j
      BY <2>6, <2>8, <3>1
    <3>2. CASE b # j
      <4>1. b \in 1..(j - 1)
        BY <2>1, <3>2
      <4>2. NoOwn(m.conn[x], notes[b].id) /\ m.conn[x] \in CONNECTION
        BY <2>3, <2>8, <4>1 DEF Noted
      <4>3. Heard(m.conn[x], r.conn[x])
        BY <2>6 DEF Hears
      <4> QED BY <4>2, <4>3, NoOwnStays
    <3> QED BY <3>1, <3>2
  <2>9. f[j] = r
    BY <1>10, <2>2, <2>5
  <2>10. r \in Noted /\ P(r, j)
    BY <2>6, <2>7, <2>8 DEF Hears
  <2> QED BY <1>11, <2>1, <2>9, <2>10
<1>14. f[N] \in S[N]
  <2>1. \A j \in 0..N : f[j] \in S[j]
    BY <1>12, <1>13, RecursionKeeps
  <2> QED BY <2>1
<1>15. P(f[N], N)
  BY <1>11, <1>14
<1> QED BY <1>1, <1>8, <1>9, <1>15 DEF NotesDone

-----------------------------------------------------------------------------
(* Connections in the middle of a command, and between two.                *)

(* The event that read the line is gone: nothing reads or waits.           *)
Bare(c) == /\ c \in CONNECTION /\ Good(c) /\ c.open /\ ~c.monitor
           /\ \A a \in 1..Len(c.q) : ~Reader(c.q[a])

(* The properties, of one connection.                                      *)
Settled(c, sp) ==
    /\ c \in CONNECTION /\ Good(c)
    /\ c.open /\ c.q = <<>> => c.blank
    /\ c.open /\ c.mask = {} /\ ~c.answered =>
          \E a \in 1..Len(c.q) : c.q[a].type = "NOTIFY"
    /\ c.mask = {} => \A a \in 1..Len(c.q) : c.q[a].own => sp[c.q[a].id] # "none"

(* What nobody reads, nobody waits for.                                    *)
LEMMA BareSettled ==
    ASSUME NEW c, Bare(c), c.answered, c.q # <<>> \/ c.blank, NEW sp
    PROVE  Settled(c, sp)
BY DEF Bare, Settled, Good, EventOK, Reader

LEMMA BareHears ==
    ASSUME NEW c, Bare(c), NEW d, Heard(c, d)
    PROVE  Bare(d) /\ d.mask = c.mask /\ (c.mask = {} /\ c.q = <<>> => d.q = <<>>)
<1>1. d \in CONNECTION /\ Good(d) /\ d.open /\ ~d.monitor /\ d.mask = c.mask
  BY DEF Bare, Heard, Same
<1>2. \A b \in 1..Len(d.q) : ~Reader(d.q[b])
  BY DEF Bare, Heard
<1>3. ASSUME c.mask = {}, c.q = <<>> PROVE d.q = <<>>
  <2>1. Len(d.q) = 0 /\ d.q \in Seq(EVENT)
    BY <1>1, <1>3 DEF Heard, CONNECTION
  <2> QED BY <2>1, EmptySeq
<1> QED BY <1>1, <1>2, <1>3 DEF Bare

(* A connection from which a line is read.                                 *)
LEMMA TookBare ==
    ASSUME NEW h \in Hosts, conn[h] \in CONNECTION, Good(conn[h]), CanRead(h)
    PROVE  /\ Bare(Took(h)) /\ Took(h).mask = conn[h].mask
           /\ Took(h).mask = {} => Took(h).q = <<>>
           /\ ~conn[h].monitor
<1>1. PICK c : c = conn[h]
  OBVIOUS
<1>2. c.q # <<>> /\ HeadOf(c) = c.q[1] /\ 1 \in 1..Len(c.q) /\ c.open /\ Reader(c.q[1])
  BY <1>1, HeadIs DEF CanRead, Reader
<1>3. PICK t : t = Tail(c.q)
  OBVIOUS
<1>4. c.q \in Seq(EVENT)
  BY <1>1 DEF CONNECTION
<1>5. t \in Seq(EVENT) /\ Len(t) = Len(c.q) - 1 /\ \A i \in 1..Len(t) : t[i] = c.q[i + 1]
  BY <1>2, <1>3, <1>4, HeadTailProperties
<1>6. PICK d : d = Took(h)
  OBVIOUS
<1>7. /\ d \in CONNECTION /\ d.q = t /\ d.mask = c.mask /\ d.monitor = c.monitor
      /\ d.open = c.open
  BY <1>1, <1>3, <1>5, <1>6 DEF Took, CONNECTION
<1>8. Len(c.q) \in Nat \ {0}
  BY <1>2, <1>4, EmptySeq
<1>9. ASSUME NEW a \in 1..Len(t)
      PROVE  EventOK(t[a], c.monitor) /\ ~Reader(t[a])
  <2>1. a + 1 \in 1..Len(c.q) /\ t[a] = c.q[a + 1] /\ a + 1 # 1
    BY <1>5, <1>8
  <2> QED BY <1>1, <1>2, <2>1 DEF Good
<1>10. ~c.monitor
  BY <1>1, <1>2 DEF Good
<1>11. Good(d)
  BY <1>2, <1>7, <1>9, <1>10 DEF Good
<1>12. c.mask = {} => t = <<>>
  <2>1. c.mask = {} => Len(c.q) = 1
    BY <1>1, <1>2 DEF Good
  <2> QED BY <1>5, <2>1, EmptySeq
<1> QED BY <1>1, <1>2, <1>6, <1>7, <1>9, <1>10, <1>11, <1>12 DEF Bare

(* A reply in front.                                                       *)
LEMMA ReplyBare ==
    ASSUME NEW c, Bare(c)
    PROVE  LET d == connection_reply(c)
           IN  /\ Bare(d) /\ d.answered /\ d.q # <<>> /\ d.mask = c.mask
               /\ d.monitor = c.monitor
<1>1. PICK w : w = Write("reply")
  OBVIOUS
<1>2. Plain(w) /\ w \in EVENT
  BY <1>1, EventTyped DEF Plain
<1>3. PICK v : v = <<w>>
  OBVIOUS
<1>4. v \in Seq(EVENT) /\ Len(v) = 1 /\ v[1] = w
  BY <1>2, <1>3
<1>5. PICK q \in Seq(EVENT) : q = c.q
  BY DEF Bare, CONNECTION
<1>6. PICK r : r = v \o q
  OBVIOUS
<1>7. /\ r \in Seq(EVENT) /\ Len(r) = Len(v) + Len(q)
      /\ \A j \in 1..(Len(v) + Len(q)) : r[j] = IF j <= Len(v) THEN v[j] ELSE q[j - Len(v)]
  BY <1>4, <1>6, ConcatProperties
<1>8. Len(q) \in Nat
  BY LenProperties
<1>9. PICK d : d = connection_reply(c)
  OBVIOUS
<1>10. /\ d \in CONNECTION /\ d.q = r /\ d.mask = c.mask /\ d.monitor = c.monitor
       /\ d.open = c.open /\ d.answered
  <2>1. d = [c EXCEPT !.q = r, !.answered = TRUE]
    BY <1>1, <1>3, <1>5, <1>6, <1>9 DEF connection_reply
  <2> QED BY <1>7, <2>1 DEF Bare, CONNECTION
<1>11. ASSUME NEW j \in 1..Len(r)
       PROVE  EventOK(r[j], c.monitor) /\ ~Reader(r[j])
  <2>1. CASE j = 1
    <3>1. r[j] = w
      BY <1>4, <1>7, <1>8, <2>1
    <3> QED BY <1>2, <3>1, PlainOK DEF Plain
  <2>2. CASE j # 1
    <3>1. PICK i \in 1..Len(q) : i = j - 1
      BY <1>4, <1>7, <1>8, <2>2
    <3>2. r[j] = q[j - 1]
      BY <1>4, <1>7, <1>8, <2>2
    <3> QED BY <1>5, <3>1, <3>2 DEF Bare, Good
  <2> QED BY <2>1, <2>2
<1>12. Bare(d)
  BY <1>10, <1>11 DEF Bare, Good
<1>13. d.q # <<>>
  BY <1>4, <1>7, <1>8, <1>10, EmptySeq
<1> QED BY <1>9, <1>10, <1>12, <1>13

(* An event behind the others.                                             *)
LEMMA InsertIs ==
    ASSUME NEW c \in CONNECTION, NEW w \in EVENT
    PROVE  LET d == event_insert(c, w)
           IN  /\ d \in CONNECTION /\ d.mask = c.mask /\ d.monitor = c.monitor
               /\ d.open = c.open /\ d.answered = c.answered /\ d.blank = c.blank
               /\ d.id = c.id
               /\ Len(c.q) \in Nat /\ Len(d.q) = Len(c.q) + 1 /\ d.q # <<>>
               /\ d.q[Len(c.q) + 1] = w
               /\ \A a \in 1..Len(c.q) : d.q[a] = c.q[a]
<1>1. PICK q \in Seq(EVENT) : q = c.q
  BY DEF CONNECTION
<1>2. PICK r : r = Append(q, w)
  OBVIOUS
<1>3. /\ r \in Seq(EVENT) /\ r # <<>> /\ Len(r) = Len(q) + 1
      /\ \A i \in 1..Len(q) : r[i] = q[i]
      /\ r[Len(q) + 1] = w
  BY <1>2, AppendProperties
<1>4. Len(q) \in Nat
  BY LenProperties
<1>5. PICK d : d = event_insert(c, w)
  OBVIOUS
<1>6. d = [c EXCEPT !.q = r]
  BY <1>1, <1>2, <1>5 DEF event_insert
<1>7. /\ d \in CONNECTION /\ d.mask = c.mask /\ d.monitor = c.monitor
      /\ d.open = c.open /\ d.answered = c.answered /\ d.blank = c.blank
      /\ d.id = c.id /\ d.q = r
  BY <1>3, <1>6 DEF CONNECTION
<1> QED BY <1>1, <1>3, <1>4, <1>5, <1>7

LEMMA InsertBare ==
    ASSUME NEW c, Bare(c), NEW w, Plain(w)
    PROVE  LET d == event_insert(c, w)
           IN  Bare(d) /\ d.answered = c.answered /\ d.q # <<>> /\ d.mask = c.mask
               /\ d.monitor = c.monitor
<1>1. PICK d : d = event_insert(c, w)
  OBVIOUS
<1>2. w \in EVENT /\ c \in CONNECTION
  BY DEF Plain, Bare
<1>3. /\ d \in CONNECTION /\ d.mask = c.mask /\ d.monitor = c.monitor
      /\ d.open = c.open /\ d.answered = c.answered
      /\ Len(c.q) \in Nat /\ Len(d.q) = Len(c.q) + 1 /\ d.q # <<>>
      /\ d.q[Len(c.q) + 1] = w
      /\ \A a \in 1..Len(c.q) : d.q[a] = c.q[a]
  BY <1>1, <1>2, InsertIs
<1>4. ASSUME NEW j \in 1..Len(d.q)
      PROVE  EventOK(d.q[j], c.monitor) /\ ~Reader(d.q[j])
  <2>1. CASE j = Len(c.q) + 1
    BY <1>3, <2>1, PlainOK DEF Plain
  <2>2. CASE j # Len(c.q) + 1
    <3>1. j \in 1..Len(c.q)
      BY <1>3, <2>2
    <3> QED BY <1>3, <3>1 DEF Bare, Good
  <2> QED BY <2>1, <2>2
<1>5. Bare(d)
  BY <1>3, <1>4 DEF Bare, Good
<1> QED BY <1>1, <1>3, <1>5

(* A reply behind the others.                                              *)
LEMMA InsertReplyBare ==
    ASSUME NEW c, Bare(c), NEW w, Plain(w)
    PROVE  LET d == InsertReply(c, w)
           IN  Bare(d) /\ d.answered /\ d.q # <<>> /\ d.mask = c.mask
               /\ d.monitor = c.monitor
<1>1. PICK b : b = event_insert(c, w)
  OBVIOUS
<1>2. Bare(b) /\ b.q # <<>> /\ b.mask = c.mask /\ b.monitor = c.monitor
  BY <1>1, InsertBare
<1>3. PICK d : d = InsertReply(c, w)
  OBVIOUS
<1>4. d = [b EXCEPT !.answered = TRUE]
  BY <1>1, <1>3 DEF InsertReply
<1>5. /\ d \in CONNECTION /\ d.q = b.q /\ d.mask = b.mask /\ d.monitor = b.monitor
      /\ d.open = b.open /\ d.answered
  BY <1>2, <1>4 DEF Bare, CONNECTION
<1>6. Bare(d)
  BY <1>2, <1>5 DEF Bare, Good
<1> QED BY <1>2, <1>3, <1>5, <1>6

(* A wait, of a client without notification when nothing else is queued.   *)
LEMMA WaitSettled ==
    ASSUME NEW c, Bare(c), c.mask = {} => c.q = <<>>,
           NEW w \in EVENT, w.type = "NOTIFY", NEW sp,
           w.own => "done" \in w.wait /\ w.id \in Ids /\ sp[w.id] # "none"
    PROVE  Settled(event_insert(c, w), sp) /\ ~event_insert(c, w).monitor
<1>1. PICK d : d = event_insert(c, w)
  OBVIOUS
<1>2. c \in CONNECTION
  BY DEF Bare
<1>3. /\ d \in CONNECTION /\ d.mask = c.mask /\ d.monitor = c.monitor
      /\ d.open = c.open
      /\ Len(c.q) \in Nat /\ Len(d.q) = Len(c.q) + 1 /\ d.q # <<>>
      /\ d.q[Len(c.q) + 1] = w
      /\ \A a \in 1..Len(c.q) : d.q[a] = c.q[a]
  BY <1>1, <1>2, InsertIs
<1>4. ASSUME NEW j \in 1..Len(d.q), j # Len(c.q) + 1
      PROVE  j \in 1..Len(c.q) /\ EventOK(d.q[j], c.monitor) /\ ~Reader(d.q[j]) /\ ~d.q[j].own
  <2>1. j \in 1..Len(c.q)
    BY <1>3, <1>4
  <2>2. EventOK(d.q[j], c.monitor) /\ ~Reader(d.q[j])
    BY <1>3, <2>1 DEF Bare, Good
  <2> QED BY <2>1, <2>2 DEF EventOK, Reader
<1>5. EventOK(w, c.monitor)
  BY DEF EventOK, Monitors
<1>6. c.mask = {} => Len(d.q) = 1
  <2>1. c.mask = {} => Len(c.q) = 0
    BY EmptySeq
  <2> QED BY <1>3, <2>1
<1>7. Good(d)
  BY <1>3, <1>4, <1>5, <1>6 DEF Good, Bare
<1>8. Len(c.q) + 1 \in 1..Len(d.q)
  BY <1>3
<1>9. \A a \in 1..Len(d.q) : d.q[a].own => sp[d.q[a].id] # "none"
  BY <1>3, <1>4
<1>10. Settled(d, sp)
  BY <1>3, <1>7, <1>8, <1>9 DEF Settled
<1> QED BY <1>1, <1>3, <1>10 DEF Bare

-----------------------------------------------------------------------------
(* The inductive invariant.                                                *)

States == {"none", "WAIT", "PLAY", "PAUSE", "SKIP", "SKIP_PAUSED"}
World == /\ spool \in [Ids -> States] /\ last_id \in 0..SPOOL_MAX_ID
         /\ prev \in (-1..SPOOL_MAX_ID) \X (-1..SPOOL_MAX_ID)
         /\ kept \in [KeptBuffers -> 0..(BufferTexts - 1)]
         /\ need_to_reset \in BOOLEAN /\ ring \in BOOLEAN /\ monitor_update \in BOOLEAN

Monitoring(cn) == {x \in Hosts : cn[x].monitor}

ClientInv ==
    /\ World /\ conn \in [Hosts -> CONNECTION]
    /\ \A x \in Hosts : Settled(conn[x], spool)
    /\ monitor_count = Cardinality(Monitoring(conn))
    /\ monitor_count > 0 => ring

(* The monitor clients are counted.                                        *)
LEMMA CountMonitors ==
    ASSUME NEW cn, NEW cm
    PROVE  /\ Cardinality(Monitoring(cn)) \in 0..Cardinality(Hosts)
           /\ \A h \in Hosts : (\A x \in Hosts : x # h => cm[x].monitor = cn[x].monitor) =>
                Cardinality(Monitoring(cm)) =
                   IF cn[h].monitor = cm[h].monitor THEN Cardinality(Monitoring(cn))
                   ELSE IF cm[h].monitor = TRUE /\ cn[h].monitor = FALSE
                        THEN Cardinality(Monitoring(cn)) + 1
                   ELSE IF cm[h].monitor = FALSE /\ cn[h].monitor = TRUE
                        THEN Cardinality(Monitoring(cn)) - 1
                   ELSE Cardinality(Monitoring(cm))
<1>1. PICK S : S = Monitoring(cn)
  OBVIOUS
<1>2. PICK T : T = Monitoring(cm)
  OBVIOUS
<1>3. S \in SUBSET Hosts
  BY <1>1 DEF Monitoring
<1>4. IsFiniteSet(S) /\ Cardinality(S) <= Cardinality(Hosts)
  BY <1>3, HostAssumption, FS_Subset
<1>5. Cardinality(S) \in Nat /\ Cardinality(Hosts) \in Nat
  BY <1>4, HostAssumption, FS_CardinalityType
<1>6. ASSUME NEW h \in Hosts, \A x \in Hosts : x # h => cm[x].monitor = cn[x].monitor
      PROVE  Cardinality(T) = IF cn[h].monitor = cm[h].monitor THEN Cardinality(S)
                   ELSE IF cm[h].monitor = TRUE /\ cn[h].monitor = FALSE
                        THEN Cardinality(S) + 1
                   ELSE IF cm[h].monitor = FALSE /\ cn[h].monitor = TRUE
                        THEN Cardinality(S) - 1
                   ELSE Cardinality(T)
  <2>1. CASE cn[h].monitor = cm[h].monitor
    <3>1. S = T
      BY <1>1, <1>2, <1>6, <2>1 DEF Monitoring
    <3> QED BY <2>1, <3>1
  <2>2. CASE cm[h].monitor = TRUE /\ cn[h].monitor = FALSE
    <3>1. T = S \cup {h} /\ h \notin S
      BY <1>1, <1>2, <1>6, <2>2 DEF Monitoring
    <3>2. Cardinality(T) = Cardinality(S) + 1
      BY <1>4, <3>1, FS_AddElement
    <3> QED BY <2>2, <3>2
  <2>3. CASE cm[h].monitor = FALSE /\ cn[h].monitor = TRUE
    <3>1. T = S \ {h} /\ h \in S
      BY <1>1, <1>2, <1>6, <2>3 DEF Monitoring
    <3>2. Cardinality(T) = Cardinality(S) - 1
      BY <1>4, <3>1, FS_RemoveElement
    <3> QED BY <2>3, <3>2
  <2> QED BY <2>1, <2>2, <2>3
<1>7. Cardinality(S) \in 0..Cardinality(Hosts)
  BY <1>4, <1>5
<1> QED BY <1>1, <1>2, <1>6, <1>7

(* The types follow.                                                       *)
LEMMA InvTyped == ClientInv => TypeOK
<1> SUFFICES ASSUME ClientInv PROVE TypeOK
  OBVIOUS
<1>1. \A h \in Hosts : conn[h].open \/ conn[h] = NoConn
  BY DEF ClientInv, Settled, Good
<1>2. monitor_count \in 0..Cardinality(Hosts)
  BY CountMonitors DEF ClientInv
<1> QED BY <1>1, <1>2 DEF ClientInv, World, States, TypeOK

(* The numbers in a STATE notification.                                    *)
LEMMA NowTyped ==
    ASSUME NEW sp
    PROVE  Now(sp) \in (-1..SPOOL_MAX_ID) \X (-1..SPOOL_MAX_ID)
<1>1. SPOOL_MAX_ID \in Nat \ {0}
  BY IdAssumption
<1>2. IsFiniteSet(Ids) /\ Cardinality(Ids) = SPOOL_MAX_ID
  <2>1. /\ IsFiniteSet(1..SPOOL_MAX_ID)
        /\ Cardinality(1..SPOOL_MAX_ID) =
              IF 1 > SPOOL_MAX_ID THEN 0 ELSE SPOOL_MAX_ID - 1 + 1
    BY <1>1, FS_Interval
  <2>2. ~(1 > SPOOL_MAX_ID) /\ SPOOL_MAX_ID - 1 + 1 = SPOOL_MAX_ID
    BY <1>1
  <2> QED BY <2>1, <2>2 DEF Ids
<1>3. ASSUME NEW S \in SUBSET Ids PROVE Cardinality(S) \in -1..SPOOL_MAX_ID
  <2>1. IsFiniteSet(S) /\ Cardinality(S) <= SPOOL_MAX_ID
    BY <1>2, FS_Subset
  <2>2. Cardinality(S) \in Nat
    BY <2>1, FS_CardinalityType
  <2> QED BY <1>1, <2>1, <2>2
<1>4. Playing(sp) \in -1..SPOOL_MAX_ID /\ Paused(sp) \in -1..SPOOL_MAX_ID
  BY <1>3 DEF Playing, Paused
<1> QED BY <1>4 DEF Now

(* spool_id finds a free id.                                               *)
LEMMA FreeId ==
    ASSUME World, HasFree
    PROVE  spool_id \in Ids
<1>1. SPOOL_MAX_ID \in Nat \ {0} /\ last_id \in 0..SPOOL_MAX_ID
  BY IdAssumption DEF World
<1> DEFINE after(n) == ((last_id + n - 1) % SPOOL_MAX_ID) + 1
           free == {n \in 1..SPOOL_MAX_ID : spool[after(n)] = "none"}
<1>2. ASSUME NEW x \in 0..(2 * SPOOL_MAX_ID - 1)
      PROVE  x % SPOOL_MAX_ID = IF x < SPOOL_MAX_ID THEN x ELSE x - SPOOL_MAX_ID
  <2>1. PICK M \in Nat \ {0} : M = SPOOL_MAX_ID
    BY <1>1
  <2>2. PICK q, s : q = x \div M /\ s = x % M
    OBVIOUS
  <2>3. q \in Int /\ s \in 0..(M - 1) /\ x = M * q + s
    BY <2>1, <2>2
  <2>4. ~(q < 0)
    <3> SUFFICES ASSUME q < 0 PROVE FALSE
      OBVIOUS
    <3>1. PICK e \in Nat : q = -1 - e
      BY <2>3
    <3>2. M * q = -M - M * e /\ M * e >= 0
      BY <2>1, <3>1
    <3> QED BY <2>1, <2>3, <3>2
  <2>5. ~(q > 1)
    <3> SUFFICES ASSUME q > 1 PROVE FALSE
      OBVIOUS
    <3>1. PICK e \in Nat : q = 2 + e
      BY <2>3
    <3>2. M * q = 2 * M + M * e /\ M * e >= 0
      BY <2>1, <3>1
    <3>3. x < 2 * M
      BY <2>1
    <3> QED BY <2>1, <2>3, <3>2, <3>3
  <2>6. q \in {0, 1}
    BY <2>3, <2>4, <2>5
  <2>7. CASE q = 0
    <3>1. x = s
      BY <2>1, <2>3, <2>7
    <3> QED BY <2>1, <2>2, <2>3, <3>1
  <2>8. CASE q = 1
    <3>1. x = M + s
      BY <2>1, <2>3, <2>8
    <3> QED BY <2>1, <2>2, <2>3, <3>1
  <2> QED BY <2>6, <2>7, <2>8
<1>3. PICK i \in 1..SPOOL_MAX_ID : spool[i] = "none"
  BY DEF HasFree, Ids
<1>4. free # {}
  <2>1. PICK n \in 1..SPOOL_MAX_ID : n = IF i > last_id THEN i - last_id
                                         ELSE i - last_id + SPOOL_MAX_ID
    <3>1. i > last_id => i - last_id \in 1..SPOOL_MAX_ID
      BY <1>1
    <3>2. ~(i > last_id) => i - last_id + SPOOL_MAX_ID \in 1..SPOOL_MAX_ID
      BY <1>1
    <3> QED BY <3>1, <3>2
  <2>2. last_id + n - 1 \in 0..(2 * SPOOL_MAX_ID - 1)
    BY <1>1
  <2>3. last_id + n - 1 = (IF i > last_id THEN i - 1 ELSE i - 1 + SPOOL_MAX_ID)
    BY <1>1, <2>1
  <2>4. (last_id + n - 1) % SPOOL_MAX_ID = i - 1
    <3>1. PICK x \in 0..(2 * SPOOL_MAX_ID - 1) : x = last_id + n - 1
      BY <2>2
    <3>2. x % SPOOL_MAX_ID = IF x < SPOOL_MAX_ID THEN x ELSE x - SPOOL_MAX_ID
      BY <1>2
    <3>3. (IF x < SPOOL_MAX_ID THEN x ELSE x - SPOOL_MAX_ID) = i - 1
      BY <1>1, <2>3, <3>1
    <3> QED BY <3>1, <3>2, <3>3
  <2>5. after(n) = i
    BY <1>1, <2>4
  <2>6. n \in free
    BY <1>3, <2>1, <2>5
  <2> QED BY <2>6
<1>5. \E n \in free : \A m \in free : n <= m
  <2>1. free \subseteq Nat
    OBVIOUS
  <2> HIDE DEF free
  <2> QED BY <1>4, <2>1, LeastIn
<1>6. PICK n \in free : n = CHOOSE a \in free : \A m \in free : a <= m
  <2> HIDE DEF free
  <2> QED BY <1>5
<1>7. spool_id = after(n)
  BY <1>6 DEF spool_id
<1>8. n \in Nat \ {0}
  <2>1. \A m \in free : m \in Nat \ {0}
    BY <1>1
  <2> HIDE DEF free
  <2> QED BY <2>1
<1>9. (last_id + n - 1) % SPOOL_MAX_ID \in 0..(SPOOL_MAX_ID - 1)
  BY <1>1, <1>8
<1>10. after(n) \in Ids
  BY <1>1, <1>9 DEF Ids
<1> QED BY <1>7, <1>10


(* Later, when some entries may be over, those who heard are settled.      *)
LEMMA Listen ==
    ASSUME NEW c, NEW sp, Settled(c, sp), NEW d, Heard(c, d), NEW sp2,
           \A i \in Ids : sp2[i] = "none" => sp[i] = "none" \/ NoOwn(d, i)
    PROVE  Settled(d, sp2)
<1>1. d \in CONNECTION /\ Good(d) /\ c \in CONNECTION
  BY DEF Heard, Same, Settled
<1>2. d.open /\ d.q = <<>> => d.blank
  BY DEF Heard, Same, Settled
<1>3. ASSUME d.open, d.mask = {}, ~d.answered
      PROVE  \E a \in 1..Len(d.q) : d.q[a].type = "NOTIFY"
  <2>1. c.open /\ c.mask = {} /\ ~c.answered
    BY <1>3 DEF Heard, Same
  <2>2. PICK a \in 1..Len(c.q) : c.q[a].type = "NOTIFY"
    BY <2>1 DEF Settled
  <2>3. PICK b \in 1..Len(d.q) : d.q[b] = c.q[a]
    BY <1>3, <2>1, <2>2 DEF Heard
  <2> QED BY <2>2, <2>3
<1>4. ASSUME d.mask = {}, NEW b \in 1..Len(d.q), d.q[b].own
      PROVE  sp2[d.q[b].id] # "none"
  <2>1. EventOK(d.q[b], d.monitor)
    BY <1>1 DEF Good
  <2>2. Reader(d.q[b]) /\ d.q[b].id \in Ids
    BY <1>4, <2>1 DEF EventOK, Reader
  <2>3. PICK a \in 1..Len(c.q) : c.q[a] = d.q[b]
    BY <2>2 DEF Heard
  <2>4. c.mask = {}
    BY <1>4 DEF Heard, Same
  <2>5. sp[d.q[b].id] # "none"
    BY <1>4, <2>3, <2>4 DEF Settled
  <2>6. ~NoOwn(d, d.q[b].id)
    BY <1>4 DEF NoOwn
  <2> QED BY <2>2, <2>5, <2>6
<1> QED BY <1>1, <1>2, <1>3, <1>4 DEF Settled

(* In a step: those in L are in the middle of a command, the others        *)
(* settled with the entries sp.                                            *)
Midway(cn, L, sp) ==
    /\ cn \in [Hosts -> CONNECTION]
    /\ \A x \in Hosts : /\ cn[x].monitor = conn[x].monitor
                        /\ x \in L => Bare(cn[x]) /\ (cn[x].mask = {} => cn[x].q = <<>>)
                        /\ x \notin L => Settled(cn[x], sp)

LEMMA MidwayCalm ==
    ASSUME NEW n \in Noted, NEW L, NEW sp, Midway(n.conn, L, sp)
    PROVE  n \in Calm
BY DEF Midway, Bare, Settled, Calm

(* Notifications in the middle of a step, of entries that are over too.    *)
LEMMA NotesMidway ==
    ASSUME NEW n \in Noted, NEW L, NEW sp, Midway(n.conn, L, sp),
           NEW notes, Len(notes) \in Nat, NEW sp1, NEW only \in SUBSET Hosts, NEW sp2,
           \A i \in Ids : sp2[i] = "none" =>
               \/ sp[i] = "none"
               \/ only = Hosts /\ \E b \in 1..Len(notes) :
                                     notes[b].kind = "done" /\ notes[b].id = i
    PROVE  LET m == Notes(n, notes, Now(sp1), only)
           IN  m \in Noted /\ Midway(m.conn, L, sp2)
<1>1. PICK m : m = Notes(n, notes, Now(sp1), only)
  OBVIOUS
<1>2. PICK now \in (-1..SPOOL_MAX_ID) \X (-1..SPOOL_MAX_ID) : now = Now(sp1)
  BY NowTyped
<1>3. n \in Calm
  BY MidwayCalm
<1>4. NotesDone(n, m, notes, only)
  BY <1>1, <1>2, <1>3, NotesHear
<1>5. m \in Noted /\ \A x \in Hosts : Heard(n.conn[x], m.conn[x])
  BY <1>4 DEF NotesDone, Hears
<1>6. m.conn \in [Hosts -> CONNECTION]
  BY <1>5 DEF Noted
<1>7. ASSUME NEW x \in Hosts PROVE m.conn[x].monitor = conn[x].monitor
  BY <1>5 DEF Heard, Same, Midway
<1>8. ASSUME NEW x \in Hosts, x \in L
      PROVE  Bare(m.conn[x]) /\ (m.conn[x].mask = {} => m.conn[x].q = <<>>)
  <2>1. Bare(n.conn[x]) /\ (n.conn[x].mask = {} => n.conn[x].q = <<>>)
    BY <1>8 DEF Midway
  <2> QED BY <1>5, <2>1, BareHears
<1>9. ASSUME NEW x \in Hosts, x \notin L PROVE Settled(m.conn[x], sp2)
  <2>1. Settled(n.conn[x], sp) /\ Heard(n.conn[x], m.conn[x])
    BY <1>5, <1>9 DEF Midway
  <2>2. ASSUME NEW i \in Ids, sp2[i] = "none", sp[i] # "none"
        PROVE  NoOwn(m.conn[x], i)
    BY <1>4, <2>2 DEF NotesDone
  <2> QED BY <2>1, <2>2, Listen
<1>10. Midway(m.conn, L, sp2)
  BY <1>6, <1>7, <1>8, <1>9 DEF Midway
<1> QED BY <1>1, <1>5, <1>10

(* The beginning and the end of a step.                                    *)
LEMMA StateNoted ==
    ASSUME World, NEW cn \in [Hosts -> CONNECTION]
    PROVE  State(cn) \in Noted /\ State(cn).conn = cn
BY DEF World, State, Noted

LEMMA InvMidway ==
    ASSUME ClientInv
    PROVE  Midway(conn, {}, spool)
BY DEF ClientInv, Midway

LEMMA WithMidway ==
    ASSUME ClientInv, NEW h \in Hosts, NEW d, Settled(d, spool),
           d.monitor = conn[h].monitor
    PROVE  Midway(With(h, d), {}, spool)
<1>1. PICK cn : cn = With(h, d)
  OBVIOUS
<1>2. /\ cn \in [Hosts -> CONNECTION] /\ cn[h] = d
      /\ \A x \in Hosts : x # h => cn[x] = conn[x]
  BY <1>1 DEF With, ClientInv, Settled
<1>3. Midway(cn, {}, spool)
  BY <1>2 DEF Midway, ClientInv
<1> QED BY <1>1, <1>3

LEMMA BareMidway ==
    ASSUME ClientInv, NEW h \in Hosts, NEW d, Bare(d), d.mask = {} => d.q = <<>>,
           d.monitor = conn[h].monitor
    PROVE  Midway(With(h, d), {h}, spool)
<1>1. PICK cn : cn = With(h, d)
  OBVIOUS
<1>2. /\ cn \in [Hosts -> CONNECTION] /\ cn[h] = d
      /\ \A x \in Hosts : x # h => cn[x] = conn[x]
  BY <1>1 DEF With, ClientInv, Bare
<1>3. Midway(cn, {h}, spool)
  BY <1>2 DEF Midway, ClientInv
<1> QED BY <1>1, <1>3

LEMMA TookMidway ==
    ASSUME ClientInv, NEW h \in Hosts, CanRead(h)
    PROVE  /\ Midway(With(h, Took(h)), {h}, spool)
           /\ Bare(Took(h)) /\ Took(h).monitor = conn[h].monitor /\ ~conn[h].monitor
           /\ Took(h).mask = {} => Took(h).q = <<>>
<1>1. conn[h] \in CONNECTION /\ Good(conn[h])
  BY DEF ClientInv, Settled
<1>2. /\ Bare(Took(h)) /\ Took(h).mask = conn[h].mask
      /\ Took(h).mask = {} => Took(h).q = <<>>
      /\ ~conn[h].monitor
  BY <1>1, TookBare
<1>3. Took(h).monitor = conn[h].monitor
  <2>1. Took(h).monitor = FALSE /\ conn[h].monitor = FALSE
    BY <1>1, <1>2 DEF Bare, CONNECTION
  <2> QED BY <2>1
<1>4. Midway(With(h, Took(h)), {h}, spool)
  BY <1>2, <1>3, BareMidway
<1> QED BY <1>2, <1>3, <1>4

(* The reply, or the wait, at the end of a command.                        *)
LEMMA RepliedMidway ==
    ASSUME NEW h \in Hosts, NEW cn, NEW sp, Midway(cn, {h}, sp)
    PROVE  Midway(Replied(h, cn), {}, sp)
<1>1. PICK d : d = connection_reply(cn[h])
  OBVIOUS
<1>2. PICK cm : cm = Replied(h, cn)
  OBVIOUS
<1>3. Bare(cn[h])
  BY DEF Midway
<1>4. Bare(d) /\ d.answered /\ d.q # <<>> /\ d.monitor = cn[h].monitor
  BY <1>1, <1>3, ReplyBare
<1>5. Settled(d, sp) /\ d \in CONNECTION
  BY <1>4, BareSettled DEF Bare
<1>6. cn \in [Hosts -> CONNECTION]
  BY DEF Midway
<1>7. /\ cm \in [Hosts -> CONNECTION] /\ cm[h] = d
      /\ \A x \in Hosts : x # h => cm[x] = cn[x]
  BY <1>1, <1>2, <1>5, <1>6 DEF Replied
<1>8. Midway(cm, {}, sp)
  BY <1>4, <1>5, <1>7 DEF Midway
<1> QED BY <1>2, <1>8

LEMMA WaitMidway ==
    ASSUME NEW h \in Hosts, NEW cn, NEW sp, Midway(cn, {h}, sp),
           NEW w \in EVENT, w.type = "NOTIFY",
           w.own => "done" \in w.wait /\ w.id \in Ids /\ sp[w.id] # "none"
    PROVE  Midway([cn EXCEPT ![h] = event_insert(@, w)], {}, sp)
<1>1. PICK d : d = event_insert(cn[h], w)
  OBVIOUS
<1>2. PICK cm : cm = [cn EXCEPT ![h] = event_insert(@, w)]
  OBVIOUS
<1>3. Bare(cn[h]) /\ (cn[h].mask = {} => cn[h].q = <<>>)
  BY DEF Midway
<1>4. Settled(d, sp) /\ d \in CONNECTION /\ ~d.monitor
  BY <1>1, <1>3, WaitSettled DEF Settled
<1>5. cn \in [Hosts -> CONNECTION]
  BY DEF Midway
<1>6. /\ cm \in [Hosts -> CONNECTION] /\ cm[h] = d
      /\ \A x \in Hosts : x # h => cm[x] = cn[x]
  BY <1>1, <1>2, <1>4, <1>5
<1>7. d.monitor = cn[h].monitor
  <2>1. d.monitor = FALSE /\ cn[h].monitor = FALSE
    BY <1>3, <1>4 DEF Bare, CONNECTION
  <2> QED BY <2>1
<1>8. Midway(cm, {}, sp)
  BY <1>4, <1>6, <1>7 DEF Midway
<1> QED BY <1>2, <1>8

(* A step that leaves the monitor clients what they are.                   *)
LEMMA MidwayInv ==
    ASSUME ClientInv, Midway(conn', {}, spool'), World',
           monitor_count' = monitor_count, ring => ring'
    PROVE  ClientInv'
<1>1. conn' \in [Hosts -> CONNECTION] /\ \A x \in Hosts : Settled(conn'[x], spool')
  BY DEF Midway
<1>2. Monitoring(conn') = Monitoring(conn)
  BY DEF Midway, Monitoring
<1>3. monitor_count' = Cardinality(Monitoring(conn'))
  BY <1>2 DEF ClientInv
<1>4. monitor_count' > 0 => ring'
  BY DEF ClientInv
<1> QED BY <1>1, <1>3, <1>4 DEF ClientInv

(* A step of one connection.                                               *)
LEMMA LocalStep ==
    ASSUME ClientInv, NEW h \in Hosts, NEW d, Settled(d, spool),
           d.monitor = conn[h].monitor, conn' = With(h, d),
           UNCHANGED <<spool, last_id, prev, kept, monitor_count, ring, monitor_update>>,
           need_to_reset' \in BOOLEAN
    PROVE  ClientInv'
<1>1. Midway(conn', {}, spool')
  BY WithMidway
<1>2. World'
  BY DEF ClientInv, World
<1> QED BY <1>1, <1>2, MidwayInv


-----------------------------------------------------------------------------
(* What the actions of one connection make of it.                          *)

(* The first event becomes w: c becomes d, with the queue r.               *)
HeadBecomes(c, w, r, ans, d) ==
    /\ c.open /\ c.q # <<>> /\ w \in EVENT /\ EventOK(w, c.monitor) /\ w.own = FALSE
    /\ Reader(w) => Reader(c.q[1])
    /\ c.monitor /\ Buffers(c.q[1]) => Buffers(w)
    /\ r \in Seq(EVENT) /\ Len(r) = Len(c.q)
    /\ \A j \in 1..Len(c.q) : r[j] = IF j = 1 THEN w ELSE c.q[j]
    /\ ans \in BOOLEAN
    /\ ans = TRUE \/ (ans = c.answered /\ c.q[1].type # "NOTIFY")
    /\ d = [c EXCEPT !.q = r, !.answered = ans]
LEMMA HeadReplaced ==
    ASSUME NEW c, NEW sp, Settled(c, sp), NEW w, NEW r, NEW ans,
           NEW d, HeadBecomes(c, w, r, ans, d)
    PROVE  Settled(d, sp) /\ d.monitor = c.monitor
<1> USE DEF HeadBecomes
<1>1. c \in CONNECTION /\ Good(c) /\ c.q \in Seq(EVENT) /\ Len(c.q) \in Nat \ {0}
  BY EmptySeq DEF Settled, CONNECTION
<1>2. /\ d \in CONNECTION /\ d.q = r /\ d.mask = c.mask /\ d.monitor = c.monitor
      /\ d.open = c.open /\ d.blank = c.blank /\ d.answered = ans
  BY <1>1 DEF CONNECTION
<1>3. \A a \in 1..Len(r) : Reader(r[a]) => Reader(c.q[a])
  <2> SUFFICES ASSUME NEW a \in 1..Len(r), Reader(r[a]) PROVE Reader(c.q[a])
    OBVIOUS
  <2>1. CASE a = 1
    <3>1. r[a] = w
      BY <2>1
    <3> QED BY <2>1, <3>1
  <2>2. CASE a # 1
    BY <2>2
  <2> QED BY <2>1, <2>2
<1>4. Good(d)
  <2>1. \A a \in 1..Len(r) : EventOK(r[a], c.monitor)
    BY <1>1 DEF Good
  <2>2. \A a, b \in 1..Len(r) : Reader(r[a]) /\ Reader(r[b]) => a = b
    BY <1>1, <1>3 DEF Good
  <2>3. c.mask = {} => \A a \in 1..Len(r) : Reader(r[a]) => Len(r) = 1
    BY <1>1, <1>3 DEF Good
  <2>4. c.monitor => \A a \in 1..Len(r) : ~Reader(r[a])
    BY <1>1, <1>3 DEF Good
  <2>5. ASSUME c.monitor PROVE \E a \in 1..Len(r) : Buffers(r[a])
    <3>1. PICK a \in 1..Len(c.q) : Buffers(c.q[a])
      BY <1>1, <2>5 DEF Good
    <3>2. Buffers(r[a])
      BY <2>5, <3>1
    <3> QED BY <3>1, <3>2
  <2> QED BY <1>2, <2>1, <2>2, <2>3, <2>4, <2>5 DEF Good
<1>5. d.q # <<>>
  BY <1>1, <1>2, EmptySeq
<1>6. ASSUME c.mask = {}, ~ans PROVE FALSE
  <2>1. ans = c.answered /\ c.q[1].type # "NOTIFY"
    BY <1>6
  <2>2. PICK a \in 1..Len(c.q) : c.q[a].type = "NOTIFY"
    BY <1>6, <2>1 DEF Settled
  <2>3. Len(c.q) = 1
    BY <1>1, <1>6, <2>2 DEF Good, Reader
  <2> QED BY <2>1, <2>2, <2>3
<1>7. c.mask = {} => \A a \in 1..Len(r) : r[a].own => sp[r[a].id] # "none"
  BY DEF Settled
<1>8. Settled(d, sp)
  BY <1>2, <1>4, <1>5, <1>6, <1>7 DEF Settled
<1> QED BY <1>2, <1>8

(* event_replace of a queue that is not empty.                             *)
LEMMA ReplaceIs ==
    ASSUME NEW c \in CONNECTION, c.q # <<>>, NEW w \in EVENT
    PROVE  \E r \in Seq(EVENT) :
              /\ event_replace(c, w) = [c EXCEPT !.q = r] /\ Len(r) = Len(c.q)
              /\ \A j \in 1..Len(c.q) : r[j] = IF j = 1 THEN w ELSE c.q[j]
<1>1. c.q \in Seq(EVENT) /\ Len(c.q) \in Nat \ {0}
  BY EmptySeq DEF CONNECTION
<1>2. PICK t : t = Tail(c.q)
  OBVIOUS
<1>3. t \in Seq(EVENT) /\ Len(t) = Len(c.q) - 1 /\ \A i \in 1..Len(t) : t[i] = c.q[i + 1]
  BY <1>1, <1>2, HeadTailProperties
<1>4. PICK v : v = <<w>>
  OBVIOUS
<1>5. v \in Seq(EVENT) /\ Len(v) = 1 /\ v[1] = w
  BY <1>4
<1>6. PICK r : r = v \o t
  OBVIOUS
<1>7. /\ r \in Seq(EVENT) /\ Len(r) = Len(v) + Len(t)
      /\ \A j \in 1..(Len(v) + Len(t)) : r[j] = IF j <= Len(v) THEN v[j] ELSE t[j - Len(v)]
  <2>1. v \in Seq(EVENT) /\ t \in Seq(EVENT)
    BY <1>3, <1>5
  <2> QED BY <1>6, <2>1, ConcatProperties
<1>8. Len(v) + Len(t) = Len(c.q)
  BY <1>1, <1>3, <1>5
<1>9. ASSUME NEW j \in 1..Len(c.q), j # 1 PROVE r[j] = c.q[j]
  <2>1. PICK i \in 1..Len(t) : i = j - 1
    BY <1>1, <1>3, <1>9
  <2>2. r[j] = t[j - 1]
    BY <1>5, <1>7, <1>8, <1>9
  <2>3. t[i] = c.q[i + 1] /\ i + 1 = j
    BY <1>3, <2>1
  <2> QED BY <2>1, <2>2, <2>3
<1>10. r[1] = w
  BY <1>1, <1>5, <1>7, <1>8
<1>11. event_replace(c, w) = [c EXCEPT !.q = r]
  BY <1>2, <1>4, <1>6 DEF event_replace
<1> QED BY <1>7, <1>8, <1>9, <1>10, <1>11

(* The first event is done with: its place is not left empty.              *)
LEMMA DeletedGood ==
    ASSUME NEW c \in CONNECTION, Good(c), c.open, c.q # <<>>, ~Buffers(c.q[1])
    PROVE  LET d == event_delete(c)
           IN  /\ d \in CONNECTION /\ Good(d) /\ d.q # <<>> /\ d.mask = c.mask
               /\ d.monitor = c.monitor /\ d.open = c.open /\ d.answered = c.answered
               /\ c.mask = {} => \A a \in 1..Len(d.q) : d.q[a].own = FALSE
<1>1. c.q \in Seq(EVENT) /\ Len(c.q) \in Nat \ {0}
  BY EmptySeq DEF CONNECTION
<1>2. PICK t : t = Tail(c.q)
  OBVIOUS
<1>3. t \in Seq(EVENT) /\ Len(t) = Len(c.q) - 1 /\ \A i \in 1..Len(t) : t[i] = c.q[i + 1]
  BY <1>1, <1>2, HeadTailProperties
<1>4. PICK next : next = IF c.mask # {} THEN Event("NOTIFY") ELSE Event("READ_COMMAND")
  OBVIOUS
<1>5. next \in EVENT /\ Reader(next) /\ EventOK(next, c.monitor) /\ next.own = FALSE
  <2>1. next \in {Event("NOTIFY"), Event("READ_COMMAND")}
    BY <1>4
  <2>2. /\ next \in EVENT /\ next.type \in {"NOTIFY", "READ_COMMAND"}
        /\ next.own = FALSE /\ next.wait = {}
    BY <2>1, EventTyped DEF EventTypes
  <2> QED BY <2>2 DEF Reader, EventOK, Monitors
<1>6. PICK r : r = IF t = <<>> THEN <<next>> ELSE t
  OBVIOUS
<1>7. PICK d : d = event_delete(c)
  OBVIOUS
<1>8. r \in Seq(EVENT) /\ r # <<>>
  BY <1>3, <1>5, <1>6
<1>9. /\ d \in CONNECTION /\ d.q = r /\ d.mask = c.mask /\ d.monitor = c.monitor
      /\ d.open = c.open /\ d.answered = c.answered
  <2>1. d = [c EXCEPT !.q = r, !.blank = FALSE]
    BY <1>2, <1>4, <1>6, <1>7 DEF event_delete
  <2> QED BY <1>8, <2>1 DEF CONNECTION
<1>10. CASE t = <<>>
  <2>1. Len(c.q) = 1
    BY <1>1, <1>3, <1>10, EmptySeq
  <2>2. ~c.monitor
    BY <2>1 DEF Good
  <2>3. Len(r) = 1 /\ r[1] = next
    BY <1>6, <1>10
  <2>4. \A a \in 1..Len(r) : r[a] = next /\ a = 1
    BY <2>3
  <2>5. Good(d)
    BY <1>5, <1>9, <2>2, <2>3, <2>4 DEF Good
  <2> QED BY <1>5, <1>7, <1>8, <1>9, <2>4, <2>5
<1>11. CASE t # <<>>
  <2>1. r = t
    BY <1>6, <1>11
  <2>2. Len(t) # 0
    BY <1>3, <1>11, EmptySeq
  <2>3. \A a \in 1..Len(t) : a + 1 \in 1..Len(c.q) /\ t[a] = c.q[a + 1]
    BY <1>1, <1>3
  <2>4. \A a \in 1..Len(t) : EventOK(t[a], c.monitor)
    BY <2>3 DEF Good
  <2>5. ASSUME NEW a \in 1..Len(t), NEW b \in 1..Len(t), Reader(t[a]), Reader(t[b])
        PROVE  a = b
    <3>1. a + 1 = b + 1
      BY <2>3, <2>5 DEF Good
    <3> QED BY <3>1
  <2>6. ASSUME c.mask = {}, NEW a \in 1..Len(t) PROVE ~Reader(t[a])
    <3>1. Len(c.q) # 1
      BY <1>1, <1>3, <2>2
    <3> QED BY <2>3, <2>6, <3>1 DEF Good
  <2>7. c.monitor => \A a \in 1..Len(t) : ~Reader(t[a])
    BY <2>3 DEF Good
  <2>8. ASSUME c.monitor PROVE \E a \in 1..Len(t) : Buffers(t[a])
    <3>1. PICK a \in 1..Len(c.q) : Buffers(c.q[a])
      BY <2>8 DEF Good
    <3>2. a # 1
      BY <3>1
    <3>3. PICK b \in 1..Len(t) : b = a - 1
      BY <1>1, <1>3, <3>2
    <3>4. b + 1 = a
      BY <3>3
    <3> QED BY <2>3, <3>1, <3>3, <3>4
  <2>9. Good(d)
    BY <1>9, <2>1, <2>4, <2>5, <2>6, <2>7, <2>8 DEF Good
  <2>10. ASSUME c.mask = {}, NEW a \in 1..Len(t) PROVE t[a].own = FALSE
    <3>1. t[a] \in EVENT
      BY <1>3
    <3>2. EventOK(t[a], c.monitor) /\ ~Reader(t[a])
      BY <2>4, <2>6, <2>10
    <3>3. ~t[a].own
      BY <3>2 DEF EventOK, Reader
    <3> QED BY <3>1, <3>3 DEF EVENT
  <2> QED BY <1>7, <1>8, <1>9, <2>1, <2>9, <2>10
<1> QED BY <1>10, <1>11

(* A new client, and one that has gone.                                    *)
LEMMA ClosedSettled ==
    ASSUME NEW sp
    PROVE  NoConn \in CONNECTION /\ Settled(NoConn, sp) /\ NoConn.monitor = FALSE
<1>1. PICK q \in Seq(EVENT) : q = <<>>
  BY EmptySeq
<1>2. Len(q) = 0 /\ 1..Len(q) = {}
  BY <1>1, EmptySeq
<1>3. PICK c : c = NoConn
  OBVIOUS
<1>4. c = [open |-> FALSE, q |-> q, mask |-> {}, id |-> 0, monitor |-> FALSE,
           answered |-> TRUE, blank |-> FALSE]
  BY <1>1, <1>3 DEF NoConn
<1>5. c \in CONNECTION
  BY <1>4 DEF CONNECTION
<1>6. ~c.open /\ ~c.monitor /\ c.q = q
  BY <1>4
<1>7. Good(c)
  BY <1>2, <1>3, <1>6 DEF Good
<1>8. Settled(c, sp)
  BY <1>2, <1>5, <1>6, <1>7 DEF Settled
<1> QED BY <1>3, <1>4, <1>5, <1>8

LEMMA OpenedSettled ==
    ASSUME NEW sp, NEW d, d = [NoConn EXCEPT !.open = TRUE, !.q = <<Write("reply")>>]
    PROVE  Settled(d, sp) /\ d.monitor = FALSE
<1>1. PICK w : w = Write("reply")
  OBVIOUS
<1>2. Plain(w) /\ w \in EVENT
  BY <1>1, EventTyped DEF Plain
<1>3. PICK q : q = <<w>>
  OBVIOUS
<1>4. q \in Seq(EVENT) /\ Len(q) = 1 /\ q[1] = w /\ q # <<>>
  BY <1>2, <1>3
<1>5. /\ d.open /\ d.q = q /\ d.monitor = FALSE /\ d.mask = {} /\ d.answered
      /\ d \in CONNECTION
  BY <1>1, <1>3, <1>4 DEF NoConn, CONNECTION
<1>6. \A a \in 1..Len(q) : q[a] = w
  BY <1>4
<1>7. EventOK(w, d.monitor) /\ ~Reader(w)
  BY <1>2, PlainOK DEF Plain
<1>8. Bare(d)
  BY <1>5, <1>6, <1>7 DEF Bare, Good
<1>9. Settled(d, sp)
  BY <1>4, <1>5, <1>8, BareSettled
<1> QED BY <1>5, <1>9


-----------------------------------------------------------------------------
(* The actions of one connection.                                          *)

LEMMA OpenKept == \A h \in Hosts : ClientInv /\ connection_client_open(h) => ClientInv'
<1> SUFFICES ASSUME NEW h \in Hosts, ClientInv, connection_client_open(h) PROVE ClientInv'
  OBVIOUS
<1>1. PICK d : d = [NoConn EXCEPT !.open = TRUE, !.q = <<Write("reply")>>]
  OBVIOUS
<1>2. Settled(d, spool) /\ d.monitor = FALSE
  BY <1>1, OpenedSettled
<1>3. conn[h] = NoConn
  BY DEF connection_client_open, ClientInv, Settled, Good
<1>4. d.monitor = conn[h].monitor
  BY <1>2, <1>3, ClosedSettled
<1>5. conn' = With(h, d)
  BY <1>1 DEF connection_client_open, With
<1>6. need_to_reset' \in BOOLEAN
  BY DEF connection_client_open, ClientInv, World
<1>7. UNCHANGED <<spool, last_id, prev, kept, monitor_count, ring, monitor_update>>
  BY DEF connection_client_open
<1> QED BY <1>2, <1>4, <1>5, <1>6, <1>7, LocalStep

(* A client goes: it monitors no more.                                     *)
LEMMA CloseKept ==
    ASSUME ClientInv, NEW h \in Hosts, Close(h),
           UNCHANGED <<spool, last_id, prev, kept, ring, monitor_update, need_to_reset>>
    PROVE  ClientInv'
<1>1. /\ conn' \in [Hosts -> CONNECTION] /\ conn'[h] = NoConn
      /\ \A x \in Hosts : x # h => conn'[x] = conn[x]
  BY ClosedSettled DEF Close, ClientInv
<1>2. \A x \in Hosts : Settled(conn'[x], spool')
  BY <1>1, ClosedSettled DEF ClientInv
<1>3. conn'[h].monitor = FALSE /\ conn[h].monitor \in BOOLEAN
  BY <1>1, ClosedSettled DEF ClientInv, CONNECTION
<1>4. Cardinality(Monitoring(conn')) = IF conn[h].monitor THEN monitor_count - 1
                                       ELSE monitor_count
  <2>1. Cardinality(Monitoring(conn')) =
           IF conn[h].monitor = conn'[h].monitor THEN Cardinality(Monitoring(conn))
           ELSE IF conn'[h].monitor = TRUE /\ conn[h].monitor = FALSE
                THEN Cardinality(Monitoring(conn)) + 1
           ELSE IF conn'[h].monitor = FALSE /\ conn[h].monitor = TRUE
                THEN Cardinality(Monitoring(conn)) - 1
           ELSE Cardinality(Monitoring(conn'))
    BY <1>1, CountMonitors
  <2> QED BY <1>3, <2>1 DEF ClientInv
<1>5. monitor_count' = Cardinality(Monitoring(conn'))
  BY <1>4 DEF Close
<1>6. monitor_count' > 0 => ring'
  <2>1. monitor_count \in Nat
    <3>1. monitor_count \in 0..Cardinality(Hosts)
      BY CountMonitors DEF ClientInv
    <3> QED BY <3>1
  <2>2. monitor_count' > 0 => monitor_count > 0
    BY <2>1 DEF Close
  <2> QED BY <2>2 DEF ClientInv
<1>7. World'
  BY DEF ClientInv, World
<1> QED BY <1>1, <1>2, <1>5, <1>6, <1>7 DEF ClientInv

LEMMA HangupKept == \A h \in Hosts : ClientInv /\ Hangup(h) => ClientInv'
BY CloseKept DEF Hangup

LEMMA QuitKept == \A h \in Hosts : ClientInv /\ command_quit(h) => ClientInv'
BY CloseKept DEF command_quit

LEMMA TimeoutKept == \A h \in Hosts : ClientInv /\ connection_timeout(h) => ClientInv'
<1> SUFFICES ASSUME NEW h \in Hosts, ClientInv, connection_timeout(h) PROVE ClientInv'
  OBVIOUS
<1>1. PICK c : c = conn[h]
  OBVIOUS
<1>2. Settled(c, spool) /\ c \in CONNECTION /\ Good(c) /\ c.open
  BY <1>1 DEF ClientInv, Settled, connection_timeout
<1>3. PICK w : w = Event("WRITE_TIMEOUT")
  OBVIOUS
<1>4. w \in EVENT /\ w.type = "WRITE_TIMEOUT" /\ w.own = FALSE /\ w.wait = {}
  BY <1>3, EventTyped DEF EventTypes
<1>5. EventOK(w, c.monitor) /\ ~Reader(w) /\ Buffers(w)
  BY <1>4 DEF EventOK, Reader, Monitors, Buffers
<1>6. PICK d : d = event_replace(c, w)
  OBVIOUS
<1>7. Settled(d, spool) /\ d.monitor = c.monitor
  <2>1. CASE c.q = <<>>
    <3>1. Len(c.q) = 0 /\ 1..Len(c.q) = {}
      BY <2>1, EmptySeq
    <3>2. ~c.monitor /\ (c.mask = {} => c.answered)
      BY <1>2, <3>1 DEF Good, Settled
    <3>3. PICK q : q = <<w>>
      OBVIOUS
    <3>4. q \in Seq(EVENT) /\ Len(q) = 1 /\ q[1] = w /\ q # <<>>
      BY <1>4, <3>3
    <3>5. d = [c EXCEPT !.q = q]
      <4>1. <<w>> \o <<>> = <<w>>
        OBVIOUS
      <4> QED BY <1>6, <2>1, <3>3, <4>1 DEF event_replace
    <3>6. /\ d \in CONNECTION /\ d.q = q /\ d.mask = c.mask /\ d.monitor = c.monitor
          /\ d.open /\ d.answered = c.answered
      BY <1>2, <3>4, <3>5 DEF CONNECTION
    <3>7. \A a \in 1..Len(q) : q[a] = w
      BY <3>4
    <3>8. Good(d)
      BY <1>5, <3>2, <3>6, <3>7 DEF Good
    <3>9. \A a \in 1..Len(q) : q[a].own = FALSE
      BY <1>4, <3>7
    <3> QED BY <3>2, <3>4, <3>6, <3>8, <3>9 DEF Settled
  <2>2. CASE c.q # <<>>
    <3>1. PICK r \in Seq(EVENT) :
              /\ event_replace(c, w) = [c EXCEPT !.q = r] /\ Len(r) = Len(c.q)
              /\ \A j \in 1..Len(c.q) : r[j] = IF j = 1 THEN w ELSE c.q[j]
      BY <1>2, <1>4, <2>2, ReplaceIs
    <3>2. d = [c EXCEPT !.q = r, !.answered = c.answered] /\ c.answered \in BOOLEAN
      BY <1>2, <1>6, <3>1 DEF CONNECTION
    <3>3. c.q[1].type # "NOTIFY"
      BY <1>1, <1>2, <2>2, HeadIs DEF connection_timeout
    <3>4. HeadBecomes(c, w, r, c.answered, d)
      BY <1>2, <1>4, <1>5, <2>2, <3>1, <3>2, <3>3 DEF HeadBecomes
    <3> QED BY <1>2, <3>4, HeadReplaced
  <2> QED BY <2>1, <2>2
<1>8. conn' = With(h, d)
  BY <1>1, <1>3, <1>6 DEF connection_timeout, With
<1>9. need_to_reset' \in BOOLEAN
  BY DEF connection_timeout, ClientInv, World
<1>10. UNCHANGED <<spool, last_id, prev, kept, monitor_count, ring, monitor_update>>
  BY DEF connection_timeout
<1> QED BY <1>1, <1>7, <1>8, <1>9, <1>10, LocalStep


(* What an action of one connection leaves alone.                          *)
LEMMA OnlyKept ==
    ASSUME ClientInv, NEW h \in Hosts, NEW d, Settled(d, spool),
           d.monitor = conn[h].monitor, conn' = With(h, d), UNCHANGED Only
    PROVE  ClientInv'
<1>1. need_to_reset' \in BOOLEAN
  BY DEF Only, ClientInv, World
<1>2. UNCHANGED <<spool, last_id, prev, kept, monitor_count, ring, monitor_update>>
  BY DEF Only
<1> QED BY <1>1, <1>2, LocalStep

LEMMA WrittenKept == \A h \in Hosts : ClientInv /\ Written(h) => ClientInv'
<1> SUFFICES ASSUME NEW h \in Hosts, ClientInv, Written(h) PROVE ClientInv'
  OBVIOUS
<1>1. PICK c : c = conn[h]
  OBVIOUS
<1>2. Settled(c, spool) /\ c \in CONNECTION /\ Good(c)
  BY <1>1 DEF ClientInv, Settled
<1>3. UNCHANGED <<spool, last_id, prev, kept, ring, monitor_update, need_to_reset>>
  BY DEF Written
<1>4. ASSUME HeadOf(c).type \in {"WRITE", "WRITE_SOUND"}
      PROVE  /\ c.q # <<>> /\ HeadOf(c) = c.q[1] /\ 1 \in 1..Len(c.q) /\ c.open
             /\ c.q \in Seq(EVENT) /\ ~Buffers(c.q[1]) /\ ~Reader(c.q[1])
             /\ c.q[1].type # "NOTIFY"
  <2>1. c.q # <<>> /\ HeadOf(c) = c.q[1] /\ 1 \in 1..Len(c.q)
    BY <1>2, <1>4, HeadIs
  <2>2. c.open
    BY <1>2, <2>1 DEF Good, NoConn
  <2> QED BY <1>2, <1>4, <2>1, <2>2 DEF Buffers, Monitors, Reader, CONNECTION
<1>5. ASSUME HeadOf(c).type = "WRITE", conn' = [conn EXCEPT ![h].q[1] = Write("rest")],
             UNCHANGED monitor_count
      PROVE  ClientInv'
  <2>1. /\ c.q # <<>> /\ 1 \in 1..Len(c.q) /\ c.open /\ c.q \in Seq(EVENT)
        /\ ~Buffers(c.q[1]) /\ c.q[1].type # "NOTIFY"
    BY <1>4, <1>5
  <2>2. PICK w : w = Write("rest")
    OBVIOUS
  <2>3. Plain(w) /\ w \in EVENT /\ ~Reader(w) /\ w.own = FALSE /\ EventOK(w, c.monitor)
    <3>1. Plain(w)
      BY <2>2, EventTyped
    <3> QED BY <3>1, PlainOK DEF Plain
  <2>4. PICK r : r = [c.q EXCEPT ![1] = w]
    OBVIOUS
  <2>5. /\ r \in Seq(EVENT) /\ Len(r) = Len(c.q)
        /\ \A j \in 1..Len(c.q) : r[j] = IF j = 1 THEN w ELSE c.q[j]
    BY <2>1, <2>3, <2>4, ExceptSeq
  <2>6. PICK d : d = [c EXCEPT !.q = r, !.answered = c.answered]
    OBVIOUS
  <2>7. d = [c EXCEPT !.q = r] /\ c.answered \in BOOLEAN
    BY <1>2, <2>6 DEF CONNECTION
  <2>8. HeadBecomes(c, w, r, c.answered, d)
    BY <2>1, <2>3, <2>5, <2>6, <2>7 DEF HeadBecomes
  <2>9. Settled(d, spool) /\ d.monitor = c.monitor
    BY <1>2, <2>8, HeadReplaced
  <2>10. conn' = With(h, d)
    BY <1>1, <1>5, <2>2, <2>4, <2>7 DEF With
  <2>11. UNCHANGED Only
    BY <1>3, <1>5 DEF Only
  <2> QED BY <1>1, <2>9, <2>10, <2>11, OnlyKept
<1>6. ASSUME HeadOf(c).type \in {"WRITE", "WRITE_SOUND"},
             conn' = [conn EXCEPT ![h] = event_delete(@)], UNCHANGED monitor_count
      PROVE  ClientInv'
  <2>1. PICK d : d = event_delete(c)
    OBVIOUS
  <2>2. /\ d \in CONNECTION /\ Good(d) /\ d.q # <<>> /\ d.mask = c.mask
        /\ d.monitor = c.monitor /\ d.open = c.open /\ d.answered = c.answered
        /\ c.mask = {} => \A a \in 1..Len(d.q) : d.q[a].own = FALSE
    BY <1>2, <1>4, <1>6, <2>1, DeletedGood
  <2>3. c.open /\ c.mask = {} => c.answered
    <3> SUFFICES ASSUME c.open, c.mask = {}, ~c.answered PROVE FALSE
      OBVIOUS
    <3>1. PICK a \in 1..Len(c.q) : c.q[a].type = "NOTIFY"
      BY <1>2 DEF Settled
    <3>2. Len(c.q) = 1
      BY <1>2, <3>1 DEF Good, Reader
    <3> QED BY <1>4, <1>6, <3>1, <3>2
  <2>4. Settled(d, spool)
    BY <2>2, <2>3 DEF Settled
  <2>5. conn' = With(h, d)
    BY <1>1, <1>6, <2>1 DEF With
  <2>6. UNCHANGED Only
    BY <1>3, <1>6 DEF Only
  <2> QED BY <1>1, <2>2, <2>4, <2>5, <2>6, OnlyKept
<1>7. ASSUME Close(h) PROVE ClientInv'
  BY <1>3, <1>7, CloseKept
<1> QED BY <1>1, <1>5, <1>6, <1>7 DEF Written

LEMMA MonitorWrittenKept == \A h \in Hosts : ClientInv /\ MonitorWritten(h) => ClientInv'
<1> SUFFICES ASSUME NEW h \in Hosts, ClientInv, MonitorWritten(h) PROVE ClientInv'
  OBVIOUS
<1>1. PICK c : c = conn[h]
  OBVIOUS
<1>2. /\ Settled(c, spool) /\ c \in CONNECTION /\ Good(c) /\ HeadOf(c).type = "WRITE_MONITOR"
      /\ conn \in [Hosts -> CONNECTION]
  BY <1>1 DEF ClientInv, Settled, MonitorWritten
<1>3. /\ c.q # <<>> /\ 1 \in 1..Len(c.q) /\ c.q[1].type = "WRITE_MONITOR"
      /\ c.q \in Seq(EVENT)
  <2>1. c.q # <<>> /\ HeadOf(c) = c.q[1] /\ 1 \in 1..Len(c.q)
    BY <1>2, HeadIs
  <2> QED BY <1>2, <2>1 DEF CONNECTION
<1>4. c.open
  BY <1>2, <1>3 DEF Good, NoConn
<1>5. PICK e \in EVENT : e = c.q[1]
  BY <1>3
<1>6. EventOK(e, c.monitor) /\ e.type = "WRITE_MONITOR"
  BY <1>2, <1>3, <1>5 DEF Good
<1>7. c.monitor /\ e.own = FALSE /\ e.wait = {}
  <2>1. ~e.own /\ e.wait = {} /\ c.monitor
    BY <1>6 DEF EventOK, Monitors
  <2> QED BY <1>5, <2>1 DEF EVENT
<1>8. UNCHANGED Only
  BY DEF MonitorWritten, Only
<1>9. ASSUME conn' = [conn EXCEPT ![h].q[1].type = "WAIT_MONITOR"] PROVE ClientInv'
  <2>1. PICK w : w = [e EXCEPT !.type = "WAIT_MONITOR"]
    OBVIOUS
  <2>2. w \in EVENT /\ w.type = "WAIT_MONITOR" /\ w.own = FALSE /\ w.wait = {}
    <3>1. /\ w.type = "WAIT_MONITOR" /\ w.id = e.id /\ w.wait = e.wait /\ w.own = e.own
          /\ w.n = e.n /\ w.has = e.has /\ w.keep = e.keep /\ w.more = e.more
          /\ w = [type |-> w.type, id |-> w.id, wait |-> w.wait, own |-> w.own,
                  n |-> w.n, has |-> w.has, keep |-> w.keep, more |-> w.more]
      BY <2>1 DEF EVENT
    <3>2. w.type \in EventTypes
      BY <3>1 DEF EventTypes
    <3>3. w \in EVENT
      BY <3>1, <3>2 DEF EVENT
    <3> QED BY <1>7, <3>1, <3>3
  <2>3. ~Reader(w) /\ EventOK(w, c.monitor) /\ Buffers(w) /\ c.q[1].type # "NOTIFY"
    BY <1>3, <1>7, <2>2 DEF Reader, EventOK, Monitors, Buffers
  <2>4. PICK r : r = [c.q EXCEPT ![1] = w]
    OBVIOUS
  <2>5. /\ r \in Seq(EVENT) /\ Len(r) = Len(c.q)
        /\ \A j \in 1..Len(c.q) : r[j] = IF j = 1 THEN w ELSE c.q[j]
    BY <1>3, <2>2, <2>4, ExceptSeq
  <2>6. PICK d : d = [c EXCEPT !.q = r, !.answered = c.answered]
    OBVIOUS
  <2>7. d = [c EXCEPT !.q = r] /\ c.answered \in BOOLEAN
    BY <1>2, <2>6 DEF CONNECTION
  <2>8. HeadBecomes(c, w, r, c.answered, d)
    BY <1>3, <1>4, <2>2, <2>3, <2>5, <2>6, <2>7 DEF HeadBecomes
  <2>9. Settled(d, spool) /\ d.monitor = c.monitor
    BY <1>2, <2>8, HeadReplaced
  <2>10. conn' = With(h, d)
    BY <1>1, <1>5, <1>9, <2>1, <2>4, <2>7 DEF With
  <2> QED BY <1>1, <1>8, <2>9, <2>10, OnlyKept
<1>10. ASSUME UNCHANGED conn PROVE ClientInv'
  <2>1. conn' = With(h, c)
    BY <1>1, <1>2, <1>10 DEF With
  <2> QED BY <1>1, <1>2, <1>8, <2>1, OnlyKept
<1> QED BY <1>9, <1>10 DEF MonitorWritten

LEMMA PartialLineKept == \A h \in Hosts : ClientInv /\ PartialLine(h) => ClientInv'
<1> SUFFICES ASSUME NEW h \in Hosts, ClientInv, PartialLine(h) PROVE ClientInv'
  OBVIOUS
<1>1. PICK c : c = conn[h]
  OBVIOUS
<1>2. /\ Settled(c, spool) /\ c \in CONNECTION /\ Good(c) /\ c.open
      /\ HeadOf(c).type = "NOTIFY"
  BY <1>1 DEF ClientInv, Settled, PartialLine, CanRead
<1>3. c.q # <<>> /\ 1 \in 1..Len(c.q) /\ c.q[1].type = "NOTIFY"
  BY <1>2, HeadIs
<1>4. Reader(c.q[1]) /\ ~c.monitor
  BY <1>2, <1>3 DEF Good, Reader
<1>5. PICK w : w = Event("READ_COMMAND")
  OBVIOUS
<1>6. w \in EVENT /\ w.own = FALSE /\ EventOK(w, c.monitor)
  <2>1. w \in EVENT /\ w.own = FALSE /\ w.wait = {} /\ w.type = "READ_COMMAND"
    BY <1>5, EventTyped DEF EventTypes
  <2> QED BY <2>1 DEF EventOK, Monitors
<1>7. PICK r \in Seq(EVENT) :
          /\ event_replace(c, w) = [c EXCEPT !.q = r] /\ Len(r) = Len(c.q)
          /\ \A j \in 1..Len(c.q) : r[j] = IF j = 1 THEN w ELSE c.q[j]
  BY <1>2, <1>3, <1>6, ReplaceIs
<1>8. PICK d, ans : ans = TRUE /\ d = [c EXCEPT !.q = r, !.answered = ans]
  OBVIOUS
<1>9. HeadBecomes(c, w, r, ans, d)
  BY <1>2, <1>3, <1>4, <1>6, <1>7, <1>8 DEF HeadBecomes
<1>10. Settled(d, spool) /\ d.monitor = c.monitor
  BY <1>2, <1>9, HeadReplaced
<1>11. conn' = With(h, d)
  BY <1>1, <1>5, <1>7, <1>8 DEF With, PartialLine
<1>12. UNCHANGED Only
  BY DEF PartialLine
<1> QED BY <1>1, <1>10, <1>11, <1>12, OnlyKept

LEMMA EmptyLineKept == \A h \in Hosts : ClientInv /\ EmptyLine(h) => ClientInv'
<1> SUFFICES ASSUME NEW h \in Hosts, ClientInv, EmptyLine(h) PROVE ClientInv'
  OBVIOUS
<1>1. PICK c : c = conn[h]
  OBVIOUS
<1>2. /\ c \in CONNECTION /\ Good(c) /\ c.open
      /\ HeadOf(c).type \in {"READ_COMMAND", "NOTIFY"}
  BY <1>1 DEF ClientInv, Settled, EmptyLine, CanRead
<1>3. c.q # <<>> /\ ~Buffers(c.q[1])
  <2>1. c.q # <<>> /\ HeadOf(c) = c.q[1]
    BY <1>2, HeadIs
  <2> QED BY <1>2, <2>1 DEF Buffers, Monitors
<1>4. PICK b : b = event_delete(c)
  OBVIOUS
<1>5. /\ b \in CONNECTION /\ Good(b) /\ b.q # <<>> /\ b.mask = c.mask
      /\ b.monitor = c.monitor /\ b.open = c.open
      /\ c.mask = {} => \A a \in 1..Len(b.q) : b.q[a].own = FALSE
  BY <1>2, <1>3, <1>4, DeletedGood
<1>6. PICK d : d = [b EXCEPT !.answered = TRUE]
  OBVIOUS
<1>7. /\ d \in CONNECTION /\ d.q = b.q /\ d.mask = b.mask /\ d.monitor = b.monitor
      /\ d.open = b.open /\ d.answered
  BY <1>5, <1>6 DEF CONNECTION
<1>8. Good(d)
  BY <1>2, <1>5, <1>7 DEF Good
<1>9. Settled(d, spool)
  BY <1>5, <1>7, <1>8 DEF Settled
<1>10. conn' = With(h, d)
  BY <1>1, <1>4, <1>6 DEF EmptyLine
<1>11. UNCHANGED Only
  BY DEF EmptyLine
<1> QED BY <1>1, <1>5, <1>7, <1>9, <1>10, <1>11, OnlyKept


(* A command that ends with nobody waiting.                                *)
LEMMA BareKept ==
    ASSUME ClientInv, NEW h \in Hosts, NEW d, Bare(d), d.answered,
           d.q # <<>> \/ d.blank, d.monitor = conn[h].monitor,
           conn' = With(h, d), UNCHANGED Only
    PROVE  ClientInv'
<1>1. Settled(d, spool)
  BY BareSettled
<1> QED BY <1>1, OnlyKept

LEMMA BlankLineKept == \A h \in Hosts : ClientInv /\ BlankLine(h) => ClientInv'
<1> SUFFICES ASSUME NEW h \in Hosts, ClientInv, BlankLine(h) PROVE ClientInv'
  OBVIOUS
<1>1. PICK b : b = Took(h)
  OBVIOUS
<1>2. Bare(b) /\ b.monitor = conn[h].monitor
  BY <1>1, TookMidway DEF BlankLine
<1>3. PICK d : d = [b EXCEPT !.answered = TRUE, !.blank = TRUE]
  OBVIOUS
<1>4. /\ d \in CONNECTION /\ d.q = b.q /\ d.mask = b.mask /\ d.monitor = b.monitor
      /\ d.open = b.open /\ d.answered /\ d.blank
  BY <1>2, <1>3 DEF Bare, CONNECTION
<1>5. Bare(d)
  BY <1>2, <1>4 DEF Bare, Good
<1>6. conn' = With(h, d) /\ UNCHANGED Only
  BY <1>1, <1>3 DEF BlankLine
<1> QED BY <1>2, <1>4, <1>5, <1>6, BareKept

LEMMA ReplyKept1 == \A h \in Hosts : ClientInv /\ Reply(h) => ClientInv'
<1> SUFFICES ASSUME NEW h \in Hosts, ClientInv, Reply(h) PROVE ClientInv'
  OBVIOUS
<1>1. PICK b : b = Took(h)
  OBVIOUS
<1>2. Bare(b) /\ b.monitor = conn[h].monitor
  BY <1>1, TookMidway DEF Reply
<1>3. PICK d : d = connection_reply(b)
  OBVIOUS
<1>4. Bare(d) /\ d.answered /\ d.q # <<>> /\ d.monitor = b.monitor
  BY <1>2, <1>3, ReplyBare
<1>5. conn' = With(h, d) /\ UNCHANGED Only
  BY <1>1, <1>3 DEF Reply
<1> QED BY <1>2, <1>4, <1>5, BareKept

(* A reply that is inserted behind what is queued.                         *)
LEMMA InsertReplyKept ==
    ASSUME ClientInv, NEW h \in Hosts, CanRead(h), NEW w, Plain(w),
           conn' = With(h, InsertReply(Took(h), w)), UNCHANGED Only
    PROVE  ClientInv'
<1>1. PICK b : b = Took(h)
  OBVIOUS
<1>2. Bare(b) /\ b.monitor = conn[h].monitor
  BY <1>1, TookMidway
<1>3. PICK d : d = InsertReply(b, w)
  OBVIOUS
<1>4. Bare(d) /\ d.answered /\ d.q # <<>> /\ d.monitor = b.monitor
  BY <1>2, <1>3, InsertReplyBare
<1>5. conn' = With(h, d)
  BY <1>1, <1>3
<1> QED BY <1>2, <1>4, <1>5, BareKept

(* The buffers of texts.                                                   *)
LEMMA PlainTexts ==
    ASSUME NEW n \in Nat, NEW b \in KeptBuffers \cup {NotKept}, NEW more \in BOOLEAN,
           NEW w, w = [Write("reply") EXCEPT !.n = n, !.keep = b, !.more = more]
    PROVE  Plain(w)
<1>1. PICK e : e = Write("reply")
  OBVIOUS
<1>2. Plain(e) /\ e \in EVENT
  BY <1>1, EventTyped DEF Plain
<1>3. /\ w.type = e.type /\ w.id = e.id /\ w.wait = e.wait /\ w.own = e.own
      /\ w.n = n /\ w.has = e.has /\ w.keep = b /\ w.more = more
      /\ w = [type |-> w.type, id |-> w.id, wait |-> w.wait, own |-> w.own,
              n |-> w.n, has |-> w.has, keep |-> w.keep, more |-> w.more]
  BY <1>1, <1>2 DEF EVENT
<1>4. w \in EVENT
  BY <1>2, <1>3 DEF EVENT
<1> QED BY <1>2, <1>3, <1>4 DEF Plain, Reader, Monitors

LEMMA WriteIs ==
    Write("reply").keep = NotKept /\ Write("reply").more = FALSE /\ Write("reply").n = 1
<1>1. ASSUME NEW text
      PROVE  Write(text).keep = NotKept /\ Write(text).more = FALSE /\ Write(text).n = 1
  <2>1. PICK t : t = {text} \cap Texts
    OBVIOUS
  <2>2. PICK e : e = Write(text)
    OBVIOUS
  <2>3. e = [type |-> "WRITE", id |-> 0, wait |-> {}, own |-> FALSE, n |-> 1,
             has |-> t, keep |-> NotKept, more |-> FALSE]
    BY <2>1, <2>2 DEF Write, Event
  <2> QED BY <2>2, <2>3
<1> QED BY <1>1

LEMMA ListingPlain == \A lines \in Nat : Plain(Listing(lines))
<1> SUFFICES ASSUME NEW lines \in Nat PROVE Plain(Listing(lines))
  OBVIOUS
<1>1. PICK n : n = IF lines < BufferTexts THEN lines + 1 ELSE BufferTexts
  OBVIOUS
<1>2. n \in Nat
  BY <1>1, LimitAssumption
<1>3. PICK more : more = (lines >= BufferTexts)
  OBVIOUS
<1>4. more \in BOOLEAN
  BY <1>3
<1>5. PICK e : e = Write("reply")
  OBVIOUS
<1>6. e \in EVENT /\ e.keep = NotKept
  BY <1>5, EventTyped, WriteIs DEF Plain
<1>7. PICK w : w = [e EXCEPT !.n = n, !.keep = NotKept, !.more = more]
  OBVIOUS
<1>8. Plain(w)
  BY <1>2, <1>4, <1>5, <1>7, PlainTexts
<1>9. Listing(lines) = [e EXCEPT !.n = n, !.more = more]
  BY <1>1, <1>3, <1>5 DEF Listing
<1>10. [e EXCEPT !.n = n, !.more = more] = w
  BY <1>6, <1>7 DEF EVENT
<1> QED BY <1>8, <1>9, <1>10

LEMMA ReplyKeptKept ==
    \A h \in Hosts, b \in KeptBuffers : ClientInv /\ ReplyKept(h, b) => ClientInv'
<1> SUFFICES ASSUME NEW h \in Hosts, NEW b \in KeptBuffers, ClientInv, ReplyKept(h, b)
             PROVE  ClientInv'
  OBVIOUS
<1>1. PICK n \in Nat : n = 1 + kept[b]
  <2>1. kept[b] \in 0..(BufferTexts - 1)
    BY DEF ClientInv, World
  <2>2. 1 + kept[b] \in Nat
    BY <2>1, LimitAssumption
  <2> QED BY <2>2
<1>2. PICK e : e = Write("reply")
  OBVIOUS
<1>3. e \in EVENT /\ e.more = FALSE
  BY <1>2, EventTyped, WriteIs DEF Plain
<1>4. PICK w : w = [e EXCEPT !.n = n, !.keep = b, !.more = FALSE]
  OBVIOUS
<1>5. Plain(w)
  BY <1>1, <1>2, <1>4, PlainTexts
<1>6. w = [e EXCEPT !.n = n, !.keep = b]
  BY <1>3, <1>4 DEF EVENT
<1>7. /\ CanRead(h) /\ conn' = With(h, InsertReply(Took(h), w)) /\ UNCHANGED Only
  BY <1>1, <1>2, <1>6 DEF ReplyKept
<1> QED BY <1>5, <1>7, InsertReplyKept

LEMMA HelpKept == \A h \in Hosts : ClientInv /\ command_help(h) => ClientInv'
<1> SUFFICES ASSUME NEW h \in Hosts, ClientInv, command_help(h) PROVE ClientInv'
  OBVIOUS
<1>1. PICK b : b = "help"
  OBVIOUS
<1>2. ReplyKept(h, b)
  BY <1>1 DEF command_help
<1>3. b \in KeptBuffers
  BY <1>2 DEF ReplyKept
<1> QED BY <1>2, <1>3, ReplyKeptKept

LEMMA ListKept == \A h \in Hosts : ClientInv /\ command_list(h) => ClientInv'
<1> SUFFICES ASSUME NEW h \in Hosts, ClientInv, command_list(h) PROVE ClientInv'
  OBVIOUS
<1>1. ASSUME NEW e \in sound_list_create \cup {connection_list_create, spool_list_create},
             CanRead(h), conn' = With(h, InsertReply(Took(h), e)), UNCHANGED Only
      PROVE  ClientInv'
  <2>1. Cardinality({x \in Hosts : conn[x].open}) \in Nat
    BY HostAssumption, FS_Subset, FS_CardinalityType
  <2>2. Cardinality({i \in Ids : spool[i] # "none"}) \in Nat
    <3>1. IsFiniteSet(Ids)
      BY IdAssumption, FS_Interval DEF Ids
    <3> QED BY <3>1, FS_Subset, FS_CardinalityType
  <2>3. 0 \in Nat /\ BufferTexts \in Nat
    BY LimitAssumption
  <2>4. Plain(e)
    <3>1. \E lines \in Nat : e = Listing(lines)
      BY <1>1, <2>1, <2>2, <2>3 DEF sound_list_create, connection_list_create, spool_list_create
    <3> QED BY <3>1, ListingPlain
  <2> QED BY <1>1, <2>4, InsertReplyKept
<1>2. ASSUME NEW b \in KeptBuffers \ {"help"}, ReplyKept(h, b) PROVE ClientInv'
  BY <1>2, ReplyKeptKept
<1>3. ASSUME Reply(h) PROVE ClientInv'
  BY <1>3, ReplyKept1
<1> QED BY <1>1, <1>2, <1>3 DEF command_list

LEMMA StatusKept == \A h \in Hosts : ClientInv /\ command_status(h) => ClientInv'
<1> SUFFICES ASSUME NEW h \in Hosts, ClientInv, command_status(h) PROVE ClientInv'
  OBVIOUS
<1>1. PICK w : w = rplayd_status
  OBVIOUS
<1>2. Plain(w)
  BY <1>1, EventTyped DEF rplayd_status
<1>3. CanRead(h) /\ conn' = With(h, InsertReply(Took(h), w)) /\ UNCHANGED Only
  BY <1>1 DEF command_status
<1> QED BY <1>2, <1>3, InsertReplyKept

LEMMA CommandResetKept == \A h \in Hosts : ClientInv /\ command_reset(h) => ClientInv'
<1> SUFFICES ASSUME NEW h \in Hosts, ClientInv, command_reset(h) PROVE ClientInv'
  OBVIOUS
<1>1. PICK b : b = Took(h)
  OBVIOUS
<1>2. Bare(b) /\ b.monitor = conn[h].monitor
  BY <1>1, TookMidway DEF command_reset
<1>3. PICK d : d = connection_reply(b)
  OBVIOUS
<1>4. Bare(d) /\ d.answered /\ d.q # <<>> /\ d.monitor = b.monitor
  BY <1>2, <1>3, ReplyBare
<1>5. Settled(d, spool)
  BY <1>4, BareSettled
<1>6. /\ conn' = With(h, d) /\ need_to_reset' \in BOOLEAN
      /\ UNCHANGED <<spool, last_id, prev, kept, monitor_count, ring, monitor_update>>
  BY <1>1, <1>3 DEF command_reset, monitor
<1> QED BY <1>2, <1>4, <1>5, <1>6, LocalStep

LEMMA GetKept == \A h \in Hosts : ClientInv /\ command_get(h) => ClientInv'
<1> SUFFICES ASSUME NEW h \in Hosts, ClientInv, command_get(h) PROVE ClientInv'
  OBVIOUS
<1>1. PICK b : b = Took(h)
  OBVIOUS
<1>2. Bare(b) /\ b.monitor = conn[h].monitor
  BY <1>1, TookMidway DEF command_get
<1>3. PICK c : c = connection_reply(b)
  OBVIOUS
<1>4. Bare(c) /\ c.answered /\ c.monitor = b.monitor
  BY <1>2, <1>3, ReplyBare
<1>5. PICK w : w = Event("WRITE_SOUND")
  OBVIOUS
<1>6. Plain(w)
  <2>1. w \in EVENT /\ w.type = "WRITE_SOUND" /\ w.own = FALSE /\ w.wait = {}
    BY <1>5, EventTyped DEF EventTypes
  <2> QED BY <2>1 DEF Plain, Reader, Monitors
<1>7. PICK d : d = event_insert(c, w)
  OBVIOUS
<1>8. Bare(d) /\ d.answered /\ d.q # <<>> /\ d.monitor = c.monitor
  BY <1>4, <1>6, <1>7, InsertBare
<1>9. conn' = With(h, d) /\ UNCHANGED Only
  BY <1>1, <1>3, <1>5, <1>7 DEF command_get
<1> QED BY <1>2, <1>4, <1>8, <1>9, BareKept


(* A volume notification.                                                  *)
LEMMA VolumeMidway ==
    ASSUME NEW n \in Noted, Midway(n.conn, {}, spool), NEW fresh
    PROVE  VolumeNote(n, fresh) \in Noted /\ Midway(VolumeNote(n, fresh).conn, {}, spool)
<1>1. PICK m : m = IF fresh THEN [n EXCEPT !.prev = New] ELSE n
  OBVIOUS
<1>2. m \in Noted /\ m.conn = n.conn
  <2>1. New \in (-1..SPOOL_MAX_ID) \X (-1..SPOOL_MAX_ID)
    BY IdAssumption DEF New
  <2> QED BY <1>1, <2>1 DEF Noted
<1>3. PICK notes : notes = <<Note("volume", 0)>>
  OBVIOUS
<1>4. Len(notes) \in Nat
  BY <1>3
<1>5. Hosts \in SUBSET Hosts
  OBVIOUS
<1>6. \A i \in Ids : spool[i] = "none" => spool[i] = "none"
  OBVIOUS
<1>7. PICK r : r = Notes(m, notes, Now(spool), Hosts)
  OBVIOUS
<1>8. r \in Noted /\ Midway(r.conn, {}, spool)
  BY <1>2, <1>4, <1>5, <1>6, <1>7, NotesMidway
<1> QED BY <1>1, <1>3, <1>7, <1>8 DEF VolumeNote

(* The end of a step that notifies.                                        *)
LEMMA NotedInv ==
    ASSUME ClientInv, NEW n \in Noted, Midway(n.conn, {}, spool'),
           conn' = n.conn, prev' = n.prev, kept' = n.kept,
           spool' \in [Ids -> States], last_id' \in 0..SPOOL_MAX_ID,
           UNCHANGED <<monitor_count, ring, monitor_update, need_to_reset>>
    PROVE  ClientInv'
<1>1. World'
  BY DEF ClientInv, World, Noted
<1>2. Midway(conn', {}, spool') /\ monitor_count' = monitor_count /\ (ring => ring')
  OBVIOUS
<1> QED BY <1>1, <1>2, MidwayInv

LEMMA VolumeKept == \A h \in Hosts : ClientInv /\ command_volume(h) => ClientInv'
<1> SUFFICES ASSUME NEW h \in Hosts, ClientInv, command_volume(h) PROVE ClientInv'
  OBVIOUS
<1>1. CanRead(h)
  BY DEF command_volume
<1>2. PICK b : b = Took(h)
  OBVIOUS
<1>3. Bare(b) /\ b.monitor = conn[h].monitor
  BY <1>1, <1>2, TookMidway
<1>4. PICK r : r = connection_reply(b)
  OBVIOUS
<1>5. Bare(r) /\ r.monitor = b.monitor
  BY <1>3, <1>4, ReplyBare
<1>6. ASSUME NEW c \in {b, r}
      PROVE  /\ Bare(connection_reply(c)) /\ connection_reply(c).answered
             /\ connection_reply(c).q # <<>>
             /\ connection_reply(c).monitor = conn[h].monitor
  <2>1. Bare(c) /\ c.monitor = conn[h].monitor
    BY <1>3, <1>5
  <2>2. PICK e : e = connection_reply(c)
    OBVIOUS
  <2>3. Bare(e) /\ e.answered /\ e.q # <<>> /\ e.monitor = c.monitor
    BY <2>1, <2>2, ReplyBare
  <2> QED BY <2>1, <2>2, <2>3
<1>7. ASSUME Reply(h) PROVE ClientInv'
  BY <1>7, ReplyKept1
<1>8. ASSUME NEW fresh \in BOOLEAN, NEW c \in {b, r}, NEW n,
             n = VolumeNote(State(With(h, connection_reply(c))), fresh), Leaves(n),
             UNCHANGED <<spool, last_id, monitor_count, ring, monitor_update, need_to_reset>>
      PROVE  ClientInv'
  <2>1. PICK d : d = connection_reply(c)
    OBVIOUS
  <2>2. Bare(d) /\ d.answered /\ d.q # <<>> /\ d.monitor = conn[h].monitor
    BY <1>6, <2>1
  <2>3. PICK cn : cn = With(h, d)
    OBVIOUS
  <2>4. Midway(cn, {}, spool)
    <3>1. Settled(d, spool)
      BY <2>2, BareSettled
    <3> QED BY <2>2, <2>3, <3>1, WithMidway
  <2>5. State(cn) \in Noted /\ State(cn).conn = cn
    <3>1. cn \in [Hosts -> CONNECTION] /\ World
      BY <2>4 DEF Midway, ClientInv
    <3> QED BY <3>1, StateNoted
  <2>6. n \in Noted /\ Midway(n.conn, {}, spool)
    <3>1. PICK s \in Noted : s = State(cn) /\ s.conn = cn
      BY <2>5
    <3>2. n = VolumeNote(s, fresh) /\ Midway(s.conn, {}, spool)
      BY <1>8, <2>1, <2>3, <2>4, <3>1
    <3> QED BY <3>2, VolumeMidway
  <2>7. /\ spool' \in [Ids -> States] /\ last_id' \in 0..SPOOL_MAX_ID
        /\ Midway(n.conn, {}, spool')
        /\ UNCHANGED <<monitor_count, ring, monitor_update, need_to_reset>>
    BY <1>8, <2>6 DEF ClientInv, World
  <2> QED BY <1>8, <2>6, <2>7, NotedInv DEF Leaves
<1>9. ASSUME conn' = With(h, connection_reply(r)), UNCHANGED Only PROVE ClientInv'
  <2>1. PICK d : d = connection_reply(r)
    OBVIOUS
  <2>2. Bare(d) /\ d.answered /\ d.q # <<>> /\ d.monitor = conn[h].monitor
    BY <1>6, <2>1
  <2> QED BY <1>9, <2>1, <2>2, BareKept
<1> QED BY <1>2, <1>4, <1>7, <1>8, <1>9 DEF command_volume


-----------------------------------------------------------------------------
(* The steps of the spool.                                                 *)

(* One notification or more in a step that may end entries.                *)
LEMMA NotesInStep ==
    ASSUME ClientInv, NEW L, NEW cn, Midway(cn, L, spool), NEW notes, Len(notes) \in Nat,
           NEW sp,
           \A i \in Ids : sp[i] = "none" =>
               spool[i] = "none" \/ \E b \in 1..Len(notes) :
                                       notes[b].kind = "done" /\ notes[b].id = i
    PROVE  LET m == Notes(State(cn), notes, Now(sp), Hosts)
           IN  m \in Noted /\ Midway(m.conn, L, sp)
<1>1. PICK n \in Noted : n = State(cn) /\ n.conn = cn
  BY StateNoted DEF ClientInv, Midway
<1>2. Midway(n.conn, L, spool)
  BY <1>1
<1>3. PICK only \in SUBSET Hosts : only = Hosts
  OBVIOUS
<1>4. \A i \in Ids : sp[i] = "none" =>
          \/ spool[i] = "none"
          \/ only = Hosts /\ \E b \in 1..Len(notes) :
                                notes[b].kind = "done" /\ notes[b].id = i
  BY <1>3
<1>5. PICK m : m = Notes(n, notes, Now(sp), only)
  OBVIOUS
<1>6. m \in Noted /\ Midway(m.conn, L, sp)
  BY <1>2, <1>4, <1>5, NotesMidway, ZenonT(60)
<1> QED BY <1>1, <1>3, <1>5, <1>6

(* A new entry.                                                            *)
Begun(cn, L, st) ==
    LET sp == Set(spool_id, st)
        n == Notes(State(cn), IF st = "PLAY" THEN <<Note("play", spool_id)>> ELSE <<>>,
                   Now(sp), Hosts)
    IN  /\ sp \in [Ids -> States] /\ n \in Noted /\ Midway(n.conn, L, sp)
        /\ spool_id \in Ids /\ sp[spool_id] # "none"
LEMMA PlayBegins ==
    ASSUME ClientInv, HasFree, NEW L, NEW cn, Midway(cn, L, spool), NEW st \in {"PLAY", "WAIT"}
    PROVE  Begun(cn, L, st)
<1>1. World
  BY DEF ClientInv
<1>2. PICK i \in Ids : i = spool_id
  BY <1>1, FreeId
<1>3. PICK sp : sp = Set(i, st)
  OBVIOUS
<1>4. sp \in [Ids -> States] /\ sp[i] = st /\ \A j \in Ids : j # i => sp[j] = spool[j]
  BY <1>1, <1>3 DEF Set, World, States
<1>5. st # "none"
  OBVIOUS
<1>6. PICK notes : notes = IF st = "PLAY" THEN <<Note("play", i)>> ELSE <<>>
  OBVIOUS
<1>7. Len(notes) \in Nat
  BY <1>6
<1>8. \A j \in Ids : sp[j] = "none" => spool[j] = "none"
  BY <1>4, <1>5
<1>9. PICK n : n = Notes(State(cn), notes, Now(sp), Hosts)
  OBVIOUS
<1>10. n \in Noted /\ Midway(n.conn, L, sp)
  BY <1>7, <1>8, <1>9, NotesInStep
<1> QED BY <1>2, <1>3, <1>4, <1>5, <1>6, <1>9, <1>10 DEF Begun

(* An operation on an entry.                                               *)
Operated(cn, L, op, i) ==
    LET st == Becomes(op, spool[i])
        sp == Set(i, Gone(st))
        n == Notes(State(cn), IF st = spool[i] THEN <<>> ELSE Notice(i, st),
                   Now(sp), Hosts)
    IN  sp \in [Ids -> States] /\ n \in Noted /\ Midway(n.conn, L, sp)
LEMMA OperationDone ==
    ASSUME ClientInv, NEW L, NEW cn, Midway(cn, L, spool), NEW op, NEW i \in Ids,
           spool[i] # "none"
    PROVE  Operated(cn, L, op, i)
<1>1. spool \in [Ids -> States] /\ spool[i] \in {"WAIT", "PLAY", "PAUSE", "SKIP", "SKIP_PAUSED"}
  BY DEF ClientInv, World, States
<1>2. PICK st : st = Becomes(op, spool[i])
  OBVIOUS
<1>3. \/ st = spool[i] /\ st \in {"WAIT", "PLAY", "PAUSE", "SKIP", "SKIP_PAUSED"}
      \/ st \in {"stop", "end", "PAUSE", "PLAY", "SKIP", "SKIP_PAUSED"}
  BY <1>1, <1>2 DEF Becomes
<1>4. PICK sp : sp = Set(i, Gone(st))
  OBVIOUS
<1>5. /\ sp \in [Ids -> States] /\ \A j \in Ids : j # i => sp[j] = spool[j]
      /\ sp[i] = "none" => st \in {"stop", "end"}
  <2>1. Gone(st) \in States /\ (Gone(st) = "none" => st \in {"stop", "end"})
    BY <1>3 DEF Gone, States
  <2> QED BY <1>1, <1>4, <2>1 DEF Set
<1>6. PICK notes : notes = IF st = spool[i] THEN <<>> ELSE Notice(i, st)
  OBVIOUS
<1>7. /\ Len(notes) \in Nat
      /\ st \in {"stop", "end"} => \E b \in 1..Len(notes) :
                                      notes[b].kind = "done" /\ notes[b].id = i
  <2>1. CASE st = spool[i]
    BY <1>1, <1>6, <2>1
  <2>2. CASE st # spool[i] /\ st = "stop"
    <3>1. notes = <<Note("stop", i), Note("done", i)>>
      BY <1>6, <2>2 DEF Notice
    <3>2. Len(notes) = 2 /\ notes[2] = Note("done", i)
      BY <3>1
    <3> QED BY <3>2 DEF Note
  <2>3. CASE st # spool[i] /\ st = "end"
    <3>1. notes = <<Note("done", i)>>
      BY <1>6, <2>3 DEF Notice
    <3>2. Len(notes) = 1 /\ notes[1] = Note("done", i)
      BY <3>1
    <3> QED BY <3>2 DEF Note
  <2>4. CASE st # spool[i] /\ st \in {"PAUSE", "PLAY", "SKIP", "SKIP_PAUSED"}
    <3>1. \E k : notes = <<Note(k, i)>>
      BY <1>6, <2>4 DEF Notice
    <3>2. Len(notes) = 1
      BY <3>1
    <3> QED BY <2>4, <3>2
  <2> QED BY <1>3, <2>1, <2>2, <2>3, <2>4
<1>8. \A j \in Ids : sp[j] = "none" =>
          spool[j] = "none" \/ \E b \in 1..Len(notes) :
                                  notes[b].kind = "done" /\ notes[b].id = j
  <2> SUFFICES ASSUME NEW j \in Ids, sp[j] = "none", spool[j] # "none"
               PROVE  \E b \in 1..Len(notes) : notes[b].kind = "done" /\ notes[b].id = j
    OBVIOUS
  <2>1. j = i /\ st \in {"stop", "end"}
    BY <1>5
  <2> QED BY <1>7, <2>1
<1>9. PICK n : n = Notes(State(cn), notes, Now(sp), Hosts)
  OBVIOUS
<1>10. n \in Noted /\ Midway(n.conn, L, sp)
  BY <1>7, <1>8, <1>9, NotesInStep
<1> QED BY <1>2, <1>4, <1>5, <1>6, <1>9, <1>10 DEF Operated

(* The same when a command does it, and replies.                           *)
LEMMA ReplyInv ==
    ASSUME ClientInv, NEW h \in Hosts, NEW n \in Noted, NEW sp \in [Ids -> States],
           Midway(n.conn, {h}, sp), spool' = sp, conn' = Replied(h, n.conn),
           prev' = n.prev, kept' = n.kept, last_id' \in 0..SPOOL_MAX_ID,
           UNCHANGED <<monitor_count, ring, monitor_update, need_to_reset>>
    PROVE  ClientInv'
<1>1. Midway(conn', {}, spool')
  BY RepliedMidway
<1>2. World'
  BY DEF ClientInv, World, Noted
<1>3. monitor_count' = monitor_count /\ (ring => ring')
  OBVIOUS
<1> QED BY <1>1, <1>2, <1>3, MidwayInv

LEMMA IdIsStatic == \A i \in Ids : i \in 0..SPOOL_MAX_ID
BY IdAssumption DEF Ids

LEMMA ExecuteKept == \A h \in Hosts : ClientInv /\ command_execute(h) => ClientInv'
<1> SUFFICES ASSUME NEW h \in Hosts, ClientInv, command_execute(h) PROVE ClientInv'
  OBVIOUS
<1>1. CanRead(h)
  BY DEF command_execute
<1>2. PICK cn : cn = With(h, Took(h))
  OBVIOUS
<1>3. Midway(cn, {h}, spool)
  BY <1>1, <1>2, TookMidway
<1>4. ASSUME Reply(h) PROVE ClientInv'
  BY <1>4, ReplyKept1
<1>5. ASSUME HasFree, last_id' = spool_id, NEW st \in {"PLAY", "WAIT"}, NEW sp, NEW n,
             sp = Set(spool_id, st),
             n = Notes(State(cn), IF st = "PLAY" THEN <<Note("play", spool_id)>> ELSE <<>>,
                       Now(sp), Hosts),
             spool' = sp, prev' = n.prev, kept' = n.kept, conn' = Replied(h, n.conn),
             UNCHANGED <<monitor_count, ring, monitor_update, need_to_reset>>
      PROVE  ClientInv'
  <2>1. Begun(cn, {h}, st)
    BY <1>3, <1>5, PlayBegins
  <2>2. /\ sp \in [Ids -> States] /\ n \in Noted /\ Midway(n.conn, {h}, sp)
        /\ spool_id \in Ids
    BY <1>5, <2>1 DEF Begun
  <2>3. last_id' \in 0..SPOOL_MAX_ID
    BY <1>5, <2>2, IdIsStatic
  <2> QED BY <1>5, <2>2, <2>3, ReplyInv
<1>6. ASSUME NEW op, NEW i \in Ids, spool[i] # "none", NEW st, NEW sp, NEW n,
             st = Becomes(op, spool[i]), sp = Set(i, Gone(st)),
             n = Notes(State(cn), IF st = spool[i] THEN <<>> ELSE Notice(i, st),
                       Now(sp), Hosts),
             spool' = sp, prev' = n.prev, kept' = n.kept, conn' = Replied(h, n.conn),
             UNCHANGED <<last_id, monitor_count, ring, monitor_update, need_to_reset>>
      PROVE  ClientInv'
  <2>1. Operated(cn, {h}, op, i)
    BY <1>3, <1>6, OperationDone
  <2>2. sp \in [Ids -> States] /\ n \in Noted /\ Midway(n.conn, {h}, sp)
    BY <1>6, <2>1 DEF Operated
  <2>3. last_id' \in 0..SPOOL_MAX_ID
    BY <1>6 DEF ClientInv, World
  <2> QED BY <1>6, <2>2, <2>3, ReplyInv
<1> DEFINE then(cm) == Replied(h, cm)
<1>7. ASSUME rplayd_play(With(h, Took(h)), then) PROVE ClientInv'
  BY <1>2, <1>5, <1>7 DEF rplayd_play
<1>8. ASSUME NEW op, NEW i \in Ids, Operate(With(h, Took(h)), op, i, then) PROVE ClientInv'
  BY <1>2, <1>6, <1>8 DEF Operate
<1> QED BY <1>4, <1>7, <1>8 DEF command_execute, RefuseAttribute, RefuseOldStyle


LEMMA SkipKept == \A h \in Hosts : ClientInv /\ command_skip(h) => ClientInv'
<1> SUFFICES ASSUME NEW h \in Hosts, ClientInv, command_skip(h) PROVE ClientInv'
  OBVIOUS
<1>1. CanRead(h)
  BY DEF command_skip
<1>2. PICK cn : cn = With(h, Took(h))
  OBVIOUS
<1>3. Midway(cn, {h}, spool)
  BY <1>1, <1>2, TookMidway
<1>4. ASSUME NEW i \in Ids, spool[i] # "none", NEW st, NEW sp, NEW n,
             st = Becomes("skip", spool[i]), sp = Set(i, Gone(st)),
             n = Notes(State(cn), IF st = spool[i] THEN <<>> ELSE Notice(i, st),
                       Now(sp), Hosts),
             spool' = sp, prev' = n.prev, kept' = n.kept, conn' = Replied(h, n.conn),
             UNCHANGED <<last_id, monitor_count, ring, monitor_update, need_to_reset>>
      PROVE  ClientInv'
  <2>1. PICK op : op = "skip"
    OBVIOUS
  <2>2. Operated(cn, {h}, op, i)
    BY <1>3, <1>4, OperationDone
  <2>3. sp \in [Ids -> States] /\ n \in Noted /\ Midway(n.conn, {h}, sp)
    BY <1>4, <2>1, <2>2 DEF Operated
  <2>4. last_id' \in 0..SPOOL_MAX_ID
    BY <1>4 DEF ClientInv, World
  <2> QED BY <1>4, <2>3, <2>4, ReplyInv
<1> DEFINE then(cm) == Replied(h, cm)
<1>5. ASSUME NEW i \in Ids, Operate(With(h, Took(h)), "skip", i, then) PROVE ClientInv'
  BY <1>2, <1>4, <1>5 DEF Operate
<1> QED BY <1>5 DEF command_skip

LEMMA ModifyKept == \A h \in Hosts : ClientInv /\ command_modify(h) => ClientInv'
<1> SUFFICES ASSUME NEW h \in Hosts, ClientInv, command_modify(h) PROVE ClientInv'
  OBVIOUS
<1>1. PICK cn : cn = With(h, Took(h))
  OBVIOUS
<1>2. Midway(cn, {h}, spool)
  BY <1>1, TookMidway DEF command_modify
<1>3. PICK i \in Ids :
         LET n == Notes(State(cn), <<Note("modify", i)>>, Now(spool), Hosts)
         IN  conn' = Replied(h, n.conn) /\ prev' = n.prev /\ kept' = n.kept
  BY <1>1 DEF command_modify
<1>4. PICK notes : notes = <<Note("modify", i)>>
  OBVIOUS
<1>5. PICK n : n = Notes(State(cn), notes, Now(spool), Hosts)
  OBVIOUS
<1>6. conn' = Replied(h, n.conn) /\ prev' = n.prev /\ kept' = n.kept
  BY <1>3, <1>4, <1>5
<1>7. n \in Noted /\ Midway(n.conn, {h}, spool)
  <2>1. Len(notes) \in Nat
    BY <1>4
  <2> QED BY <1>2, <1>5, <2>1, NotesInStep
<1>8. /\ UNCHANGED <<monitor_count, ring, monitor_update, need_to_reset>>
      /\ spool' = spool /\ spool \in [Ids -> States] /\ last_id' \in 0..SPOOL_MAX_ID
  BY DEF command_modify, ClientInv, World
<1> QED BY <1>6, <1>7, <1>8, ReplyInv

LEMMA ReadKept == ClientInv /\ rplayd_read => ClientInv'
<1> SUFFICES ASSUME ClientInv, rplayd_read PROVE ClientInv'
  OBVIOUS
<1>1. Midway(conn, {}, spool)
  BY InvMidway
<1>2. ASSUME HasFree, last_id' = spool_id, NEW st \in {"PLAY", "WAIT"}, NEW sp, NEW n,
             sp = Set(spool_id, st),
             n = Notes(State(conn), IF st = "PLAY" THEN <<Note("play", spool_id)>> ELSE <<>>,
                       Now(sp), Hosts),
             spool' = sp, prev' = n.prev, kept' = n.kept, conn' = n.conn,
             UNCHANGED <<monitor_count, ring, monitor_update, need_to_reset>>
      PROVE  ClientInv'
  <2>1. Begun(conn, {}, st)
    BY <1>1, <1>2, PlayBegins
  <2>2. /\ sp \in [Ids -> States] /\ n \in Noted /\ Midway(n.conn, {}, sp)
        /\ spool_id \in Ids
    BY <1>2, <2>1 DEF Begun
  <2>3. last_id' \in 0..SPOOL_MAX_ID
    BY <1>2, <2>2, IdIsStatic
  <2>4. spool' \in [Ids -> States] /\ Midway(n.conn, {}, spool')
    BY <1>2, <2>2
  <2> QED BY <1>2, <2>2, <2>3, <2>4, NotedInv
<1>3. ASSUME NEW op, NEW i \in Ids, spool[i] # "none", NEW st, NEW sp, NEW n,
             st = Becomes(op, spool[i]), sp = Set(i, Gone(st)),
             n = Notes(State(conn), IF st = spool[i] THEN <<>> ELSE Notice(i, st),
                       Now(sp), Hosts),
             spool' = sp, prev' = n.prev, kept' = n.kept, conn' = n.conn,
             UNCHANGED <<last_id, monitor_count, ring, monitor_update, need_to_reset>>
      PROVE  ClientInv'
  <2>1. Operated(conn, {}, op, i)
    BY <1>1, <1>3, OperationDone
  <2>2. sp \in [Ids -> States] /\ n \in Noted /\ Midway(n.conn, {}, sp)
    BY <1>3, <2>1 DEF Operated
  <2>3. last_id' \in 0..SPOOL_MAX_ID
    BY <1>3 DEF ClientInv, World
  <2>4. spool' \in [Ids -> States] /\ Midway(n.conn, {}, spool')
    BY <1>3, <2>2
  <2> QED BY <1>3, <2>2, <2>3, <2>4, NotedInv
<1>4. ASSUME rplayd_play(conn, Untouched) PROVE ClientInv'
  BY <1>2, <1>4 DEF rplayd_play, Untouched
<1>5. ASSUME NEW op, NEW i \in Ids, Operate(conn, op, i, Untouched) PROVE ClientInv'
  BY <1>3, <1>5 DEF Operate, Untouched
<1> QED BY <1>4, <1>5 DEF rplayd_read

(* What is sent to all, and ends entry i or changes it.                    *)
LEMMA SendKept ==
    ASSUME ClientInv, NEW i \in Ids, NEW st \in States, NEW k, st = "none" => k = "done",
           Send(conn, Set(i, st), <<Note(k, i)>>),
           UNCHANGED <<last_id, monitor_count, ring, monitor_update, need_to_reset>>
    PROVE  ClientInv'
<1>1. Midway(conn, {}, spool)
  BY InvMidway
<1>2. PICK sp : sp = Set(i, st)
  OBVIOUS
<1>3. sp \in [Ids -> States] /\ sp[i] = st /\ \A j \in Ids : j # i => sp[j] = spool[j]
  BY <1>2 DEF Set, ClientInv, World
<1>4. PICK notes : notes = <<Note(k, i)>>
  OBVIOUS
<1>5. Len(notes) = 1 /\ notes[1].kind = k /\ notes[1].id = i
  BY <1>4 DEF Note
<1>6. \A j \in Ids : sp[j] = "none" =>
          spool[j] = "none" \/ \E b \in 1..Len(notes) :
                                  notes[b].kind = "done" /\ notes[b].id = j
  <2> SUFFICES ASSUME NEW j \in Ids, sp[j] = "none", spool[j] # "none"
               PROVE  \E b \in 1..Len(notes) : notes[b].kind = "done" /\ notes[b].id = j
    OBVIOUS
  <2>1. j = i /\ st = "none"
    BY <1>3
  <2>2. 1 \in 1..Len(notes)
    BY <1>5
  <2> QED BY <1>5, <2>1, <2>2
<1>7. PICK n : n = Notes(State(conn), notes, Now(sp), Hosts)
  OBVIOUS
<1>8. n \in Noted /\ Midway(n.conn, {}, sp)
  BY <1>1, <1>5, <1>6, <1>7, NotesInStep
<1>9. conn' = n.conn /\ prev' = n.prev /\ kept' = n.kept /\ spool' = sp
  BY <1>2, <1>4, <1>7 DEF Send, Leaves
<1>10. last_id' \in 0..SPOOL_MAX_ID
  BY DEF ClientInv, World
<1>11. spool' \in [Ids -> States] /\ Midway(n.conn, {}, spool')
  BY <1>3, <1>8, <1>9
<1> QED BY <1>8, <1>9, <1>10, <1>11, NotedInv

LEMMA SoundCameKept == \A i \in Ids : ClientInv /\ SoundCame(i) => ClientInv'
<1> SUFFICES ASSUME NEW i \in Ids, ClientInv, SoundCame(i) PROVE ClientInv'
  OBVIOUS
<1>1. UNCHANGED <<last_id, monitor_count, ring, monitor_update, need_to_reset>>
  BY DEF SoundCame
<1>2. ASSUME Send(conn, Set(i, "PLAY"), <<Note("play", i)>>) PROVE ClientInv'
  <2>1. PICK st \in States, k \in Kinds : st = "PLAY" /\ k = "play"
    BY DEF States, Kinds
  <2>2. st # "none" /\ Send(conn, Set(i, st), <<Note(k, i)>>)
    BY <1>2, <2>1
  <2> QED BY <1>1, <2>2, SendKept
<1>3. ASSUME Send(conn, Set(i, "none"), <<Note("done", i)>>) PROVE ClientInv'
  <2>1. PICK st \in States, k \in Kinds : st = "none" /\ k = "done"
    BY DEF States, Kinds
  <2>2. Send(conn, Set(i, st), <<Note(k, i)>>)
    BY <1>3, <2>1
  <2> QED BY <1>1, <2>1, <2>2, SendKept
<1> QED BY <1>2, <1>3 DEF SoundCame

LEMMA EntryEndsKept == \A i \in Ids : ClientInv /\ EntryEnds(i) => ClientInv'
<1> SUFFICES ASSUME NEW i \in Ids, ClientInv, EntryEnds(i) PROVE ClientInv'
  OBVIOUS
<1>1. UNCHANGED <<last_id, monitor_count, ring, monitor_update, need_to_reset>>
  BY DEF EntryEnds
<1>2. ASSUME Send(conn, Set(i, "none"), <<Note("done", i)>>) PROVE ClientInv'
  <2>1. PICK st \in States, k \in Kinds : st = "none" /\ k = "done"
    BY DEF States, Kinds
  <2>2. Send(conn, Set(i, st), <<Note(k, i)>>)
    BY <1>2, <2>1
  <2> QED BY <1>1, <2>1, <2>2, SendKept
<1>3. /\ spool \in [Ids -> States] /\ Midway(conn, {}, spool)
      /\ last_id' \in 0..SPOOL_MAX_ID
  BY <1>1, InvMidway DEF ClientInv, World
<1>4. PICK none : none = Set(i, "none")
  OBVIOUS
<1>5. PICK gone : gone = <<Note("done", i)>>
  OBVIOUS
<1>6. Len(gone) = 1 /\ gone[1].kind = "done" /\ gone[1].id = i /\ 1 \in 1..Len(gone)
  BY <1>5 DEF Note
<1>7. none \in [Ids -> States] /\ \A j \in Ids : j # i => none[j] = spool[j]
  BY <1>3, <1>4 DEF Set, States
<1>8. \A j \in Ids : none[j] = "none" =>
          spool[j] = "none" \/ \E b \in 1..Len(gone) :
                                  gone[b].kind = "done" /\ gone[b].id = j
  <2> SUFFICES ASSUME NEW j \in Ids, none[j] = "none", spool[j] # "none"
               PROVE  \E b \in 1..Len(gone) : gone[b].kind = "done" /\ gone[b].id = j
    OBVIOUS
  <2>1. j = i
    BY <1>7
  <2> QED BY <1>6, <2>1
<1>9. PICK n : n = Notes(State(conn), gone, Now(none), Hosts)
  OBVIOUS
<1>10. n \in Noted /\ Midway(n.conn, {}, none)
  <2>1. Len(gone) \in Nat
    BY <1>6
  <2> QED BY <1>3, <1>8, <1>9, <2>1, NotesInStep
<1>11. ASSUME NEW m \in Noted, NEW sp, Midway(m.conn, {}, sp), NEW st \in States, st # "none",
              NEW k, \A j \in Ids : j # i => sp[j] = spool[j]
       PROVE  LET r == Notes(m, <<Note(k, i)>>, Now(Set(i, st)), Hosts)
              IN  r \in Noted /\ Midway(r.conn, {}, Set(i, st))
  <2>1. PICK sp2 : sp2 = Set(i, st)
    OBVIOUS
  <2>2. sp2[i] = st /\ \A j \in Ids : j # i => sp2[j] = spool[j]
    BY <1>3, <2>1 DEF Set
  <2>3. PICK notes : notes = <<Note(k, i)>>
    OBVIOUS
  <2>4. Len(notes) \in Nat
    BY <2>3
  <2>5. \A j \in Ids : sp2[j] = "none" => sp[j] = "none"
    BY <1>11, <2>2
  <2>6. PICK only \in SUBSET Hosts : only = Hosts
    OBVIOUS
  <2>7. PICK r : r = Notes(m, notes, Now(sp2), only)
    OBVIOUS
  <2>8. r \in Noted /\ Midway(r.conn, {}, sp2)
    BY <1>11, <2>4, <2>5, <2>7, NotesMidway
  <2> QED BY <2>1, <2>3, <2>6, <2>7, <2>8
<1>12. \A j \in Ids : /\ j # i => none[j] = spool[j]
                      /\ j # i => Set(i, "PLAY")[j] = spool[j]
  BY <1>3, <1>7 DEF Set
<1>13. PICK n1 : n1 = Notes(n, <<Note("play", i)>>, Now(Set(i, "PLAY")), Hosts)
  OBVIOUS
<1>14. n1 \in Noted /\ Midway(n1.conn, {}, Set(i, "PLAY"))
  <2>1. PICK st \in States, k \in Kinds : st = "PLAY" /\ k = "play" /\ st # "none"
    BY DEF States, Kinds
  <2>2. LET r == Notes(n, <<Note(k, i)>>, Now(Set(i, st)), Hosts)
        IN  r \in Noted /\ Midway(r.conn, {}, Set(i, st))
    BY <1>10, <1>11, <1>12, <2>1
  <2> QED BY <1>13, <2>1, <2>2
<1>15. PICK n2 : n2 = Notes(n1, <<Note("pause", i)>>, Now(Set(i, "PAUSE")), Hosts)
  OBVIOUS
<1>16. n2 \in Noted /\ Midway(n2.conn, {}, Set(i, "PAUSE"))
  <2>1. PICK st \in States, k \in Kinds : st = "PAUSE" /\ k = "pause" /\ st # "none"
    BY DEF States, Kinds
  <2>2. PICK sp : sp = Set(i, "PLAY")
    OBVIOUS
  <2>3. LET r == Notes(n1, <<Note(k, i)>>, Now(Set(i, st)), Hosts)
        IN  r \in Noted /\ Midway(r.conn, {}, Set(i, st))
    BY <1>11, <1>12, <1>14, <2>1, <2>2
  <2> QED BY <1>15, <2>1, <2>3
<1>17. ASSUME NEW m \in Noted, NEW st \in States, Midway(m.conn, {}, Set(i, st)),
              spool' = Set(i, st), conn' = m.conn, prev' = m.prev, kept' = m.kept
       PROVE  ClientInv'
  <2>1. spool' \in [Ids -> States] /\ Midway(m.conn, {}, spool')
    BY <1>3, <1>17 DEF Set
  <2> QED BY <1>1, <1>3, <1>17, <2>1, NotedInv
<1>18. "none" \in States /\ "PLAY" \in States /\ "PAUSE" \in States
  BY DEF States
<1>19. ASSUME spool' = Set(i, "none"), Leaves(n)
       PROVE  ClientInv'
  BY <1>4, <1>10, <1>17, <1>18, <1>19 DEF Leaves
<1>20. ASSUME spool' = Set(i, IF spool[i] = "SKIP" THEN "PLAY" ELSE "PAUSE"),
              NEW m, m = (IF spool[i] = "SKIP" THEN n1 ELSE n2), Leaves(m)
       PROVE  ClientInv'
  <2>1. CASE spool[i] = "SKIP"
    BY <1>14, <1>17, <1>18, <1>20, <2>1 DEF Leaves
  <2>2. CASE spool[i] # "SKIP"
    BY <1>16, <1>17, <1>18, <1>20, <2>2 DEF Leaves
  <2> QED BY <2>1, <2>2
<1> QED BY <1>2, <1>4, <1>5, <1>9, <1>13, <1>15, <1>19, <1>20 DEF EntryEnds


-----------------------------------------------------------------------------
(* wait, set and monitor.                                                  *)

LEMMA EventsTyped ==
    ASSUME NEW mask \in SUBSET Kinds, NEW ev \in EventLists \cup {NoList}
    PROVE  do_events(mask, ev) \in SUBSET Kinds /\ ev.id \in Nat
<1>1. ev \in [clear : BOOLEAN, add : SUBSET Kinds, drop : SUBSET Kinds, id : Nat]
  <2>1. CASE ev \in EventLists
    BY <2>1, EventAssumption
  <2>2. CASE ev = NoList
    BY <2>2 DEF NoList
  <2> QED BY <2>1, <2>2
<1>2. NOTIFY_SPOOL \subseteq Kinds
  BY DEF NOTIFY_SPOOL, AboutEntry
<1>3. ev.add \subseteq Kinds /\ ev.id \in Nat
  BY <1>1
<1> QED BY <1>2, <1>3 DEF do_events

LEMMA WaitKept == \A h \in Hosts : ClientInv /\ command_wait(h) => ClientInv'
<1> SUFFICES ASSUME NEW h \in Hosts, ClientInv, command_wait(h) PROVE ClientInv'
  OBVIOUS
<1>1. CanRead(h)
  BY DEF command_wait
<1>2. PICK b : b = Took(h)
  OBVIOUS
<1>3. /\ Bare(b) /\ (b.mask = {} => b.q = <<>>) /\ ~conn[h].monitor
      /\ Midway(With(h, b), {h}, spool)
  BY <1>1, <1>2, TookMidway
<1>4. ASSUME NEW kinds \in SUBSET Kinds, NEW i \in Nat,
             conn' = With(h, event_insert(b, WaitFor(kinds, i, FALSE))), UNCHANGED Only
      PROVE  ClientInv'
  <2>1. PICK w : w = WaitFor(kinds, i, FALSE)
    OBVIOUS
  <2>2. w \in EVENT /\ w.type = "NOTIFY" /\ w.own = FALSE
    BY <2>1, EventTyped, ZenonT(60)
  <2>3. PICK d : d = event_insert(b, w)
    OBVIOUS
  <2>4. Settled(d, spool) /\ ~d.monitor
    BY <1>3, <2>2, <2>3, WaitSettled
  <2>5. d.monitor = conn[h].monitor
    <3>1. d.monitor = FALSE /\ conn[h].monitor = FALSE
      BY <1>3, <2>4 DEF Settled, ClientInv, CONNECTION
    <3> QED BY <3>1
  <2> QED BY <1>4, <2>1, <2>3, <2>4, <2>5, OnlyKept
<1>5. ASSUME conn' = With(h, event_insert(b, WaitFor(Kinds, 0, FALSE))), UNCHANGED Only
      PROVE  ClientInv'
  BY <1>4, <1>5
<1>6. ASSUME NEW i \in Ids, UNCHANGED Only,
             conn' = With(h, event_insert(b, WaitFor({"done"}, i, FALSE)))
      PROVE  ClientInv'
  <2>1. PICK kinds \in SUBSET Kinds : kinds = {"done"}
    BY DEF Kinds
  <2>2. i \in Nat
    BY DEF Ids
  <2> QED BY <1>4, <1>6, <2>1, <2>2
<1>7. ASSUME NEW ev \in EventLists, UNCHANGED Only,
             conn' = With(h, event_insert(b, WaitFor(do_events({}, ev), ev.id, FALSE)))
      PROVE  ClientInv'
  <2>1. do_events({}, ev) \in SUBSET Kinds /\ ev.id \in Nat
    BY EventsTyped
  <2> QED BY <1>4, <1>7, <2>1
<1>8. ASSUME HasFree, last_id' = spool_id, NEW st \in {"PLAY", "WAIT"}, NEW sp, NEW n,
             sp = Set(spool_id, st),
             n = Notes(State(With(h, b)),
                       IF st = "PLAY" THEN <<Note("play", spool_id)>> ELSE <<>>,
                       Now(sp), Hosts),
             spool' = sp, prev' = n.prev, kept' = n.kept,
             conn' = [n.conn EXCEPT ![h] = event_insert(@, WaitFor({"done"}, spool_id, TRUE))],
             UNCHANGED <<monitor_count, ring, monitor_update, need_to_reset>>
      PROVE  ClientInv'
  <2>1. Begun(With(h, b), {h}, st)
    BY <1>3, <1>8, PlayBegins
  <2>2. /\ sp \in [Ids -> States] /\ n \in Noted /\ Midway(n.conn, {h}, sp)
        /\ spool_id \in Ids /\ sp[spool_id] # "none"
    BY <1>8, <2>1 DEF Begun
  <2>3. PICK w : w = WaitFor({"done"}, spool_id, TRUE)
    OBVIOUS
  <2>4. w \in EVENT /\ w.type = "NOTIFY" /\ w.wait = {"done"} /\ w.id = spool_id
    <3>1. PICK kinds \in SUBSET Kinds : kinds = {"done"}
      BY DEF Kinds
    <3>2. PICK i \in Nat : i = spool_id
      BY <2>2 DEF Ids
    <3>3. PICK own \in BOOLEAN : own = TRUE
      OBVIOUS
    <3>4. w = WaitFor(kinds, i, own)
      BY <2>3, <3>1, <3>2, <3>3
    <3> QED BY <3>1, <3>2, <3>4, EventTyped
  <2>5. w.own => "done" \in w.wait /\ w.id \in Ids /\ sp[w.id] # "none"
    BY <2>2, <2>4
  <2>6. PICK cm : cm = [n.conn EXCEPT ![h] = event_insert(@, w)]
    OBVIOUS
  <2>7. Midway(cm, {}, sp)
    BY <2>2, <2>4, <2>5, <2>6, WaitMidway
  <2>8. PICK m : m = [n EXCEPT !.conn = cm]
    OBVIOUS
  <2>9. m \in Noted /\ m.conn = cm /\ m.prev = n.prev /\ m.kept = n.kept
    BY <2>2, <2>7, <2>8 DEF Midway, Noted
  <2>10. last_id' \in 0..SPOOL_MAX_ID
    BY <1>8, <2>2, IdIsStatic
  <2>11. /\ spool' \in [Ids -> States] /\ Midway(m.conn, {}, spool')
         /\ conn' = m.conn /\ prev' = m.prev /\ kept' = m.kept
    BY <1>8, <2>2, <2>3, <2>6, <2>7, <2>9
  <2> QED BY <1>8, <2>9, <2>10, <2>11, NotedInv
<1> DEFINE then(cn) == [cn EXCEPT ![h] = event_insert(@, WaitFor({"done"}, spool_id, TRUE))]
<1>9. ASSUME rplayd_play(With(h, Took(h)), then) PROVE ClientInv'
  BY <1>2, <1>8, <1>9 DEF rplayd_play
<1> QED BY <1>2, <1>5, <1>6, <1>7, <1>9 DEF command_wait

(* The state of every entry is sent to h.                                  *)
LEMMA ShownMidway ==
    ASSUME ClientInv, NEW h \in Hosts, NEW L, NEW cn, Midway(cn, L, spool)
    PROVE  Shown(h, cn) \in Noted /\ Midway(Shown(h, cn).conn, L, spool)
<1>1. PICK N \in Nat : N = SPOOL_MAX_ID
  BY IdAssumption
<1>2. PICK s \in Noted : s = State(cn) /\ s.conn = cn
  BY StateNoted DEF ClientInv, Midway
<1>3. PICK U : U = {m \in Noted : Midway(m.conn, L, spool)}
  OBVIOUS
<1>4. s \in U
  BY <1>2, <1>3
<1>5. ASSUME NEW m \in U, NEW i PROVE Notes(m, Status(i), Now(spool), {h}) \in U
  <2>1. m \in Noted /\ Midway(m.conn, L, spool)
    BY <1>3
  <2>2. PICK notes : notes = Status(i)
    OBVIOUS
  <2>3. Len(notes) \in Nat
    BY <2>2 DEF Status
  <2>4. PICK only \in SUBSET Hosts : only = {h}
    OBVIOUS
  <2>5. PICK r : r = Notes(m, notes, Now(spool), only)
    OBVIOUS
  <2>6. r \in Noted /\ Midway(r.conn, L, spool)
    BY <2>1, <2>3, <2>5, NotesMidway
  <2> QED BY <1>3, <2>2, <2>4, <2>5, <2>6
<1>6. PICK step : step = [p \in (1..N) \X U |-> Notes(p[2], Status(p[1]), Now(spool), {h})]
  OBVIOUS
<1>7. step \in [(1..N) \X U -> U]
  <2>1. ASSUME NEW p \in (1..N) \X U PROVE Notes(p[2], Status(p[1]), Now(spool), {h}) \in U
    BY <1>5
  <2> QED BY <1>6, <2>1
<1>8. PICK g \in [0..N -> U] :
         g[0] = s /\ \A j \in 1..N : g[j] = step[<<j, g[j - 1]>>]
  <2>1. Runs(N, U, s, step)
    BY <1>4, <1>7, RecursionExists
  <2> QED BY <2>1 DEF Runs
<1>9. \A j \in 1..N : g[j] = Notes(g[j - 1], Status(j), Now(spool), {h})
  <2> SUFFICES ASSUME NEW j \in 1..N
               PROVE  g[j] = Notes(g[j - 1], Status(j), Now(spool), {h})
    OBVIOUS
  <2>1. g[j - 1] \in U
    BY <1>8
  <2>2. step[<<j, g[j - 1]>>] = Notes(g[j - 1], Status(j), Now(spool), {h})
    BY <1>6, <2>1
  <2> QED BY <1>8, <2>2
<1> DEFINE Steps(f) == f = [i \in 0..N |-> IF i = 0 THEN State(cn)
                                ELSE Notes(f[i - 1], Status(i), Now(spool), {h})]
           shown == CHOOSE f : Steps(f)
<1>10. Steps(g)
  <2>1. \A j \in 0..N : g[j] = IF j = 0 THEN State(cn)
                               ELSE Notes(g[j - 1], Status(j), Now(spool), {h})
    <3> SUFFICES ASSUME NEW j \in 0..N
                 PROVE  g[j] = IF j = 0 THEN State(cn)
                               ELSE Notes(g[j - 1], Status(j), Now(spool), {h})
      OBVIOUS
    <3>1. CASE j = 0
      BY <1>2, <1>8, <3>1
    <3>2. CASE j # 0
      <4>1. j \in 1..N
        BY <3>2
      <4> QED BY <1>9, <3>2, <4>1
    <3> QED BY <3>1, <3>2
  <2> QED BY <1>8, <2>1
<1>11. Steps(shown)
  <2>1. \E f : Steps(f)
    BY <1>10
  <2> HIDE DEF Steps
  <2> QED BY <2>1
<1>12. Shown(h, cn) = shown[N]
  BY <1>1 DEF Shown
<1>13. PICK f : f = shown
  OBVIOUS
<1>14. f[0] = s /\ \A j \in 1..N : f[j] = Notes(f[j - 1], Status(j), Now(spool), {h})
  <2>1. f = [i \in 0..N |-> IF i = 0 THEN State(cn)
                            ELSE Notes(f[i - 1], Status(i), Now(spool), {h})]
    BY <1>11, <1>13
  <2>2. \A j \in 0..N : f[j] = IF j = 0 THEN State(cn)
                               ELSE Notes(f[j - 1], Status(j), Now(spool), {h})
    BY <2>1
  <2>3. f[0] = s
    BY <1>2, <2>2
  <2>4. ASSUME NEW j \in 1..N PROVE f[j] = Notes(f[j - 1], Status(j), Now(spool), {h})
    <3>1. j \in 0..N /\ j # 0
      OBVIOUS
    <3> QED BY <2>2, <3>1
  <2> QED BY <2>3, <2>4
<1> HIDE DEF shown, Steps
<1>15. PICK S : S = [j \in 0..N |-> U]
  OBVIOUS
<1>16. f[0] \in S[0]
  BY <1>4, <1>14, <1>15
<1>17. ASSUME NEW j \in 1..N, f[j - 1] \in S[j - 1] PROVE f[j] \in S[j]
  <2>1. j - 1 \in 0..N /\ j \in 0..N
    OBVIOUS
  <2>2. PICK m \in U : m = f[j - 1]
    BY <1>15, <1>17, <2>1
  <2>3. f[j] = Notes(m, Status(j), Now(spool), {h})
    BY <1>14, <2>2
  <2> QED BY <1>5, <1>15, <2>1, <2>3
<1>18. f[N] \in U
  <2>1. \A j \in 0..N : f[j] \in S[j]
    BY <1>16, <1>17, RecursionKeeps
  <2>2. N \in 0..N
    OBVIOUS
  <2> QED BY <1>15, <2>1, <2>2
<1> QED BY <1>3, <1>12, <1>13, <1>18

(* Notification is on: the client waits behind what it has been sent.      *)
LEMMA EnabledMidway ==
    ASSUME ClientInv, NEW h \in Hosts, NEW cn, Midway(cn, {h}, spool)
    PROVE  Enabled(h, cn) \in Noted /\ Midway(Enabled(h, cn).conn, {}, spool)
<1>1. PICK s \in Noted : s = Shown(h, cn) /\ Midway(s.conn, {h}, spool)
  BY ShownMidway
<1>2. PICK notes : notes = <<Note("volume", 0)>>
  OBVIOUS
<1>3. Len(notes) \in Nat
  BY <1>2
<1>4. PICK only \in SUBSET Hosts : only = {h}
  OBVIOUS
<1>5. PICK n : n = Notes(s, notes, Now(spool), only)
  OBVIOUS
<1>6. n \in Noted /\ Midway(n.conn, {h}, spool)
  BY <1>1, <1>3, <1>5, NotesMidway
<1>7. PICK w : w = Event("NOTIFY")
  OBVIOUS
<1>8. w \in EVENT /\ w.type = "NOTIFY" /\ w.own = FALSE
  BY <1>7, EventTyped DEF EventTypes
<1>9. PICK cm : cm = [n.conn EXCEPT ![h] = event_insert(@, w)]
  OBVIOUS
<1>10. Midway(cm, {}, spool)
  BY <1>6, <1>8, <1>9, WaitMidway
<1>11. PICK r : r = [n EXCEPT !.conn = cm]
  OBVIOUS
<1>12. r \in Noted /\ r.conn = cm
  BY <1>6, <1>10, <1>11 DEF Midway, Noted
<1>13. Enabled(h, cn) = r
  BY <1>1, <1>2, <1>4, <1>5, <1>7, <1>9, <1>11 DEF Enabled
<1> QED BY <1>10, <1>12, <1>13


LEMMA SetKept == \A h \in Hosts : ClientInv /\ command_set(h) => ClientInv'
<1> SUFFICES ASSUME NEW h \in Hosts, ClientInv, command_set(h) PROVE ClientInv'
  OBVIOUS
<1>1. CanRead(h) /\ UNCHANGED <<spool, last_id, monitor_count, ring, monitor_update, need_to_reset>>
  BY DEF command_set
<1>2. PICK b : b = Took(h)
  OBVIOUS
<1>3. Bare(b) /\ b.monitor = conn[h].monitor /\ b \in CONNECTION
  BY <1>1, <1>2, TookMidway DEF Bare
<1>4. conn[h].mask \in SUBSET Kinds
  BY DEF ClientInv, CONNECTION
<1>5. PICK ev \in EventLists \cup {NoList}, vol \in BOOLEAN, fresh \in BOOLEAN,
           st \in BOOLEAN :
         LET mask == do_events(conn[h].mask, ev)
             c == IF ev = NoList THEN Took(h)
                  ELSE [Took(h) EXCEPT !.mask = mask, !.id = ev.id]
             cn == With(h, InsertReply(c, Write("reply")))
             on == ev # NoList /\ mask # {}
             n == IF on THEN Enabled(h, cn) ELSE State(cn)
             n1 == IF vol THEN VolumeNote(n, fresh /\ ~on) ELSE n
             n2 == IF st THEN Notes(n1, <<Note("state", 0)>>, Now(spool), Hosts) ELSE n1
         IN  Leaves(n2)
  BY Zenon DEF command_set
<1>6. PICK mask : mask = do_events(conn[h].mask, ev)
  OBVIOUS
<1>7. PICK c : c = IF ev = NoList THEN b ELSE [b EXCEPT !.mask = mask, !.id = ev.id]
  OBVIOUS
<1>8. PICK cn : cn = With(h, InsertReply(c, Write("reply")))
  OBVIOUS
<1>9. PICK on : on = (ev # NoList /\ mask # {})
  OBVIOUS
<1>10. PICK n : n = IF on THEN Enabled(h, cn) ELSE State(cn)
  OBVIOUS
<1>11. PICK n1 : n1 = IF vol THEN VolumeNote(n, fresh /\ ~on) ELSE n
  OBVIOUS
<1>12. PICK n2 : n2 = IF st THEN Notes(n1, <<Note("state", 0)>>, Now(spool), Hosts) ELSE n1
  OBVIOUS
<1>13. conn' = n2.conn /\ prev' = n2.prev /\ kept' = n2.kept
  <2>1. Leaves(n2)
    BY <1>2, <1>5, <1>6, <1>7, <1>8, <1>9, <1>10, <1>11, <1>12, Zenon
  <2> QED BY <2>1 DEF Leaves
<1>14. mask \in SUBSET Kinds /\ ev.id \in Nat
  BY <1>4, <1>6, EventsTyped
<1>15. Bare(c) /\ c.monitor = b.monitor /\ (on => c.mask # {})
  <2>1. CASE ev = NoList
    BY <1>3, <1>7, <1>9, <2>1
  <2>2. CASE ev # NoList
    <3>1. /\ c \in CONNECTION /\ c.q = b.q /\ c.mask = mask /\ c.monitor = b.monitor
          /\ c.open = b.open
      BY <1>3, <1>7, <1>14, <2>2 DEF CONNECTION
    <3>2. Bare(c)
      BY <1>3, <3>1 DEF Bare, Good
    <3> QED BY <1>9, <3>1, <3>2
  <2> QED BY <2>1, <2>2
<1>16. PICK w : w = Write("reply")
  OBVIOUS
<1>17. Plain(w)
  BY <1>16, EventTyped
<1>18. PICK d : d = InsertReply(c, w)
  OBVIOUS
<1>19. /\ Bare(d) /\ d.answered /\ d.q # <<>> /\ d.monitor = conn[h].monitor
       /\ on => d.mask # {}
  BY <1>3, <1>15, <1>17, <1>18, InsertReplyBare
<1>20. cn = With(h, d)
  BY <1>8, <1>16, <1>18
<1>21. n \in Noted /\ Midway(n.conn, {}, spool)
  <2>1. CASE on
    <3>1. Midway(cn, {h}, spool)
      BY <1>19, <1>20, <2>1, BareMidway
    <3> QED BY <1>10, <2>1, <3>1, EnabledMidway
  <2>2. CASE ~on
    <3>1. Settled(d, spool)
      BY <1>19, BareSettled
    <3>2. Midway(cn, {}, spool)
      BY <1>19, <1>20, <3>1, WithMidway
    <3>3. State(cn) \in Noted /\ State(cn).conn = cn
      BY <3>2, StateNoted DEF Midway, ClientInv
    <3> QED BY <1>10, <2>2, <3>2, <3>3
  <2> QED BY <2>1, <2>2
<1>22. n1 \in Noted /\ Midway(n1.conn, {}, spool)
  <2>1. PICK new : new = (fresh /\ ~on)
    OBVIOUS
  <2>2. VolumeNote(n, new) \in Noted /\ Midway(VolumeNote(n, new).conn, {}, spool)
    BY <1>21, VolumeMidway
  <2> QED BY <1>11, <1>21, <2>1, <2>2
<1>23. n2 \in Noted /\ Midway(n2.conn, {}, spool)
  <2>1. PICK notes : notes = <<Note("state", 0)>>
    OBVIOUS
  <2>2. Len(notes) \in Nat
    BY <2>1
  <2>3. PICK only \in SUBSET Hosts : only = Hosts
    OBVIOUS
  <2>4. PICK r : r = Notes(n1, notes, Now(spool), only)
    OBVIOUS
  <2>5. r \in Noted /\ Midway(r.conn, {}, spool)
    BY <1>22, <2>2, <2>4, NotesMidway
  <2> QED BY <1>12, <1>22, <2>1, <2>3, <2>4, <2>5
<1>24. /\ spool' \in [Ids -> States] /\ last_id' \in 0..SPOOL_MAX_ID
       /\ Midway(n2.conn, {}, spool')
       /\ UNCHANGED <<monitor_count, ring, monitor_update, need_to_reset>>
  BY <1>1, <1>23 DEF ClientInv, World
<1> QED BY <1>13, <1>23, <1>24, NotedInv

LEMMA MonitorKept == \A h \in Hosts : ClientInv /\ command_monitor(h) => ClientInv'
<1> SUFFICES ASSUME NEW h \in Hosts, ClientInv, command_monitor(h) PROVE ClientInv'
  OBVIOUS
<1>1. CanRead(h)
  BY DEF command_monitor
<1>2. PICK b : b = Took(h)
  OBVIOUS
<1>3. Bare(b) /\ ~conn[h].monitor
  BY <1>1, <1>2, TookMidway
<1>4. PICK c : c = connection_reply(b)
  OBVIOUS
<1>5. Bare(c) /\ c.answered /\ c \in CONNECTION
  BY <1>3, <1>4, ReplyBare DEF Bare
<1>6. PICK w : w = Event("WAIT_MONITOR")
  OBVIOUS
<1>7. w \in EVENT /\ w.type = "WAIT_MONITOR" /\ w.own = FALSE /\ w.wait = {}
  BY <1>6, EventTyped DEF EventTypes
<1>8. PICK e : e = event_insert(c, w)
  OBVIOUS
<1>9. /\ e \in CONNECTION /\ e.mask = c.mask /\ e.open = c.open /\ e.answered = c.answered
      /\ Len(c.q) \in Nat /\ Len(e.q) = Len(c.q) + 1 /\ e.q # <<>>
      /\ e.q[Len(c.q) + 1] = w
      /\ \A a \in 1..Len(c.q) : e.q[a] = c.q[a]
  BY <1>5, <1>7, <1>8, InsertIs, ZenonT(60)
<1>10. PICK d : d = [e EXCEPT !.monitor = TRUE]
  OBVIOUS
<1>11. /\ d \in CONNECTION /\ d.q = e.q /\ d.mask = e.mask /\ d.open = e.open
       /\ d.answered = e.answered /\ d.monitor = TRUE
  BY <1>9, <1>10 DEF CONNECTION
<1>12. ASSUME NEW a \in 1..Len(e.q) PROVE EventOK(e.q[a], TRUE) /\ ~Reader(e.q[a])
  <2>1. CASE a = Len(c.q) + 1
    <3>1. e.q[a] = w
      BY <1>9, <2>1
    <3> QED BY <1>7, <3>1 DEF EventOK, Reader
  <2>2. CASE a # Len(c.q) + 1
    <3>1. a \in 1..Len(c.q)
      BY <1>9, <2>2
    <3>2. EventOK(c.q[a], c.monitor) /\ ~Reader(c.q[a])
      BY <1>5, <3>1 DEF Bare, Good
    <3> QED BY <1>9, <3>1, <3>2 DEF EventOK
  <2> QED BY <2>1, <2>2
<1>13. Good(d)
  <2>1. Len(c.q) + 1 \in 1..Len(e.q) /\ Buffers(e.q[Len(c.q) + 1])
    BY <1>7, <1>9 DEF Buffers, Monitors
  <2>2. d.open
    BY <1>5, <1>9, <1>11 DEF Bare
  <2> QED BY <1>11, <1>12, <2>1, <2>2 DEF Good
<1>14. Settled(d, spool)
  <2>1. \A a \in 1..Len(d.q) : ~d.q[a].own
    BY <1>11, <1>12 DEF EventOK, Reader
  <2> QED BY <1>5, <1>9, <1>11, <1>13, <2>1 DEF Settled
<1>15. conn' = With(h, d)
  BY <1>2, <1>4, <1>6, <1>8, <1>9, <1>10, <1>11 DEF command_monitor
<1>16. /\ conn' \in [Hosts -> CONNECTION] /\ conn'[h] = d
       /\ \A x \in Hosts : x # h => conn'[x] = conn[x]
  BY <1>11, <1>15 DEF With, ClientInv
<1>17. UNCHANGED <<spool, last_id, prev, kept, need_to_reset>>
  BY DEF command_monitor
<1>18. \A x \in Hosts : Settled(conn'[x], spool')
  BY <1>14, <1>16, <1>17 DEF ClientInv
<1>19. conn'[h].monitor = TRUE /\ conn[h].monitor = FALSE
  BY <1>3, <1>11, <1>16 DEF ClientInv, CONNECTION
<1>20. monitor_count' = Cardinality(Monitoring(conn'))
  <2>1. Cardinality(Monitoring(conn')) =
           IF conn[h].monitor = conn'[h].monitor THEN Cardinality(Monitoring(conn))
           ELSE IF conn'[h].monitor = TRUE /\ conn[h].monitor = FALSE
                THEN Cardinality(Monitoring(conn)) + 1
           ELSE IF conn'[h].monitor = FALSE /\ conn[h].monitor = TRUE
                THEN Cardinality(Monitoring(conn)) - 1
           ELSE Cardinality(Monitoring(conn'))
    BY <1>16, CountMonitors
  <2> QED BY <1>19, <2>1 DEF ClientInv, command_monitor
<1>21. ring' = TRUE /\ monitor_update' \in BOOLEAN
  BY DEF command_monitor, ClientInv, World
<1>22. World'
  BY <1>17, <1>21 DEF ClientInv, World
<1> QED BY <1>16, <1>18, <1>20, <1>21, <1>22 DEF ClientInv


-----------------------------------------------------------------------------
(* The monitor's buffers, and the main loop.                               *)

LEMMA FilledKept == ClientInv /\ rplayd_write => ClientInv'
<1> SUFFICES ASSUME ClientInv, rplayd_write PROVE ClientInv'
  OBVIOUS
<1>1. conn' = conn /\ spool' = spool /\ monitor_count' = monitor_count /\ ring' = ring
  BY DEF rplayd_write
<1>2. World'
  BY DEF rplayd_write, ClientInv, World
<1>3. Midway(conn', {}, spool')
  BY <1>1, InvMidway
<1> QED BY <1>1, <1>2, <1>3, MidwayInv

(* Waiting for a buffer, an event becomes one that writes it.              *)
LEMMA ContinuedSettled ==
    ASSUME NEW c, NEW sp, Settled(c, sp), NEW d,
           d = [c EXCEPT !.q = [k \in DOMAIN c.q |->
                   IF c.q[k].type = "WAIT_MONITOR"
                   THEN [c.q[k] EXCEPT !.type = "WRITE_MONITOR"] ELSE c.q[k]]]
    PROVE  Settled(d, sp) /\ d.monitor = c.monitor
<1>1. c \in CONNECTION /\ Good(c)
  BY DEF Settled
<1>2. PICK q \in Seq(EVENT) : q = c.q
  BY <1>1 DEF CONNECTION
<1>3. Len(q) \in Nat /\ DOMAIN q = 1..Len(q)
  BY LenProperties
<1>4. PICK r : r = [k \in 1..Len(q) |-> IF q[k].type = "WAIT_MONITOR"
                                        THEN [q[k] EXCEPT !.type = "WRITE_MONITOR"]
                                        ELSE q[k]]
  OBVIOUS
<1>5. ASSUME NEW k \in 1..Len(q)
      PROVE  /\ r[k] \in EVENT /\ r[k].own = q[k].own /\ r[k].wait = q[k].wait
             /\ r[k].id = q[k].id
             /\ r[k].type = IF q[k].type = "WAIT_MONITOR" THEN "WRITE_MONITOR" ELSE q[k].type
  <2>1. PICK e \in EVENT : e = q[k]
    OBVIOUS
  <2>2. CASE e.type = "WAIT_MONITOR"
    <3>1. PICK w : w = [e EXCEPT !.type = "WRITE_MONITOR"]
      OBVIOUS
    <3>2. /\ w.type = "WRITE_MONITOR" /\ w.id = e.id /\ w.wait = e.wait /\ w.own = e.own
          /\ w.n = e.n /\ w.has = e.has /\ w.keep = e.keep /\ w.more = e.more
          /\ w = [type |-> w.type, id |-> w.id, wait |-> w.wait, own |-> w.own,
                  n |-> w.n, has |-> w.has, keep |-> w.keep, more |-> w.more]
      BY <3>1 DEF EVENT
    <3>3. w.type \in EventTypes
      BY <3>2 DEF EventTypes
    <3>4. w \in EVENT
      BY <3>2, <3>3 DEF EVENT
    <3>5. r[k] = w
      BY <1>4, <2>1, <2>2, <3>1
    <3> QED BY <2>1, <2>2, <3>2, <3>4, <3>5
  <2>3. CASE e.type # "WAIT_MONITOR"
    BY <1>4, <2>1, <2>3
  <2> QED BY <2>2, <2>3
<1>6. r \in Seq(EVENT) /\ Len(r) = Len(q)
  <2>1. r \in [1..Len(q) -> EVENT]
    BY <1>4, <1>5
  <2>2. r \in Seq(EVENT)
    BY <1>3, <2>1, SeqDef
  <2>3. DOMAIN r = 1..Len(q)
    BY <2>1
  <2> QED BY <1>3, <2>2, <2>3, LenProperties
<1>7. d = [c EXCEPT !.q = r]
  BY <1>2, <1>3, <1>4
<1>8. /\ d \in CONNECTION /\ d.q = r /\ d.mask = c.mask /\ d.monitor = c.monitor
      /\ d.open = c.open /\ d.answered = c.answered /\ d.blank = c.blank
  BY <1>1, <1>6, <1>7 DEF CONNECTION
<1>9. \A k \in 1..Len(q) : /\ Reader(r[k]) <=> Reader(q[k])
                           /\ r[k].type = "NOTIFY" <=> q[k].type = "NOTIFY"
                           /\ Monitors(r[k]) <=> Monitors(q[k])
                           /\ Buffers(q[k]) => Buffers(r[k])
  BY <1>5 DEF Reader, Monitors, Buffers
<1>10. \A k \in 1..Len(q) : EventOK(r[k], c.monitor)
  <2> SUFFICES ASSUME NEW k \in 1..Len(q) PROVE EventOK(r[k], c.monitor)
    OBVIOUS
  <2>1. EventOK(q[k], c.monitor)
    BY <1>1, <1>2 DEF Good
  <2>2. /\ r[k].own = q[k].own /\ r[k].wait = q[k].wait /\ r[k].id = q[k].id
        /\ r[k].type = "NOTIFY" <=> q[k].type = "NOTIFY"
        /\ Monitors(r[k]) <=> Monitors(q[k])
    BY <1>5, <1>9
  <2> QED BY <2>1, <2>2 DEF EventOK
<1>11. r = <<>> => q = <<>>
  BY <1>6, EmptySeq
<1>12. Good(d)
  <2>1. d.open \/ d = NoConn
    <3> SUFFICES ASSUME c = NoConn PROVE d = NoConn
      BY <1>1, <1>8 DEF Good
    <3>1. q = <<>>
      BY <1>2 DEF NoConn
    <3>2. Len(r) = 0
      BY <1>6, <3>1, EmptySeq
    <3>3. r = q
      BY <1>6, <3>1, <3>2, EmptySeq
    <3> QED BY <1>1, <1>2, <1>7, <3>3 DEF CONNECTION
  <2>2. \A a, b \in 1..Len(q) : Reader(r[a]) /\ Reader(r[b]) => a = b
    BY <1>1, <1>2, <1>9 DEF Good
  <2>3. c.mask = {} => \A a \in 1..Len(q) : Reader(r[a]) => Len(q) = 1
    BY <1>1, <1>2, <1>9 DEF Good
  <2>4. c.monitor => \A a \in 1..Len(q) : ~Reader(r[a])
    BY <1>1, <1>2, <1>9 DEF Good
  <2>5. ASSUME c.monitor PROVE \E a \in 1..Len(q) : Buffers(r[a])
    BY <1>1, <1>2, <1>9, <2>5 DEF Good
  <2> QED BY <1>6, <1>8, <1>10, <2>1, <2>2, <2>3, <2>4, <2>5 DEF Good
<1>13. c.mask = {} => \A a \in 1..Len(q) : r[a].own => sp[r[a].id] # "none"
  BY <1>2, <1>5 DEF Settled
<1>14. ASSUME c.open, c.mask = {}, ~c.answered
       PROVE  \E a \in 1..Len(q) : r[a].type = "NOTIFY"
  BY <1>2, <1>9, <1>14 DEF Settled
<1>15. Settled(d, sp)
  BY <1>2, <1>6, <1>8, <1>11, <1>12, <1>13, <1>14 DEF Settled
<1> QED BY <1>8, <1>15

LEMMA ContinueKept == ClientInv /\ connection_monitor_continue => ClientInv'
<1> SUFFICES ASSUME ClientInv, connection_monitor_continue PROVE ClientInv'
  OBVIOUS
<1>1. ASSUME NEW x \in Hosts
      PROVE  Settled(conn'[x], spool) /\ conn'[x].monitor = conn[x].monitor
  <2>1. PICK c : c = conn[x]
    OBVIOUS
  <2>2. PICK d : d = [c EXCEPT !.q = [k \in DOMAIN c.q |->
                         IF c.q[k].type = "WAIT_MONITOR"
                         THEN [c.q[k] EXCEPT !.type = "WRITE_MONITOR"] ELSE c.q[k]]]
    OBVIOUS
  <2>3. Settled(c, spool)
    BY <2>1 DEF ClientInv
  <2>4. Settled(d, spool) /\ d.monitor = c.monitor
    BY <2>2, <2>3, ContinuedSettled
  <2>5. conn'[x] = d
    BY <2>1, <2>2 DEF connection_monitor_continue
  <2> QED BY <2>1, <2>4, <2>5
<1>2. conn' \in [Hosts -> CONNECTION]
  <2>1. conn' = [x \in Hosts |-> conn'[x]]
    BY DEF connection_monitor_continue
  <2>2. \A x \in Hosts : conn'[x] \in CONNECTION
    BY <1>1 DEF Settled
  <2> QED BY <2>1, <2>2
<1>3. UNCHANGED <<spool, last_id, prev, kept, monitor_count, ring, need_to_reset>>
      /\ monitor_update' = FALSE
  BY DEF connection_monitor_continue
<1>4. Midway(conn', {}, spool')
  BY <1>1, <1>2, <1>3 DEF Midway
<1>5. World'
  BY <1>3 DEF ClientInv, World
<1> QED BY <1>3, <1>4, <1>5, MidwayInv

LEMMA EnterIdleKept == ClientInv /\ EnterIdle => ClientInv'
<1> SUFFICES ASSUME ClientInv, EnterIdle PROVE ClientInv'
  OBVIOUS
<1>1. /\ conn' = conn /\ spool' = spool /\ last_id' = last_id /\ prev' = prev
      /\ kept' = kept /\ need_to_reset' = need_to_reset
      /\ monitor_update' = monitor_update /\ ring' = FALSE
      /\ monitor_count' = 0 /\ monitor_count = 0
  BY DEF EnterIdle
<1>2. World'
  BY <1>1 DEF ClientInv, World
<1>3. conn' \in [Hosts -> CONNECTION] /\ \A x \in Hosts : Settled(conn'[x], spool')
  BY <1>1 DEF ClientInv
<1>4. monitor_count' = Cardinality(Monitoring(conn'))
  BY <1>1 DEF ClientInv
<1>5. ~(monitor_count' > 0)
  BY <1>1
<1> QED BY <1>2, <1>3, <1>4, <1>5 DEF ClientInv

LEMMA ResetKept == ClientInv /\ reset => ClientInv'
<1> SUFFICES ASSUME ClientInv, reset PROVE ClientInv'
  OBVIOUS
<1>1. conn' = [h \in Hosts |-> NoConn] /\ spool' = [i \in Ids |-> "none"]
  BY DEF reset
<1>2. conn' \in [Hosts -> CONNECTION] /\ \A x \in Hosts : Settled(conn'[x], spool')
  BY <1>1, ClosedSettled
<1>3. Cardinality(Monitoring(conn')) = 0
  <2>1. Monitoring(conn') = {}
    BY <1>1, ClosedSettled DEF Monitoring
  <2> QED BY <2>1, FS_EmptySet
<1>4. monitor_count' = 0
  <2>1. monitor_count \in 0..Cardinality(Hosts)
    BY CountMonitors DEF ClientInv
  <2>2. monitor_count \in Int
    BY <2>1
  <2>3. monitor_count' = monitor_count - monitor_count
    BY DEF reset, ClientInv, Monitoring
  <2> QED BY <2>2, <2>3
<1>5. World'
  BY <1>1 DEF reset, ClientInv, World, States
<1> QED BY <1>2, <1>3, <1>4, <1>5 DEF ClientInv

-----------------------------------------------------------------------------
(* The invariant is inductive.                                             *)

LEMMA InitInv == Init => ClientInv
<1> SUFFICES ASSUME Init PROVE ClientInv
  OBVIOUS
<1>1. conn \in [Hosts -> CONNECTION] /\ \A x \in Hosts : Settled(conn[x], spool)
  BY ClosedSettled DEF Init
<1>2. Cardinality(Monitoring(conn)) = 0
  <2>1. Monitoring(conn) = {}
    BY ClosedSettled DEF Monitoring, Init
  <2> QED BY <2>1, FS_EmptySet
<1>3. World
  <2>1. SPOOL_MAX_ID \in Nat /\ BufferTexts \in Nat \ {0}
    BY IdAssumption, LimitAssumption
  <2>2. <<-1, -1>> \in (-1..SPOOL_MAX_ID) \X (-1..SPOOL_MAX_ID)
    BY <2>1
  <2>3. 0 \in 0..SPOOL_MAX_ID /\ 0 \in 0..(BufferTexts - 1)
    BY <2>1
  <2> QED BY <2>2, <2>3 DEF Init, World, States
<1> QED BY <1>1, <1>2, <1>3 DEF Init, ClientInv

LEMMA LineKept == \A h \in Hosts : ClientInv /\ Line(h) => ClientInv'
<1> SUFFICES ASSUME NEW h \in Hosts, ClientInv, Line(h) PROVE ClientInv'
  OBVIOUS
<1>1. ASSUME command_unknown(h) \/ command_find(h) \/ command_access(h)
             \/ command_info(h) \/ command_version(h) \/ command_application(h)
      PROVE  ClientInv'
  BY <1>1, ReplyKept1 DEF command_unknown, command_find, command_access, command_info,
        command_version, command_application
<1> QED
  BY <1>1, PartialLineKept, QuitKept, EmptyLineKept, BlankLineKept, HelpKept, ListKept,
     StatusKept, GetKept, VolumeKept, ExecuteKept, SkipKept, ModifyKept, WaitKept,
     SetKept, MonitorKept, CommandResetKept DEF Line

LEMMA InvKept == ClientInv /\ [Next]_vars => ClientInv'
<1> SUFFICES ASSUME ClientInv, [Next]_vars PROVE ClientInv'
  OBVIOUS
<1>1. ASSUME NEW h \in Hosts,
             \/ connection_client_open(h) \/ Hangup(h) \/ connection_timeout(h)
             \/ Written(h) \/ MonitorWritten(h) \/ Line(h)
      PROVE  ClientInv'
  BY <1>1, OpenKept, HangupKept, TimeoutKept, WrittenKept, MonitorWrittenKept, LineKept
<1>2. ASSUME NEW i \in Ids, SoundCame(i) \/ EntryEnds(i) PROVE ClientInv'
  BY <1>2, SoundCameKept, EntryEndsKept
<1>3. ASSUME UNCHANGED vars PROVE ClientInv'
  BY <1>3 DEF vars, monitor, ClientInv, World, Monitoring
<1> QED BY <1>1, <1>2, <1>3, ReadKept, FilledKept, ContinueKept, EnterIdleKept, ResetKept
        DEF Next


LEMMA Invariance == Spec => []ClientInv
BY InitInv, InvKept, PTL DEF Spec

-----------------------------------------------------------------------------
(* What the invariant says.                                                *)

(* The events of a queue are its elements.                                 *)
LEMMA EventsAre ==
    ASSUME ClientInv, NEW h \in Hosts
    PROVE  \A e : e \in EventsOf(h) <=> \E a \in 1..Len(conn[h].q) : conn[h].q[a] = e
<1>1. conn[h] \in CONNECTION
  BY DEF ClientInv
<1>2. PICK q : q = conn[h].q
  OBVIOUS
<1>3. q \in Seq(EVENT)
  BY <1>1, <1>2 DEF CONNECTION
<1>4. DOMAIN q = 1..Len(q)
  BY <1>3, LenProperties
<1> QED BY <1>2, <1>4 DEF EventsOf, Range

LEMMA InvNeverDeaf == ClientInv => NeverDeaf
BY DEF ClientInv, NeverDeaf, Settled

LEMMA InvOwnEntryLives == ClientInv => OwnEntryLives
<1>1. ASSUME ClientInv, NEW h \in Hosts, conn[h].mask = {},
             NEW e \in EventsOf(h), e.own
      PROVE  spool[e.id] # "none"
  <2>1. PICK a \in 1..Len(conn[h].q) : conn[h].q[a] = e
    BY <1>1, EventsAre
  <2>2. Settled(conn[h], spool)
    BY <1>1 DEF ClientInv
  <2> QED BY <1>1, <2>1, <2>2 DEF Settled
<1> QED BY <1>1 DEF OwnEntryLives

LEMMA InvMonitorRing == ClientInv => MonitorRing
<1>1. ASSUME ClientInv, NEW h \in Hosts, NEW e \in EventsOf(h), Monitors(e)
      PROVE  conn[h].monitor
  <2>1. PICK a \in 1..Len(conn[h].q) : conn[h].q[a] = e
    BY <1>1, EventsAre
  <2>2. Good(conn[h])
    BY <1>1 DEF ClientInv, Settled
  <2> QED BY <1>1, <2>1, <2>2 DEF Good, EventOK
<1>2. ASSUME ClientInv
      PROVE  /\ monitor_count = Cardinality({h \in Hosts : conn[h].monitor})
             /\ monitor_count > 0 => ring
  BY <1>2 DEF ClientInv, Monitoring
<1> QED BY <1>1, <1>2 DEF MonitorRing, Monitors

LEMMA InvAnswered == ClientInv => Answered
<1>1. ASSUME ClientInv, NEW h \in Hosts, conn[h].open, conn[h].mask = {},
             ~conn[h].answered
      PROVE  \E e \in EventsOf(h) : e.type = "NOTIFY"
  <2>1. Settled(conn[h], spool)
    BY <1>1 DEF ClientInv
  <2>2. PICK a \in 1..Len(conn[h].q) : conn[h].q[a].type = "NOTIFY"
    BY <1>1, <2>1 DEF Settled
  <2>3. conn[h].q[a] \in EventsOf(h)
    BY <1>1, EventsAre
  <2> QED BY <2>2, <2>3
<1> QED BY <1>1 DEF Answered

-----------------------------------------------------------------------------
(* The theorems.                                                           *)

(* The variables keep their types, and a closed connection is as a new     *)
(* one: whatever connection_close and connection_cleanup meet in the queue,*)
(* nothing of it is left to the next client in that place.  The ids of the *)
(* statics of spool_id and connection_notify stay in range, and no buffer  *)
(* kept for all is filled beyond its end.                                  *)
THEOREM TypeCorrect == Spec => []TypeOK
BY Invariance, InvTyped, PTL

(* rplayd never forgets a client: between two actions of doit, a connected *)
(* client has an event that reads, writes or waits, since event_delete     *)
(* puts a next one into an empty queue.  The one exception is a line of    *)
(* blanks, for which command returns without an event.                     *)
THEOREM AlwaysListening == Spec => []NeverDeaf
BY Invariance, InvNeverDeaf, PTL

(* Whoever gave "wait play" waits for an entry that is still in the spool: *)
(* whichever handler ends the entry, its done reaches the connection in    *)
(* the same step, before another entry may take the id, and no other text  *)
(* hides the wait.                                                         *)
THEOREM WaitsEnd == Spec => []OwnEntryLives
BY Invariance, InvOwnEntryLives, PTL

(* monitor_count is the number of the clients that monitor, through every  *)
(* command, hangup, timeout and reset; the buffers that the timer handler  *)
(* writes to are allocated whenever it is not zero, so monitor_cleanup     *)
(* never takes them away from a client; and only monitor clients hold      *)
(* monitor events.                                                         *)
THEOREM MonitorsCounted == Spec => []MonitorRing
BY Invariance, InvMonitorRing, PTL

(* Every command is answered: when command has returned, its reply is in   *)
(* the queue, or the client, having no notification, still waits.          *)
THEOREM CommandsAnswered == Spec => []Answered
BY Invariance, InvAnswered, PTL

=============================================================================
