---------------------------- MODULE LookupProofs ----------------------------
(***************************************************************************)
(* Theorems about Lookup, for every number of servers, every set of sounds *)
(* and every size of the cache: no search is lost or doubled, none is given*)
(* up before every server was asked, rplayd survives the loss of any       *)
(* connection, and the whole does what Finder promises the spool.          *)
(***************************************************************************)
EXTENDS Lookup, FiniteSetTheorems, SequenceTheorems, TLAPS

Event == [type : Connecting \cup Searching, snd : Sounds \cup {NoSound}]

(* A queue: an event that connects names no sound and is the first; no two *)
(* events name the same sound.                                             *)
QueueOK(q) ==
    /\ q \in Seq(Event)
    /\ \A k \in 1..Len(q) : q[k].type \in Connecting <=> q[k].snd = NoSound
    /\ \A k \in 1..Len(q) : q[k].snd = NoSound => k = 1
    /\ \A k, l \in 1..Len(q) : q[k].snd = q[l].snd => k = l

(* Every event of a queue names a sound.                                   *)
Plain(q) == \A k \in 1..Len(q) : q[k].snd # NoSound

(* rplayd connects only to search.                                         *)
Followed(q) == q # <<>> /\ q[1].snd = NoSound => Len(q) > 1

-----------------------------------------------------------------------------
(* Queues.                                                                 *)

(* The sounds a queue names, by position.                                  *)
LEMMA SoundsAre ==
    ASSUME NEW q \in Seq(Event)
    PROVE  \A s : s \in SoundsOf(q) <=> s # NoSound /\ \E k \in 1..Len(q) : q[k].snd = s
BY DEF SoundsOf

(* A queue names sounds only.                                              *)
LEMMA SoundsTyped ==
    ASSUME NEW q, QueueOK(q)
    PROVE  SoundsOf(q) \subseteq Sounds
<1>1. q \in Seq(Event)
  BY DEF QueueOK
<1>2. \A k \in 1..Len(q) : q[k].snd \in Sounds \cup {NoSound}
  <2>1. \A k \in 1..Len(q) : q[k] \in Event
    BY <1>1
  <2> QED BY <2>1 DEF Event
<1>3. \A s \in SoundsOf(q) : s # NoSound /\ \E k \in 1..Len(q) : q[k].snd = s
  BY <1>1, SoundsAre
<1> QED BY <1>2, <1>3

(* What is behind the head.                                                *)
LEMMA Behead ==
    ASSUME NEW q, QueueOK(q), q # <<>>
    PROVE  /\ QueueOK(Tail(q)) /\ Plain(Tail(q)) /\ Followed(Tail(q))
           /\ SoundsOf(Tail(q)) = SoundsOf(q) \ {Head(q).snd}
<1>1. q \in Seq(Event) /\ Len(q) \in Nat /\ Len(q) > 0 /\ Head(q) = q[1]
  BY DEF QueueOK
<1>2. /\ Tail(q) \in Seq(Event) /\ Len(Tail(q)) = Len(q) - 1
      /\ \A k \in 1..Len(Tail(q)) : Tail(q)[k] = q[k + 1]
  BY <1>1
<1>3. \A k \in 1..Len(Tail(q)) : k + 1 \in 1..Len(q)
  BY <1>1, <1>2
<1>4. Plain(Tail(q))
  BY <1>2, <1>3 DEF QueueOK, Plain
<1>5. QueueOK(Tail(q))
  <2>1. \A k \in 1..Len(Tail(q)) :
           Tail(q)[k].type \in Connecting <=> Tail(q)[k].snd = NoSound
    BY <1>2, <1>3 DEF QueueOK
  <2>2. \A k, l \in 1..Len(Tail(q)) : Tail(q)[k].snd = Tail(q)[l].snd => k = l
    <3> SUFFICES ASSUME NEW k \in 1..Len(Tail(q)), NEW l \in 1..Len(Tail(q)),
                        Tail(q)[k].snd = Tail(q)[l].snd
                 PROVE  k = l
      OBVIOUS
    <3>1. k + 1 = l + 1
      BY <1>2, <1>3 DEF QueueOK
    <3> QED BY <3>1
  <2> QED BY <1>2, <1>4, <2>1, <2>2 DEF QueueOK, Plain
<1>6. SoundsOf(Tail(q)) = SoundsOf(q) \ {Head(q).snd}
  <2>1. ASSUME NEW s, s \in SoundsOf(Tail(q)) PROVE s \in SoundsOf(q) /\ s # Head(q).snd
    <3>1. PICK k \in 1..Len(Tail(q)) : Tail(q)[k].snd = s /\ s # NoSound
      BY <1>2, <2>1, SoundsAre
    <3>2. q[k + 1].snd = s /\ k + 1 \in 1..Len(q) /\ 1 \in 1..Len(q) /\ k + 1 # 1
      BY <1>1, <1>2, <1>3, <3>1
    <3>3. q[1].snd # s
      BY <3>2 DEF QueueOK
    <3> QED BY <1>1, <3>1, <3>2, <3>3, SoundsAre
  <2>2. ASSUME NEW s, s \in SoundsOf(q), s # Head(q).snd PROVE s \in SoundsOf(Tail(q))
    <3>1. PICK k \in 1..Len(q) : q[k].snd = s /\ s # NoSound
      BY <1>1, <2>2, SoundsAre
    <3>2. k # 1
      BY <1>1, <2>2, <3>1
    <3>3. k - 1 \in 1..Len(Tail(q)) /\ Tail(q)[k - 1].snd = s
      BY <1>1, <1>2, <3>1, <3>2
    <3> QED BY <1>2, <3>1, <3>3, SoundsAre
  <2> QED BY <2>1, <2>2
<1>7. Followed(Tail(q))
  BY <1>2, <1>4 DEF Followed, Plain
<1> QED BY <1>4, <1>5, <1>6, <1>7

(* A queue with its head made an event of another type.                    *)
LEMMA Rehead ==
    ASSUME NEW q, QueueOK(q), q # <<>>, NEW t \in Connecting \cup Searching,
           t \in Connecting <=> Head(q).snd = NoSound,
           NEW r, r = <<Ev(t, Head(q).snd)>> \o Tail(q)
    PROVE  /\ QueueOK(r) /\ r # <<>> /\ SoundsOf(r) = SoundsOf(q)
           /\ Len(r) = Len(q) /\ Head(r) = Ev(t, Head(q).snd)
           /\ Followed(q) => Followed(r)
           /\ Plain(q) => Plain(r)
<1>1. q \in Seq(Event) /\ Len(q) \in Nat /\ Len(q) > 0 /\ Head(q) = q[1] /\ q[1] \in Event
  BY DEF QueueOK
<1>2. Ev(t, Head(q).snd) \in Event /\ Ev(t, Head(q).snd).snd = Head(q).snd
      /\ Ev(t, Head(q).snd).type = t
  BY <1>1 DEF Ev, Event
<1>3. /\ Tail(q) \in Seq(Event) /\ Len(Tail(q)) = Len(q) - 1
      /\ \A k \in 1..Len(Tail(q)) : Tail(q)[k] = q[k + 1]
  BY <1>1
<1> DEFINE e == Ev(t, Head(q).snd)
<1> HIDE DEF e
<1>4. e \in Event /\ e.snd = q[1].snd /\ e.type = t /\ r = <<e>> \o Tail(q)
  BY <1>1, <1>2 DEF e
<1>5. r \in Seq(Event) /\ Len(r) = Len(q) /\ r[1] = e
      /\ \A k \in 2..Len(r) : r[k] = q[k]
  BY <1>1, <1>3, <1>4
<1>6. \A k \in 1..Len(r) : r[k].snd = q[k].snd /\ (k = 1 \/ r[k] = q[k])
  BY <1>1, <1>4, <1>5
<1>7. QueueOK(r)
  <2>1. \A k \in 1..Len(r) : r[k].type \in Connecting <=> r[k].snd = NoSound
    BY <1>1, <1>4, <1>5, <1>6 DEF QueueOK
  <2> QED BY <1>5, <1>6, <2>1 DEF QueueOK
<1>8. SoundsOf(r) = SoundsOf(q)
  <2>1. \A s : s \in SoundsOf(r) <=> s # NoSound /\ \E k \in 1..Len(r) : r[k].snd = s
    BY <1>5, SoundsAre
  <2>2. \A s : s \in SoundsOf(q) <=> s # NoSound /\ \E k \in 1..Len(q) : q[k].snd = s
    BY <1>1, SoundsAre
  <2>3. \A s : s \in SoundsOf(r) <=> s \in SoundsOf(q)
    BY <1>5, <1>6, <2>1, <2>2
  <2> QED BY <2>3
<1>9. r # <<>> /\ Head(r) = e
  BY <1>1, <1>5
<1>10. (Followed(q) => Followed(r)) /\ (Plain(q) => Plain(r))
  BY <1>1, <1>5, <1>6 DEF Followed, Plain
<1> QED BY <1>5, <1>7, <1>8, <1>9, <1>10 DEF e

(* event_insert of events that name other sounds.                          *)
LEMMA Joined ==
    ASSUME NEW q, QueueOK(q), NEW evs, QueueOK(evs), Plain(evs), evs # <<>>,
           SoundsOf(q) \cap SoundsOf(evs) = {}
    PROVE  /\ QueueOK(q \o evs) /\ Followed(q \o evs)
           /\ SoundsOf(q \o evs) = SoundsOf(q) \cup SoundsOf(evs)
<1>1. /\ q \in Seq(Event) /\ evs \in Seq(Event) /\ Len(q) \in Nat /\ Len(evs) \in Nat
      /\ Len(evs) > 0
  BY DEF QueueOK
<1> DEFINE r == q \o evs
<1>2. /\ r \in Seq(Event) /\ Len(r) = Len(q) + Len(evs)
      /\ \A k \in 1..Len(q) : r[k] = q[k]
      /\ \A k \in (Len(q) + 1)..Len(r) : r[k] = evs[k - Len(q)]
  BY <1>1
<1> HIDE DEF r
<1>3. \A k \in 1..Len(r) : k \in 1..Len(q) \/ k \in (Len(q) + 1)..Len(r)
  BY <1>1, <1>2
<1>4. \A k \in (Len(q) + 1)..Len(r) : k - Len(q) \in 1..Len(evs)
  BY <1>1, <1>2
<1>5. \A k \in (Len(q) + 1)..Len(r) : r[k].snd # NoSound /\ r[k].type \notin Connecting
                                     /\ r[k].snd \in SoundsOf(evs)
  BY <1>1, <1>2, <1>4, SoundsAre DEF Plain, QueueOK
<1>6. \A k \in 1..Len(q) : r[k].snd = NoSound \/ r[k].snd \in SoundsOf(q)
  <2>1. \A s : s \in SoundsOf(q) <=> s # NoSound /\ \E k \in 1..Len(q) : q[k].snd = s
    BY <1>1, SoundsAre
  <2> QED BY <1>2, <2>1
<1>7. QueueOK(r)
  <2>1. \A k \in 1..Len(r) : r[k].type \in Connecting <=> r[k].snd = NoSound
    BY <1>2, <1>3, <1>5 DEF QueueOK
  <2>2. \A k \in 1..Len(r) : r[k].snd = NoSound => k = 1
    BY <1>2, <1>3, <1>5 DEF QueueOK
  <2>3. \A k, l \in 1..Len(r) : r[k].snd = r[l].snd => k = l
    <3> SUFFICES ASSUME NEW k \in 1..Len(r), NEW l \in 1..Len(r), r[k].snd = r[l].snd
                 PROVE  k = l
      OBVIOUS
    <3>1. CASE k \in 1..Len(q) /\ l \in 1..Len(q)
      BY <1>2, <3>1 DEF QueueOK
    <3>2. CASE k \in (Len(q) + 1)..Len(r) /\ l \in (Len(q) + 1)..Len(r)
      <4>1. PICK m \in 1..Len(evs), n \in 1..Len(evs) : m = k - Len(q) /\ n = l - Len(q)
        BY <1>4, <3>2
      <4>2. evs[m].snd = evs[n].snd
        BY <1>2, <3>2, <4>1
      <4>3. m = n
        BY <4>2 DEF QueueOK
      <4> QED BY <1>1, <4>1, <4>3
    <3>3. CASE k \in 1..Len(q) /\ l \in (Len(q) + 1)..Len(r)
      BY <1>5, <1>6, <3>3
    <3>4. CASE l \in 1..Len(q) /\ k \in (Len(q) + 1)..Len(r)
      BY <1>5, <1>6, <3>4
    <3> QED BY <1>3, <3>1, <3>2, <3>3, <3>4
  <2> QED BY <1>2, <2>1, <2>2, <2>3 DEF QueueOK
<1>8. SoundsOf(r) = SoundsOf(q) \cup SoundsOf(evs)
  <2>1. ASSUME NEW s, s \in SoundsOf(evs) PROVE s \in SoundsOf(r)
    <3>1. PICK k \in 1..Len(evs) : evs[k].snd = s /\ s # NoSound
      BY <1>1, <2>1, SoundsAre
    <3>2. Len(q) + k \in (Len(q) + 1)..Len(r) /\ Len(q) + k \in 1..Len(r)
          /\ (Len(q) + k) - Len(q) = k
      BY <1>1, <1>2, <3>1
    <3>3. r[Len(q) + k] = evs[k]
      BY <1>2, <3>2
    <3> QED BY <1>2, <3>1, <3>2, <3>3, SoundsAre
  <2>2. ASSUME NEW s, s \in SoundsOf(q) PROVE s \in SoundsOf(r)
    <3>1. PICK k \in 1..Len(q) : q[k].snd = s /\ s # NoSound
      BY <1>1, <2>2, SoundsAre
    <3>2. k \in 1..Len(r) /\ r[k].snd = s
      BY <1>1, <1>2, <3>1
    <3> QED BY <1>2, <3>1, <3>2, SoundsAre
  <2>3. ASSUME NEW s, s \in SoundsOf(r) PROVE s \in SoundsOf(q) \cup SoundsOf(evs)
    <3>1. PICK k \in 1..Len(r) : r[k].snd = s /\ s # NoSound
      BY <1>2, <2>3, SoundsAre
    <3> QED BY <1>3, <1>5, <1>6, <3>1
  <2> QED BY <2>1, <2>2, <2>3
<1>9. Followed(r)
  <2>1. CASE Len(q) = 0
    BY <1>1, <1>2, <1>5, <2>1 DEF Followed
  <2>2. CASE Len(q) > 0
    BY <1>1, <1>2, <2>2 DEF Followed
  <2> QED BY <1>1, <2>1, <2>2
<1> QED BY <1>7, <1>8, <1>9 DEF r

-----------------------------------------------------------------------------
(* Connections.                                                            *)

Connection == [open : BOOLEAN, q : Seq(Event), nconnects : 0..Attempts, skewed : BOOLEAN]
ConnOK(c) == /\ c \in Connection /\ QueueOK(c.q) /\ Followed(c.q)
             /\ c.open \/ c.q = <<>>
Has(cn, i) == SoundsOf(cn[i].q)

(* No sound is named by two connections.                                   *)
ConnsOK(cn) ==
    /\ cn \in [Servers -> Connection] /\ \A i \in Servers : ConnOK(cn[i])
    /\ \A i, j \in Servers : i # j => Has(cn, i) \cap Has(cn, j) = {}
Named(cn) == UNION {Has(cn, i) : i \in Servers}

(* An empty queue, and one with a single event.                            *)
LEMMA ShortQueues ==
    /\ QueueOK(<<>>) /\ Plain(<<>>) /\ Followed(<<>>) /\ SoundsOf(<<>>) = {}
    /\ QueueOK(<<Ev("CONNECT", NoSound)>>) /\ SoundsOf(<<Ev("CONNECT", NoSound)>>) = {}
    /\ \A s \in Sounds : LET q == <<Ev("WRITE_FIND", s)>>
                         IN QueueOK(q) /\ Plain(q) /\ q # <<>> /\ SoundsOf(q) = {s}
<1>1. QueueOK(<<>>) /\ Plain(<<>>) /\ Followed(<<>>) /\ SoundsOf(<<>>) = {}
  BY DEF QueueOK, Plain, Followed, SoundsOf
<1>2. ASSUME NEW t \in Connecting \cup Searching, NEW s \in Sounds \cup {NoSound},
             t \in Connecting <=> s = NoSound
      PROVE  LET q == <<Ev(t, s)>>
             IN /\ QueueOK(q) /\ q # <<>> /\ SoundsOf(q) = {s} \ {NoSound}
                /\ s # NoSound => Plain(q)
  <2> DEFINE e == Ev(t, s)
             q == <<e>>
  <2>1. e \in Event /\ e.type = t /\ e.snd = s
    BY DEF Ev, Event
  <2> HIDE DEF e
  <2>2. q \in Seq(Event) /\ Len(q) = 1 /\ q[1] = e /\ DOMAIN q = {1} /\ q # <<>>
    BY <2>1
  <2> HIDE DEF q
  <2>3. QueueOK(q)
    BY <1>2, <2>1, <2>2 DEF QueueOK
  <2>4. SoundsOf(q) = {s} \ {NoSound}
    BY <2>1, <2>2 DEF SoundsOf
  <2>5. s # NoSound => Plain(q)
    BY <2>1, <2>2 DEF Plain
  <2> QED BY <2>2, <2>3, <2>4, <2>5 DEF q, e
<1>3. "CONNECT" \in Connecting /\ "WRITE_FIND" \in Searching /\ "WRITE_FIND" \notin Connecting
  BY DEF Connecting, Searching
<1>4. NoSound \notin Sounds
  BY NameAssumption
<1>5. QueueOK(<<Ev("CONNECT", NoSound)>>) /\ SoundsOf(<<Ev("CONNECT", NoSound)>>) = {}
  BY <1>2, <1>3
<1>6. \A s \in Sounds : LET q == <<Ev("WRITE_FIND", s)>>
                         IN QueueOK(q) /\ Plain(q) /\ q # <<>> /\ SoundsOf(q) = {s}
  BY <1>2, <1>3, <1>4
<1> QED BY <1>1, <1>5, <1>6

(* No connection but i names a sound of S.                                 *)
ApartFrom(cn, i, S) == \A j \in Servers \ {i} : Has(cn, j) \cap S = {}

(* new is cn with other events for server i, which name the sounds of S.   *)
Changed(cn, new, i, S) ==
    /\ ConnsOK(new) /\ Has(new, i) = S
    /\ \A j \in Servers \ {i} : Has(new, j) = Has(cn, j)

(* One connection becomes c.                                               *)
LEMMA OneBecomes ==
    ASSUME NEW cn, ConnsOK(cn), NEW i \in Servers, NEW c, ConnOK(c),
           ApartFrom(cn, i, SoundsOf(c.q))
    PROVE  Changed(cn, [cn EXCEPT ![i] = c], i, SoundsOf(c.q))
<1> DEFINE new == [cn EXCEPT ![i] = c]
<1>1. cn \in [Servers -> Connection] /\ c \in Connection
  BY DEF ConnsOK, ConnOK
<1>2. new \in [Servers -> Connection] /\ new[i] = c
      /\ \A j \in Servers \ {i} : new[j] = cn[j]
  BY <1>1
<1> HIDE DEF new
<1>3. Has(new, i) = SoundsOf(c.q) /\ \A j \in Servers \ {i} : Has(new, j) = Has(cn, j)
  BY <1>2 DEF Has
<1>4. ASSUME NEW j \in Servers, NEW k \in Servers, j # k
      PROVE  Has(new, j) \cap Has(new, k) = {}
  <2>1. CASE j = i
    BY <1>3, <1>4, <2>1 DEF ApartFrom
  <2>2. CASE k = i
    BY <1>3, <1>4, <2>2 DEF ApartFrom
  <2>3. CASE j # i /\ k # i
    BY <1>3, <1>4, <2>3 DEF ConnsOK
  <2> QED BY <2>1, <2>2, <2>3
<1>5. \A j \in Servers : ConnOK(new[j])
  BY <1>2 DEF ConnsOK
<1>6. ConnsOK(new)
  BY <1>2, <1>4, <1>5 DEF ConnsOK
<1>7. Changed(cn, new, i, SoundsOf(c.q))
  BY <1>3, <1>6 DEF Changed
<1> QED BY <1>7 DEF new

(* One connection has another queue, with no sound that is new to it.      *)
LEMMA QueueBecomes ==
    ASSUME NEW cn, ConnsOK(cn), NEW i \in Servers, cn[i].q # <<>>,
           NEW r, QueueOK(r), Followed(r), SoundsOf(r) \subseteq Has(cn, i),
           NEW sk \in BOOLEAN, NEW n \in 0..Attempts,
           NEW c, c = [open |-> cn[i].open, q |-> r, nconnects |-> n, skewed |-> sk]
    PROVE  Changed(cn, [cn EXCEPT ![i] = c], i, SoundsOf(r))
<1>1. ConnOK(cn[i]) /\ cn[i].open \in BOOLEAN /\ cn[i].open
  BY DEF ConnsOK, ConnOK, Connection
<1>2. r \in Seq(Event)
  BY DEF QueueOK
<1>3. c \in Connection /\ c.q = r /\ c.open
  BY <1>1, <1>2 DEF Connection
<1>4. ConnOK(c)
  BY <1>3 DEF ConnOK
<1>5. ApartFrom(cn, i, SoundsOf(r))
  BY DEF ConnsOK, ApartFrom
<1> QED BY <1>3, <1>4, <1>5, OneBecomes

(* connection_close.                                                       *)
LEMMA ConnCloses ==
    ASSUME NEW cn, ConnsOK(cn), NEW i \in Servers
    PROVE  Changed(cn, [cn EXCEPT ![i] = NoConn], i, {})
<1>1. NoConn \in Connection /\ NoConn.q = <<>>
  BY BoundAssumption DEF NoConn, Connection
<1>2. ConnOK(NoConn) /\ SoundsOf(NoConn.q) = {}
  BY <1>1, ShortQueues DEF ConnOK
<1>3. ApartFrom(cn, i, {})
  BY DEF ApartFrom
<1> QED BY <1>2, <1>3, OneBecomes

(* connection_server_open and event_insert.                                *)
LEMMA ServerOpens ==
    ASSUME NEW cn, ConnsOK(cn), NEW i \in Servers,
           NEW evs, QueueOK(evs), Plain(evs), evs # <<>>,
           Named(cn) \cap SoundsOf(evs) = {}
    PROVE  Changed(cn, ServerOpen(cn, i, evs), i, Has(cn, i) \cup SoundsOf(evs))
<1> DEFINE c == IF cn[i].open THEN cn[i] ELSE NewConn
<1>1. /\ c \in Connection /\ c.open /\ QueueOK(c.q) /\ SoundsOf(c.q) = Has(cn, i)
      /\ c.q \in Seq(Event)
  <2>1. CASE cn[i].open
    BY <2>1 DEF ConnsOK, ConnOK, Has, QueueOK
  <2>2. CASE ~cn[i].open
    <3>1. cn[i].q = <<>>
      BY <2>2 DEF ConnsOK, ConnOK
    <3>2. NewConn.q = <<Ev("CONNECT", NoSound)>> /\ NewConn.open
      BY DEF NewConn
    <3>3. QueueOK(NewConn.q) /\ SoundsOf(NewConn.q) = {} /\ Has(cn, i) = {}
      BY <3>1, <3>2, ShortQueues DEF Has
    <3>4. NewConn.q \in Seq(Event)
      BY <3>3 DEF QueueOK
    <3>5. NewConn \in Connection
      BY <3>4, BoundAssumption DEF NewConn, Connection
    <3> QED BY <2>2, <3>2, <3>3, <3>4, <3>5
  <2> QED BY <2>1, <2>2
<1>2. ServerOpen(cn, i, evs) = [cn EXCEPT ![i] = [c EXCEPT !.q = c.q \o evs]]
  BY DEF ServerOpen
<1> HIDE DEF c
<1>3. SoundsOf(c.q) \cap SoundsOf(evs) = {}
  BY <1>1 DEF Named
<1>4. /\ QueueOK(c.q \o evs) /\ Followed(c.q \o evs)
      /\ SoundsOf(c.q \o evs) = SoundsOf(c.q) \cup SoundsOf(evs)
  BY <1>1, <1>3, Joined
<1>5. PICK d : d = [c EXCEPT !.q = c.q \o evs]
  OBVIOUS
<1>6. PICK r : r = c.q \o evs /\ r \in Seq(Event)
  BY <1>4 DEF QueueOK
<1>7. d \in Connection /\ d.q = r /\ d.open
  BY <1>1, <1>5, <1>6 DEF Connection
<1>8. ConnOK(d)
  BY <1>4, <1>6, <1>7 DEF ConnOK
<1>9. SoundsOf(d.q) = Has(cn, i) \cup SoundsOf(evs)
  BY <1>1, <1>4, <1>6, <1>7
<1>10. ApartFrom(cn, i, SoundsOf(d.q))
  <2> SUFFICES ASSUME NEW j \in Servers, j # i PROVE Has(cn, j) \cap SoundsOf(d.q) = {}
    BY DEF ApartFrom
  <2>1. Has(cn, j) \cap Has(cn, i) = {}
    BY DEF ConnsOK
  <2>2. Has(cn, j) \subseteq Named(cn)
    BY DEF Named
  <2> QED BY <1>9, <2>1, <2>2
<1>11. Changed(cn, [cn EXCEPT ![i] = d], i, SoundsOf(d.q))
  BY <1>8, <1>10, OneBecomes
<1> QED BY <1>2, <1>5, <1>9, <1>11

-----------------------------------------------------------------------------
(* What a step does to the events of all connections.                      *)

(* The sounds of D are named no longer; no event has come to a server.     *)
Shrunk(cn, new, D) ==
    /\ ConnsOK(new) /\ Named(new) = Named(cn) \ D
    /\ \A j \in Servers : Has(new, j) \subseteq Has(cn, j)

(* The sounds of F have gone from server i to the next.                    *)
Forwarded(cn, new, i, F) ==
    /\ ConnsOK(new) /\ Named(new) = Named(cn)
    /\ \A j \in Servers : Has(new, j) \subseteq Has(cn, j) \cup {s \in F : j = i + 1}

(* A server that keeps only some of its sounds.                            *)
LEMMA Shrinks ==
    ASSUME NEW cn, ConnsOK(cn), NEW new, NEW i \in Servers, NEW S, Changed(cn, new, i, S),
           S \subseteq Has(cn, i)
    PROVE  Shrunk(cn, new, Has(cn, i) \ S)
<1>1. /\ ConnsOK(new) /\ Has(new, i) = S
      /\ \A j \in Servers \ {i} : Has(new, j) = Has(cn, j)
  BY DEF Changed
<1>2. \A j \in Servers \ {i} : Has(cn, j) \cap Has(cn, i) = {}
  BY DEF ConnsOK
<1>3. \A s : s \in Named(new) <=> \E j \in Servers : s \in Has(new, j)
  BY DEF Named
<1>4. \A s : s \in Named(cn) <=> \E j \in Servers : s \in Has(cn, j)
  BY DEF Named
<1>5. ASSUME NEW s PROVE s \in Named(new) <=> s \in Named(cn) \ (Has(cn, i) \ S)
  BY <1>1, <1>2, <1>3, <1>4
<1>6. Named(new) = Named(cn) \ (Has(cn, i) \ S)
  BY <1>5
<1>7. \A j \in Servers : Has(new, j) \subseteq Has(cn, j)
  BY <1>1
<1> QED BY <1>1, <1>6, <1>7 DEF Shrunk

(* A server whose sounds do not change.                                    *)
LEMMA Stands ==
    ASSUME NEW cn, ConnsOK(cn), NEW new, NEW i \in Servers, Changed(cn, new, i, Has(cn, i))
    PROVE  Shrunk(cn, new, {})
<1>1. Has(cn, i) \ Has(cn, i) = {}
  OBVIOUS
<1> QED BY <1>1, Shrinks

(* Sounds that one server gives up are opened at the next.                 *)
LEMMA Forwards ==
    ASSUME NEW cn, ConnsOK(cn), NEW mid, NEW i \in Servers, i + 1 \in Servers,
           NEW evs, QueueOK(evs), Plain(evs), evs # <<>>, SoundsOf(evs) \subseteq Has(cn, i),
           Changed(cn, mid, i, Has(cn, i) \ SoundsOf(evs)),
           NEW new, new = ServerOpen(mid, i + 1, evs)
    PROVE  Forwarded(cn, new, i, SoundsOf(evs))
<1> DEFINE F == SoundsOf(evs)
           D == Has(cn, i) \ (Has(cn, i) \ F)
<1>1. D = F
  OBVIOUS
<1>2. Shrunk(cn, mid, D)
  BY Shrinks
<1> HIDE DEF D
<1>3. /\ ConnsOK(mid) /\ Named(mid) = Named(cn) \ F
      /\ \A j \in Servers : Has(mid, j) \subseteq Has(cn, j)
  BY <1>1, <1>2 DEF Shrunk
<1>4. Changed(mid, ServerOpen(mid, i + 1, evs), i + 1, Has(mid, i + 1) \cup F)
  BY <1>3, ServerOpens
<1>5. /\ ConnsOK(new) /\ Has(new, i + 1) = Has(mid, i + 1) \cup F
      /\ \A j \in Servers \ {i + 1} : Has(new, j) = Has(mid, j)
  BY <1>4 DEF Changed
<1>6. F \subseteq Named(cn)
  BY DEF Named
<1> HIDE DEF F
<1>7. \A s : s \in Named(new) <=> \E j \in Servers : s \in Has(new, j)
  BY DEF Named
<1>8. \A s : s \in Named(mid) <=> \E j \in Servers : s \in Has(mid, j)
  BY DEF Named
<1>9. ASSUME NEW s PROVE s \in Named(new) <=> s \in Named(cn)
  BY <1>3, <1>5, <1>6, <1>7, <1>8
<1>10. Named(new) = Named(cn)
  BY <1>9
<1>11. ASSUME NEW j \in Servers
       PROVE  Has(new, j) \subseteq Has(cn, j) \cup {s \in F : j = i + 1}
  BY <1>3, <1>5
<1> QED BY <1>5, <1>10, <1>11 DEF Forwarded, F

-----------------------------------------------------------------------------
(* The inductive invariant.                                                *)

TablesOK ==
    /\ status \in [Sounds -> {"none", "SEARCH", "NOT_READY", "READY"}]
    /\ file \in [Sounds -> Nat] /\ count \in [Sounds -> 0..MaxCount]
    /\ play \in [Sounds -> {"no", "wait", "play"}]
    /\ put \in [Sounds -> {"no", "read", "dead"}]
    /\ asked \in [Sounds -> SUBSET Servers]
CountersOK ==
    /\ sound_count \in 0..MaxCount /\ reopens \in 0..MaxReopen
    /\ daemon \in {"running", "exited"}

(* A sound is pending for an event that names it or for a put; an entry    *)
(* waits for a pending sound and plays one that is there.                  *)
SoundOK(s) ==
    /\ s \in Named(conn) <=> Pending(s) /\ put[s] = "no"
    /\ put[s] # "no" => status[s] = "NOT_READY"
    /\ play[s] = "wait" => Pending(s)
    /\ play[s] = "play" => status[s] = "READY"

(* A search has come to a server past all the ones before it.              *)
Reached == \A i \in Servers : \A s \in Has(conn, i) : 1..i \subseteq asked[s]

LInv == /\ TablesOK /\ CountersOK /\ ConnsOK(conn) /\ Reached
        /\ \A s \in Sounds : SoundOK(s)

(* What a step may do to a sound and its entry: a step of Finder.          *)
St(s) == IF Pending(s) THEN "pending" ELSE status[s]
Moves(s) ==
    \/ /\ play[s] = "no" /\ St(s) = "none"
       /\ \/ St(s)' = "pending" /\ play'[s] \in {"wait", "no"}
          \/ St(s)' = "READY" /\ play'[s] = "no"
    \/ /\ play[s] = "no" /\ St(s)' = St(s)
       /\ \/ St(s) = "pending" /\ play'[s] = "wait"
          \/ St(s) = "READY" /\ play'[s] = "play"
    \/ St(s)' = St(s) /\ play'[s] \in {"no", play[s]}
    \/ /\ St(s) = "pending" /\ St(s)' = "READY"
       /\ play'[s] = IF play[s] = "wait" THEN "play" ELSE "no"
    \/ St(s) # "none" /\ St(s)' = "none" /\ play'[s] = "no"

(* The sounds of a queue are sounds.                                       *)
LEMMA NamedAreSounds ==
    ASSUME NEW cn, ConnsOK(cn)
    PROVE  Named(cn) \subseteq Sounds /\ \A i \in Servers : Has(cn, i) \subseteq Sounds \cap Named(cn)
<1>1. \A i \in Servers : QueueOK(cn[i].q)
  BY DEF ConnsOK, ConnOK
<1>2. \A i \in Servers : Has(cn, i) \subseteq Sounds
  BY <1>1, SoundsTyped DEF Has
<1> QED BY <1>2 DEF Named

(* cache_free evicts only sounds that are there.                           *)
LEMMA EvictsReady ==
    ASSUME NEW size, NEW s \in Evicted(size)
    PROVE  s \in Sounds /\ status[s] = "READY"
BY DEF Evicted, Evictable

(* Nothing but events moves, and no sound is lost.                         *)
LEMMA EventsMove ==
    ASSUME LInv, Shrunk(conn, conn', {}), CountersOK',
           UNCHANGED <<status, file, count, play, put, asked>>
    PROVE  LInv' /\ \A s \in Sounds : Moves(s) /\ status'[s] = status[s]
<1>1. ConnsOK(conn)' /\ Named(conn)' = Named(conn)
      /\ \A j \in Servers : Has(conn, j)' \subseteq Has(conn, j)
  BY DEF Shrunk, ConnsOK, Named, Has
<1>2. TablesOK'
  BY DEF LInv, TablesOK
<1>3. Reached'
  BY <1>1 DEF LInv, Reached
<1>4. ASSUME NEW s \in Sounds PROVE SoundOK(s)' /\ Moves(s)
  <2>1. SoundOK(s)
    BY DEF LInv
  <2> QED BY <1>1, <2>1 DEF SoundOK, Moves, St, Pending
<1> QED BY <1>1, <1>2, <1>3, <1>4 DEF LInv

(* Searches go to the next server.                                         *)
LEMMA SearchMoves ==
    ASSUME LInv, NEW i \in Servers, i + 1 \in Servers, NEW F, F \subseteq Has(conn, i),
           Forwarded(conn, conn', i, F), CountersOK',
           UNCHANGED <<status, file, count, play, put>>,
           asked' = [s \in Sounds |-> IF s \in F THEN asked[s] \cup {i + 1} ELSE asked[s]]
    PROVE  LInv' /\ \A s \in Sounds : Moves(s) /\ status'[s] = status[s]
<1>1. ConnsOK(conn)' /\ Named(conn)' = Named(conn)
      /\ \A j \in Servers : Has(conn, j)' \subseteq Has(conn, j) \cup {s \in F : j = i + 1}
  BY DEF Forwarded, ConnsOK, Named, Has
<1>2. TablesOK'
  BY DEF LInv, TablesOK
<1>3. Reached'
  <2> SUFFICES ASSUME NEW j \in Servers, NEW s \in Has(conn, j)'
               PROVE  1..j \subseteq asked'[s]
    BY DEF Reached
  <2>1. ConnsOK(conn) /\ Reached
    BY DEF LInv
  <2>2. s \in Sounds
    BY <1>1, <2>1, NamedAreSounds
  <2>3. asked[s] \subseteq asked'[s] /\ (s \in F => i + 1 \in asked'[s])
    BY <2>2
  <2>4. CASE s \in Has(conn, j)
    BY <2>1, <2>3, <2>4 DEF Reached
  <2>5. CASE s \in F /\ j = i + 1
    <3>1. 1..i \subseteq asked[s]
      BY <2>1, <2>5 DEF Reached
    <3>2. 1..j = 1..i \cup {i + 1}
      BY <2>5 DEF Servers
    <3> QED BY <2>3, <2>5, <3>1, <3>2
  <2> QED BY <1>1, <2>4, <2>5
<1>4. ASSUME NEW s \in Sounds PROVE SoundOK(s)' /\ Moves(s)
  <2>1. SoundOK(s)
    BY DEF LInv
  <2> QED BY <1>1, <2>1 DEF SoundOK, Moves, St, Pending
<1> QED BY <1>1, <1>2, <1>3, <1>4 DEF LInv

(* Sounds are given up, with their events and entries.                     *)
LEMMA SoundsDrop ==
    ASSUME LInv, NEW S, Shrunk(conn, conn', S \cap Named(conn)), Drop(S), CountersOK',
           put' = [s \in Sounds |-> IF s \in S THEN "no" ELSE put[s]]
    PROVE  LInv' /\ \A s \in Sounds : Moves(s) /\ (s \notin S => status'[s] = status[s])
<1>1. ConnsOK(conn)' /\ Named(conn)' = Named(conn) \ S
      /\ \A j \in Servers : Has(conn, j)' \subseteq Has(conn, j)
  BY DEF Shrunk, ConnsOK, Named, Has
<1>2. TablesOK'
  BY BoundAssumption DEF LInv, TablesOK, Drop
<1>3. Reached'
  <2> SUFFICES ASSUME NEW j \in Servers, NEW s \in Has(conn, j)'
               PROVE  1..j \subseteq asked'[s]
    BY DEF Reached
  <2>1. s \in Sounds /\ s \in Has(conn, j) /\ s \notin S
    BY <1>1, NamedAreSounds DEF LInv, Named
  <2> QED BY <2>1 DEF LInv, Reached, Drop
<1>4. ASSUME NEW s \in Sounds
      PROVE  SoundOK(s)' /\ Moves(s) /\ (s \notin S => status'[s] = status[s])
  <2>1. SoundOK(s) /\ status[s] \in {"none", "SEARCH", "NOT_READY", "READY"}
        /\ play[s] \in {"no", "wait", "play"}
    BY DEF LInv, TablesOK
  <2>2. CASE s \in S
    <3>1. status'[s] = "none" /\ play'[s] = "no" /\ put'[s] = "no"
      BY <2>2 DEF Drop
    <3> QED BY <1>1, <2>1, <2>2, <3>1 DEF SoundOK, Moves, St, Pending
  <2>3. CASE s \notin S
    <3>1. status'[s] = status[s] /\ play'[s] = play[s] /\ put'[s] = put[s]
      BY <2>3 DEF Drop
    <3> QED BY <1>1, <2>1, <2>3, <3>1 DEF SoundOK, Moves, St, Pending
  <2> QED BY <2>2, <2>3
<1> QED BY <1>1, <1>2, <1>3, <1>4 DEF LInv

(* A sound that a put or a search has brought is there.                    *)
LEMMA SoundComes ==
    ASSUME LInv, NEW s \in Sounds, Pending(s), Shrunk(conn, conn', {s} \cap Named(conn)),
           BecomesReady(s), CountersOK', UNCHANGED <<file, count>>,
           put' = [put EXCEPT ![s] = "no"]
    PROVE  LInv' /\ \A t \in Sounds : Moves(t) /\ (status'[t] # "none" \/ status'[t] = status[t])
<1> USE DEF BecomesReady
<1>1. ConnsOK(conn)' /\ Named(conn)' = Named(conn) \ {s}
      /\ \A j \in Servers : Has(conn, j)' \subseteq Has(conn, j)
  BY DEF Shrunk, ConnsOK, Named, Has
<1>2. TablesOK'
  BY DEF LInv, TablesOK
<1>3. Reached'
  <2> SUFFICES ASSUME NEW j \in Servers, NEW t \in Has(conn, j)'
               PROVE  1..j \subseteq asked'[t]
    BY DEF Reached
  <2>1. t \in Sounds /\ t \in Has(conn, j) /\ t # s
    BY <1>1, NamedAreSounds DEF LInv, Named
  <2> QED BY <2>1 DEF LInv, Reached, TablesOK
<1>4. ASSUME NEW t \in Sounds
      PROVE  SoundOK(t)' /\ Moves(t) /\ (status'[t] # "none" \/ status'[t] = status[t])
  <2>1. SoundOK(t) /\ play[t] \in {"no", "wait", "play"} /\ TablesOK
    BY DEF LInv, TablesOK
  <2>2. CASE t = s
    <3>1. status'[t] = "READY" /\ put'[t] = "no"
          /\ play'[t] = (IF play[t] = "wait" THEN "play" ELSE play[t])
      BY <2>1, <2>2 DEF TablesOK
    <3> QED BY <1>1, <2>1, <2>2, <3>1 DEF SoundOK, Moves, St, Pending
  <2>3. CASE t # s
    <3>1. status'[t] = status[t] /\ play'[t] = play[t] /\ put'[t] = put[t]
      BY <2>1, <2>3 DEF TablesOK
    <3> QED BY <1>1, <2>1, <2>3, <3>1 DEF SoundOK, Moves, St, Pending
  <2> QED BY <2>2, <2>3
<1> QED BY <1>1, <1>2, <1>3, <1>4 DEF LInv

-----------------------------------------------------------------------------
(* One step of a connection.                                               *)

(* What a step must do, and what it may not do but when it gives up for    *)
(* one of the reasons AskedThemAll lists.                                  *)
Safe == LInv' /\ \A s \in Sounds : Moves(s)
Asked == \A s \in Sounds : status[s] = "SEARCH" /\ status'[s] = "none" => asked[s] = Servers

(* The head of a queue, and what is behind it.                             *)
LEMMA HeadOf ==
    ASSUME LInv, NEW i \in Servers, NEW t, HeadIs(i, t)
    PROVE  /\ daemon = "running" /\ conn[i].q # <<>> /\ QueueOK(conn[i].q)
           /\ Followed(conn[i].q)
           /\ QueueOK(Rest(i)) /\ Followed(Rest(i)) /\ Plain(Rest(i))
           /\ SoundsOf(Rest(i)) = Has(conn, i) \ {Snd(i)}
           /\ t \in Searching => /\ Snd(i) \in Has(conn, i) /\ Snd(i) # NoSound
                                 /\ Plain(conn[i].q)
           /\ t \in Connecting => Snd(i) = NoSound /\ Rest(i) # <<>>
<1> DEFINE q == conn[i].q
<1>1. daemon = "running" /\ q # <<>> /\ Head(q).type = t /\ Snd(i) = Head(q).snd
      /\ Rest(i) = Tail(q) /\ Has(conn, i) = SoundsOf(q)
  BY DEF HeadIs, Snd, Rest, Has
<1>2. QueueOK(q) /\ Followed(q)
  BY DEF LInv, ConnsOK, ConnOK
<1> HIDE DEF q
<1>3. q \in Seq(Event) /\ 1 \in 1..Len(q) /\ Head(q) = q[1] /\ Len(q) \in Nat
  BY <1>1, <1>2 DEF QueueOK
<1>4. ASSUME t \in Searching
      PROVE  Snd(i) \in Has(conn, i) /\ Snd(i) # NoSound /\ Plain(q)
  <2>1. t \notin Connecting
    BY <1>4 DEF Searching, Connecting
  <2>2. q[1].snd # NoSound
    BY <1>1, <1>2, <1>3, <2>1 DEF QueueOK
  <2>3. Plain(q)
    BY <1>2, <1>3, <2>2 DEF QueueOK, Plain
  <2> QED BY <1>1, <1>3, <2>2, <2>3, SoundsAre
<1>5. ASSUME t \in Connecting PROVE Snd(i) = NoSound /\ Rest(i) # <<>>
  <2>1. q[1].snd = NoSound
    BY <1>1, <1>2, <1>3, <1>5 DEF QueueOK
  <2>2. Len(q) > 1
    BY <1>1, <1>2, <2>1 DEF Followed
  <2>3. Len(Tail(q)) = Len(q) - 1
    BY <1>1, <1>3
  <2>4. Tail(q) # <<>>
    BY <1>3, <2>2, <2>3
  <2> QED BY <1>1, <1>3, <2>1, <2>4
<1> QED BY <1>1, <1>2, <1>4, <1>5, Behead DEF q

(* A connection with another queue.                                        *)
LEMMA WithQueue ==
    ASSUME LInv, NEW i \in Servers, conn[i].q # <<>>,
           NEW r, QueueOK(r), Followed(r), SoundsOf(r) \subseteq Has(conn, i)
    PROVE  Changed(conn, With(i, r), i, SoundsOf(r))
<1>1. ConnsOK(conn) /\ conn \in [Servers -> Connection] /\ conn[i] \in Connection
  BY DEF LInv, ConnsOK
<1>2. PICK c : c = [conn[i] EXCEPT !.q = r]
  OBVIOUS
<1>3. c = [open |-> conn[i].open, q |-> r, nconnects |-> conn[i].nconnects,
           skewed |-> conn[i].skewed]
  BY <1>1, <1>2 DEF Connection
<1>4. conn[i].nconnects \in 0..Attempts /\ conn[i].skewed \in BOOLEAN
  BY <1>1 DEF Connection
<1>5. Changed(conn, [conn EXCEPT ![i] = c], i, SoundsOf(r))
  BY <1>1, <1>3, <1>4, QueueBecomes
<1>6. With(i, r) = [conn EXCEPT ![i] = c]
  BY <1>1, <1>2 DEF With
<1> QED BY <1>5, <1>6

(* The queue with a head of another type.                                  *)
LEMMA HeadAgain ==
    ASSUME NEW i \in Servers, QueueOK(conn[i].q), conn[i].q # <<>>,
           NEW t \in Connecting \cup Searching, t \in Connecting <=> Snd(i) = NoSound,
           NEW r, r = <<Ev(t, Snd(i))>> \o Rest(i)
    PROVE  /\ QueueOK(r) /\ r # <<>> /\ SoundsOf(r) = Has(conn, i)
           /\ Followed(conn[i].q) => Followed(r)
           /\ Plain(conn[i].q) => Plain(r)
<1>1. PICK q : q = conn[i].q
  OBVIOUS
<1>2. /\ QueueOK(q) /\ q # <<>> /\ (t \in Connecting <=> Head(q).snd = NoSound)
      /\ r = <<Ev(t, Head(q).snd)>> \o Tail(q) /\ Has(conn, i) = SoundsOf(q)
  BY <1>1 DEF Snd, Rest, Has
<1>3. /\ QueueOK(r) /\ r # <<>> /\ SoundsOf(r) = SoundsOf(q)
      /\ (Followed(q) => Followed(r)) /\ (Plain(q) => Plain(r))
  BY <1>2, Rehead
<1> QED BY <1>1, <1>2, <1>3

(* The head becomes an event of another type.                              *)
LEMMA BecomesSafe ==
    ASSUME LInv, NEW i \in Servers, NEW u, HeadIs(i, u), NEW t \in Connecting \cup Searching,
           t \in Connecting <=> Snd(i) = NoSound,
           conn' = With(i, <<Ev(t, Snd(i))>> \o Rest(i))
    PROVE  Shrunk(conn, conn', {})
<1>1. PICK r : r = <<Ev(t, Snd(i))>> \o Rest(i)
  OBVIOUS
<1>2. conn[i].q # <<>> /\ QueueOK(conn[i].q) /\ Followed(conn[i].q)
  BY HeadOf
<1>3. QueueOK(r) /\ Followed(r) /\ SoundsOf(r) = Has(conn, i)
  BY <1>1, <1>2, HeadAgain
<1>4. Changed(conn, With(i, r), i, Has(conn, i))
  BY <1>2, <1>3, WithQueue
<1>5. conn' = With(i, r) /\ ConnsOK(conn)
  BY <1>1 DEF LInv
<1> QED BY <1>4, <1>5, Stands

(* The head goes.                                                          *)
LEMMA HeadGoes ==
    ASSUME LInv, NEW i \in Servers, NEW t, HeadIs(i, t)
    PROVE  Changed(conn, With(i, Rest(i)), i, Has(conn, i) \ {Snd(i)})
<1>1. /\ conn[i].q # <<>> /\ QueueOK(Rest(i)) /\ Followed(Rest(i))
      /\ SoundsOf(Rest(i)) = Has(conn, i) \ {Snd(i)}
  BY HeadOf
<1>2. SoundsOf(Rest(i)) \subseteq Has(conn, i)
  BY <1>1
<1> QED BY <1>1, <1>2, WithQueue

(* connection_server_reopen.                                               *)
LEMMA TimedOutSafe ==
    ASSUME LInv, NEW i \in Servers, NEW u \in Searching, HeadIs(i, u), NEW t \in Searching,
           TimedOut(i, t)
    PROVE  Safe /\ Asked
<1> DEFINE evs == <<Ev(t, Snd(i))>> \o Rest(i)
           first == <<Ev("CONNECT", NoSound)>>
<1>1. /\ conn[i].q # <<>> /\ QueueOK(conn[i].q) /\ Plain(conn[i].q) /\ Snd(i) # NoSound
      /\ ConnsOK(conn)
  BY HeadOf DEF LInv
<1>2. t \in Connecting \cup Searching /\ (t \in Connecting <=> Snd(i) = NoSound)
  BY <1>1 DEF Connecting, Searching
<1>3. QueueOK(evs) /\ Plain(evs) /\ evs # <<>> /\ SoundsOf(evs) = Has(conn, i)
  BY <1>1, <1>2, HeadAgain
<1>4. QueueOK(first) /\ SoundsOf(first) = {}
  BY ShortQueues
<1>5. conn' = Reopened(conn, i, evs)
  BY DEF TimedOut
<1> HIDE DEF evs, first
<1>6. QueueOK(first \o evs) /\ Followed(first \o evs) /\ SoundsOf(first \o evs) = Has(conn, i)
  <2>1. SoundsOf(first) \cap SoundsOf(evs) = {}
    BY <1>4
  <2>2. /\ QueueOK(first \o evs) /\ Followed(first \o evs)
        /\ SoundsOf(first \o evs) = SoundsOf(first) \cup SoundsOf(evs)
    BY <1>3, <1>4, <2>1, Joined
  <2> QED BY <1>3, <1>4, <2>2
<1>7. PICK r : r = first \o evs
  OBVIOUS
<1>8. PICK c : c = [open |-> TRUE, q |-> r, nconnects |-> 0, skewed |-> FALSE]
  OBVIOUS
<1>9. r \in Seq(Event) /\ QueueOK(r) /\ Followed(r) /\ SoundsOf(r) = Has(conn, i)
  BY <1>6, <1>7 DEF QueueOK
<1>10. c \in Connection /\ c.q = r /\ c.open
  BY <1>8, <1>9, BoundAssumption DEF Connection
<1>11. ConnOK(c)
  BY <1>9, <1>10 DEF ConnOK
<1>12. ApartFrom(conn, i, SoundsOf(c.q))
  BY <1>1, <1>9, <1>10 DEF ApartFrom, ConnsOK
<1>13. Changed(conn, [conn EXCEPT ![i] = c], i, Has(conn, i))
  BY <1>1, <1>9, <1>10, <1>11, <1>12, OneBecomes
<1>14. conn' = [conn EXCEPT ![i] = c]
  <2>1. NewConn = [open |-> TRUE, q |-> first, nconnects |-> 0, skewed |-> FALSE]
    BY DEF NewConn, first
  <2>2. PICK n : n = NewConn
    OBVIOUS
  <2>3. n \in Connection /\ n.open = TRUE /\ n.q = first /\ n.nconnects = 0 /\ n.skewed = FALSE
    BY <1>4, <2>1, <2>2, BoundAssumption DEF Connection, QueueOK
  <2>4. [n EXCEPT !.q = r]
          = [open |-> n.open, q |-> r, nconnects |-> n.nconnects, skewed |-> n.skewed]
    BY <2>3 DEF Connection
  <2>5. [n EXCEPT !.q = r] = c
    BY <1>8, <2>3, <2>4, Zenon
  <2> QED BY <1>5, <1>7, <2>2, <2>3, <2>5 DEF Reopened
<1>15. Shrunk(conn, conn', {})
  BY <1>1, <1>13, <1>14, Stands
<1>16. CountersOK' /\ UNCHANGED <<status, file, count, play, put, asked>>
  BY BoundAssumption DEF LInv, CountersOK, TimedOut
<1> QED BY <1>15, <1>16, EventsMove DEF Safe, Asked

(* With i the last server, its sounds have been asked of every server.     *)
LEMMA LastAsked ==
    ASSUME LInv, NServers \in Servers, NEW s \in Has(conn, NServers)
    PROVE  asked[s] = Servers
<1>1. s \in Sounds
  BY NamedAreSounds DEF LInv
<1>2. 1..NServers \subseteq asked[s] /\ asked[s] \subseteq Servers
  BY <1>1 DEF LInv, Reached, TablesOK
<1> QED BY <1>2 DEF Servers

(* Sounds are given up by a step of server i.                              *)
LEMMA ServerDrops ==
    ASSUME LInv, NEW i \in Servers, NEW S, S \subseteq Has(conn, i),
           NEW E, \A s \in E : s \in Sounds /\ status[s] = "READY",
           Changed(conn, conn', i, Has(conn, i) \ S), Drop(E \cup S), CountersOK',
           UNCHANGED put
    PROVE  Safe /\ \A s \in Sounds : s \notin E \cup S => status'[s] = status[s]
<1>1. ConnsOK(conn) /\ S \subseteq Named(conn)
  BY DEF LInv, Named
<1>2. Has(conn, i) \ (Has(conn, i) \ S) = S /\ Has(conn, i) \ S \subseteq Has(conn, i)
  OBVIOUS
<1>3. Shrunk(conn, conn', S)
  BY <1>1, <1>2, Shrinks
<1>4. E \cap Named(conn) = {} /\ \A s \in E : put[s] = "no"
  BY DEF LInv, SoundOK, Pending
<1>5. (E \cup S) \cap Named(conn) = S
  BY <1>1, <1>4
<1>6. put = [s \in Sounds |-> IF s \in E \cup S THEN "no" ELSE put[s]]
  <2>1. \A s \in Sounds : s \in E \cup S => put[s] = "no"
    BY <1>1, <1>4 DEF LInv, SoundOK
  <2> QED BY <2>1 DEF LInv, TablesOK
<1>7. PICK T : T = E \cup S
  OBVIOUS
<1>8. Shrunk(conn, conn', T \cap Named(conn)) /\ Drop(T)
      /\ put' = [s \in Sounds |-> IF s \in T THEN "no" ELSE put[s]]
  BY <1>3, <1>5, <1>6, <1>7
<1>9. LInv' /\ \A s \in Sounds : Moves(s) /\ (s \notin T => status'[s] = status[s])
  BY <1>8, SoundsDrop
<1> QED BY <1>7, <1>9 DEF Safe

(* Every event of a connection goes to the next server, or to none.        *)
LEMMA ForwardAllSafe ==
    ASSUME LInv, NEW i \in Servers, daemon = "running", NEW evs, QueueOK(evs), Plain(evs),
           evs # <<>>, SoundsOf(evs) = Has(conn, i), ForwardAll(i, evs)
    PROVE  Safe /\ Asked
<1>1. ConnsOK(conn) /\ CountersOK /\ i \in Int /\ NServers \in Int
  BY ServerAssumption DEF LInv, Servers
<1>2. Changed(conn, [conn EXCEPT ![i] = NoConn], i, {})
  BY <1>1, ConnCloses
<1>3. Has(conn, i) \ SoundsOf(evs) = {}
  OBVIOUS
<1>4. ASSUME i < NServers,
             conn' = ServerOpen([conn EXCEPT ![i] = NoConn], i + 1, evs),
             asked' = [s \in Sounds |-> IF s \in SoundsOf(evs)
                                        THEN asked[s] \cup {i + 1} ELSE asked[s]],
             UNCHANGED <<status, file, count, play, daemon>>,
             UNCHANGED <<sound_count, put, reopens>>
      PROVE  Safe /\ Asked
  <2>1. i + 1 \in Servers
    BY <1>1, <1>4 DEF Servers
  <2>2. Forwarded(conn, conn', i, SoundsOf(evs))
    BY <1>1, <1>2, <1>3, <1>4, <2>1, Forwards
  <2>3. CountersOK'
    BY <1>1, <1>4 DEF CountersOK
  <2>4. SoundsOf(evs) \subseteq Has(conn, i)
    OBVIOUS
  <2>5. LInv' /\ \A s \in Sounds : Moves(s) /\ status'[s] = status[s]
    BY <1>4, <2>1, <2>2, <2>3, <2>4, SearchMoves
  <2> QED BY <2>5 DEF Safe, Asked
<1>5. ASSUME i = NServers, conn' = [conn EXCEPT ![i] = NoConn], Drop(SoundsOf(evs)),
             UNCHANGED daemon, UNCHANGED <<sound_count, put, reopens>>
      PROVE  Safe /\ Asked
  <2>1. Changed(conn, conn', i, Has(conn, i) \ Has(conn, i)) /\ Drop({} \cup Has(conn, i))
    BY <1>2, <1>5
  <2>2. CountersOK'
    BY <1>1, <1>5 DEF CountersOK
  <2>3. Safe /\ \A s \in Sounds : s \notin {} \cup Has(conn, i) => status'[s] = status[s]
    BY <1>5, <2>1, <2>2, ServerDrops
  <2> QED BY <1>5, <2>3, LastAsked DEF Asked
<1> QED BY <1>4, <1>5 DEF ForwardAll

(* The head is made a find again.                                          *)
LEMMA FindElsewhereSafe ==
    ASSUME LInv, NEW i \in Servers, NEW t \in Searching, HeadIs(i, t), FindElsewhere(i)
    PROVE  Safe /\ Asked
<1>1. PICK evs : evs = <<Ev("WRITE_FIND", Snd(i))>> \o Rest(i)
  OBVIOUS
<1>2. /\ conn[i].q # <<>> /\ QueueOK(conn[i].q) /\ Plain(conn[i].q) /\ Snd(i) # NoSound
      /\ daemon = "running"
  BY HeadOf
<1>3. "WRITE_FIND" \in Connecting \cup Searching /\ "WRITE_FIND" \notin Connecting
  BY DEF Connecting, Searching
<1>4. QueueOK(evs) /\ Plain(evs) /\ evs # <<>> /\ SoundsOf(evs) = Has(conn, i)
  BY <1>1, <1>2, <1>3, HeadAgain
<1>5. ForwardAll(i, evs)
  BY <1>1 DEF FindElsewhere
<1> QED BY <1>2, <1>4, <1>5, ForwardAllSafe

(* Only the head goes to the next server, or to none.                      *)
LEMMA ForwardSoundSafe ==
    ASSUME LInv, NEW i \in Servers, NEW t \in Searching, HeadIs(i, t), ForwardSound(i)
    PROVE  Safe /\ Asked
<1>1. ConnsOK(conn) /\ CountersOK /\ i \in Int /\ NServers \in Int
  BY ServerAssumption DEF LInv, Servers
<1>2. Changed(conn, With(i, Rest(i)), i, Has(conn, i) \ {Snd(i)})
  BY HeadGoes
<1>3. Snd(i) \in Has(conn, i) /\ Snd(i) \in Sounds
  BY <1>1, HeadOf, NamedAreSounds
<1>4. PICK evs : evs = <<Ev("WRITE_FIND", Snd(i))>>
  OBVIOUS
<1>5. QueueOK(evs) /\ Plain(evs) /\ evs # <<>> /\ SoundsOf(evs) = {Snd(i)}
  BY <1>3, <1>4, ShortQueues
<1>6. CountersOK' /\ UNCHANGED put
  BY <1>1 DEF ForwardSound, CountersOK
<1>7. ASSUME i < NServers, conn' = ServerOpen(With(i, Rest(i)), i + 1, evs),
             asked' = [asked EXCEPT ![Snd(i)] = @ \cup {i + 1}],
             UNCHANGED <<status, file, count, play>>
      PROVE  Safe /\ Asked
  <2>1. i + 1 \in Servers
    BY <1>1, <1>7 DEF Servers
  <2>2. SoundsOf(evs) \subseteq Has(conn, i)
    BY <1>3, <1>5
  <2>3. Forwarded(conn, conn', i, {Snd(i)})
    BY <1>1, <1>2, <1>5, <1>7, <2>1, <2>2, Forwards
  <2>4. asked' = [s \in Sounds |-> IF s \in {Snd(i)} THEN asked[s] \cup {i + 1} ELSE asked[s]]
    BY <1>3, <1>7 DEF LInv, TablesOK
  <2>5. {Snd(i)} \subseteq Has(conn, i)
    BY <1>3
  <2>6. LInv' /\ \A s \in Sounds : Moves(s) /\ status'[s] = status[s]
    BY <1>6, <1>7, <2>1, <2>3, <2>4, <2>5, SearchMoves
  <2> QED BY <2>6 DEF Safe, Asked
<1>8. ASSUME i = NServers, conn' = With(i, Rest(i)), Drop({Snd(i)})
      PROVE  Safe /\ Asked
  <2>1. Changed(conn, conn', i, Has(conn, i) \ {Snd(i)}) /\ Drop({} \cup {Snd(i)})
        /\ {Snd(i)} \subseteq Has(conn, i)
    BY <1>2, <1>3, <1>8
  <2>2. Safe /\ \A s \in Sounds : s \notin {} \cup {Snd(i)} => status'[s] = status[s]
    BY <1>6, <2>1, ServerDrops
  <2> QED BY <1>3, <1>8, <2>2, LastAsked DEF Asked
<1> QED BY <1>4, <1>7, <1>8 DEF ForwardSound

(* done(1).                                                                *)
LEMMA UnknownReplySafe ==
    ASSUME LInv, NEW i \in Servers, UnknownReply(i)
    PROVE  Safe /\ Asked
<1>1. UNCHANGED <<status, file, count, play, put, asked>> /\ conn' = conn /\ CountersOK'
  BY DEF UnknownReply, LInv, CountersOK
<1>2. Shrunk(conn, conn', {})
  BY <1>1 DEF LInv, Shrunk
<1> QED BY <1>1, <1>2, EventsMove DEF Safe, Asked

(* cache_create makes the file of a sound that was found.                  *)
LEMMA FileMade ==
    ASSUME LInv, NEW s \in Sounds, s \in Named(conn), Shrunk(conn, conn', {}), CountersOK',
           status' = [status EXCEPT ![s] = "NOT_READY"],
           file' = [file EXCEPT ![s] = Size[s]], UNCHANGED <<count, play, put, asked>>
    PROVE  Safe
<1>1. ConnsOK(conn)' /\ Named(conn)' = Named(conn)
      /\ \A j \in Servers : Has(conn, j)' \subseteq Has(conn, j)
  BY DEF Shrunk, ConnsOK, Named, Has
<1>2. TablesOK'
  <2>1. Size[s] \in Nat
    BY SizeAssumption
  <2> QED BY <2>1 DEF LInv, TablesOK
<1>3. Reached'
  BY <1>1 DEF LInv, Reached
<1>4. ASSUME NEW t \in Sounds PROVE SoundOK(t)' /\ Moves(t)
  <2>1. SoundOK(t) /\ TablesOK
    BY DEF LInv
  <2>2. CASE t = s
    <3>1. status'[t] = "NOT_READY" /\ put'[t] = put[t] /\ play'[t] = play[t]
      BY <2>1, <2>2 DEF TablesOK
    <3> QED BY <1>1, <2>1, <2>2, <3>1 DEF SoundOK, Moves, St, Pending
  <2>3. CASE t # s
    <3>1. status'[t] = status[t] /\ put'[t] = put[t] /\ play'[t] = play[t]
      BY <2>1, <2>3 DEF TablesOK
    <3> QED BY <1>1, <2>1, <2>3, <3>1 DEF SoundOK, Moves, St, Pending
  <2> QED BY <2>2, <2>3
<1> QED BY <1>1, <1>2, <1>3, <1>4 DEF LInv, Safe

-----------------------------------------------------------------------------
(* The actions.                                                            *)

(* event_update of one server connection; the two replies that may give a  *)
(* search up before the last server are exempt from Asked.                 *)
LEMMA ServerSafe ==
    ASSUME LInv, NEW i \in Servers, ServerStep(i)
    PROVE  Safe /\ (FindReplyOK(i) \/ GetReplyOK(i) \/ Asked)
<1> USE DEF Connecting, Searching
<1>0. ConnsOK(conn) /\ CountersOK /\ TablesOK /\ Has(conn, i) \subseteq Sounds
  BY NamedAreSounds DEF LInv
<1>1. ASSUME NEW u, HeadIs(i, u), NEW t \in Connecting \cup Searching,
             t \in Connecting <=> Snd(i) = NoSound, Becomes(i, t)
      PROVE  Safe /\ Asked
  <2>1. Shrunk(conn, conn', {})
    BY <1>1, BecomesSafe DEF Becomes
  <2>2. CountersOK' /\ UNCHANGED <<status, file, count, play, put, asked>>
    BY <1>0, <1>1 DEF Becomes, CountersOK
  <2> QED BY <2>1, <2>2, EventsMove DEF Safe, Asked
<1>2. CASE ConnectDone(i)
  <2>1. HeadIs(i, "CONNECT") /\ Becomes(i, "READ_CONNECT_REPLY")
    BY <1>2 DEF ConnectDone
  <2>2. Snd(i) = NoSound
    BY <2>1, HeadOf
  <2> QED BY <1>1, <2>1, <2>2
<1>3. CASE ConnectRetry(i)
  <2>1. HeadIs(i, "CONNECT") /\ conn[i].nconnects + 1 < Attempts
        /\ conn' = [conn EXCEPT ![i].nconnects = @ + 1]
        /\ UNCHANGED <<status, file, count, sound_count, play, put, reopens, asked, daemon>>
    BY <1>3 DEF ConnectRetry
  <2>2. conn[i].q # <<>> /\ QueueOK(conn[i].q) /\ Followed(conn[i].q)
    BY <2>1, HeadOf
  <2>3. conn \in [Servers -> Connection] /\ conn[i] \in Connection
    BY <1>0 DEF ConnsOK
  <2>4. PICK c : c = [conn[i] EXCEPT !.nconnects = @ + 1]
    OBVIOUS
  <2>5. c = [open |-> conn[i].open, q |-> conn[i].q, nconnects |-> conn[i].nconnects + 1,
             skewed |-> conn[i].skewed]
    BY <2>3, <2>4 DEF Connection
  <2>6. conn[i].nconnects + 1 \in 0..Attempts /\ conn[i].skewed \in BOOLEAN
    BY <2>1, <2>3, BoundAssumption DEF Connection
  <2>7. SoundsOf(conn[i].q) = Has(conn, i)
    BY DEF Has
  <2>8. Changed(conn, [conn EXCEPT ![i] = c], i, Has(conn, i))
    BY <1>0, <2>2, <2>5, <2>6, <2>7, QueueBecomes
  <2>9. conn' = [conn EXCEPT ![i] = c]
    BY <2>1, <2>3, <2>4
  <2>10. Shrunk(conn, conn', {})
    BY <1>0, <2>8, <2>9, Stands
  <2>11. CountersOK'
    BY <1>0, <2>1 DEF CountersOK
  <2> QED BY <2>1, <2>10, <2>11, EventsMove DEF Safe, Asked
<1>4. ASSUME NEW u \in Connecting, HeadIs(i, u), ForwardAll(i, Rest(i))
      PROVE  Safe /\ Asked
  <2>1. /\ daemon = "running" /\ QueueOK(Rest(i)) /\ Plain(Rest(i)) /\ Rest(i) # <<>>
        /\ SoundsOf(Rest(i)) = Has(conn, i) \ {NoSound}
    BY <1>4, HeadOf
  <2>2. SoundsOf(Rest(i)) = Has(conn, i)
    BY <2>1 DEF Has, SoundsOf
  <2> QED BY <1>4, <2>1, <2>2, ForwardAllSafe
<1>5. CASE ConnectFails(i)
  BY <1>4, <1>5 DEF ConnectFails
<1>6. CASE ConnectReply(i)
  <2>1. HeadIs(i, "READ_CONNECT_REPLY")
    BY <1>6 DEF ConnectReply
  <2>2. ASSUME conn' = With(i, Rest(i)),
               UNCHANGED <<status, file, count, sound_count, play, put, reopens, asked, daemon>>
        PROVE  Safe /\ Asked
    <3>1. Snd(i) = NoSound /\ Changed(conn, With(i, Rest(i)), i, Has(conn, i) \ {Snd(i)})
      BY <2>1, HeadOf, HeadGoes
    <3>2. Has(conn, i) \ {NoSound} = Has(conn, i)
      BY DEF Has, SoundsOf
    <3>3. Changed(conn, conn', i, Has(conn, i))
      BY <2>2, <3>1, <3>2
    <3>4. Shrunk(conn, conn', {})
      BY <1>0, <3>3, Stands
    <3>5. CountersOK'
      BY <1>0, <2>2 DEF CountersOK
    <3> QED BY <2>2, <3>4, <3>5, EventsMove DEF Safe, Asked
  <2>3. "READ_CONNECT_REPLY" \in Connecting
    OBVIOUS
  <2> QED BY <1>4, <1>6, <2>1, <2>2, <2>3 DEF ConnectReply
<1>7. CASE WriteFind(i)
  <2>1. HeadIs(i, "WRITE_FIND")
    BY <1>7 DEF WriteFind
  <2>2. /\ daemon = "running" /\ QueueOK(conn[i].q) /\ Plain(conn[i].q) /\ conn[i].q # <<>>
        /\ SoundsOf(conn[i].q) = Has(conn, i) /\ Snd(i) # NoSound
    BY <2>1, HeadOf DEF Has
  <2>3. ASSUME ForwardAll(i, conn[i].q) PROVE Safe /\ Asked
    BY <2>2, <2>3, ForwardAllSafe
  <2> QED BY <1>1, <1>7, <2>1, <2>2, <2>3 DEF WriteFind
<1>8. CASE FindReplyOK(i)
  <2>1. HeadIs(i, "READ_FIND_REPLY") /\ CountersOK' /\ UNCHANGED put
    BY <1>0, <1>8 DEF FindReplyOK, CountersOK
  <2>2. Snd(i) \in Has(conn, i) /\ Snd(i) # NoSound
    BY <2>1, HeadOf
  <2>3. PICK E : E = Evicted(Size[Snd(i)])
    OBVIOUS
  <2>4. \A s \in E : s \in Sounds /\ status[s] = "READY"
    BY <2>3, EvictsReady
  <2>5. ASSUME Drop(E \cup {Snd(i)}), conn' = With(i, Rest(i)) PROVE Safe
    <3>1. Changed(conn, conn', i, Has(conn, i) \ {Snd(i)}) /\ {Snd(i)} \subseteq Has(conn, i)
      BY <2>1, <2>2, <2>5, HeadGoes
    <3> QED BY <2>1, <2>4, <2>5, <3>1, ServerDrops
  <2>6. ASSUME Drop(E), conn' = With(i, <<Ev("WRITE_GET", Snd(i))>> \o Rest(i)) PROVE Safe
    <3>1. PICK r : r = <<Ev("WRITE_GET", Snd(i))>> \o Rest(i)
      OBVIOUS
    <3>2. conn[i].q # <<>> /\ QueueOK(conn[i].q) /\ Followed(conn[i].q)
      BY <2>1, HeadOf
    <3>3. QueueOK(r) /\ Followed(r) /\ SoundsOf(r) = Has(conn, i)
      BY <2>2, <3>1, <3>2, HeadAgain
    <3>4. Changed(conn, conn', i, Has(conn, i) \ {}) /\ Drop(E \cup {}) /\ {} \subseteq Has(conn, i)
      BY <2>6, <3>1, <3>2, <3>3, WithQueue
    <3> QED BY <2>1, <2>4, <3>4, ServerDrops
  <2> QED BY <1>8, <2>3, <2>5, <2>6 DEF FindReplyOK
<1>9. CASE FindReplyOther(i)
  <2>1. HeadIs(i, "READ_FIND_REPLY")
    BY <1>9 DEF FindReplyOther
  <2> QED BY <1>9, <2>1, ForwardSoundSafe, TimedOutSafe, UnknownReplySafe, FindElsewhereSafe
          DEF FindReplyOther
<1>10. CASE WriteGet(i)
  <2>1. HeadIs(i, "WRITE_GET")
    BY <1>10 DEF WriteGet
  <2>2. Snd(i) # NoSound
    BY <2>1, HeadOf
  <2> QED BY <1>1, <1>10, <2>1, <2>2, FindElsewhereSafe DEF WriteGet
<1>11. CASE GetReplyOK(i)
  <2>1. HeadIs(i, "READ_GET_REPLY") /\ CountersOK' /\ UNCHANGED put
    BY <1>0, <1>11 DEF GetReplyOK, CountersOK
  <2>2. Snd(i) \in Has(conn, i) /\ Snd(i) # NoSound /\ conn[i].q # <<>>
    BY <2>1, HeadOf
  <2>3. ASSUME conn' = With(i, <<Ev("READ_SOUND", Snd(i))>> \o Rest(i)),
               status' = [status EXCEPT ![Snd(i)] = "NOT_READY"],
               file' = [file EXCEPT ![Snd(i)] = Size[Snd(i)]],
               UNCHANGED <<count, play, asked>>
        PROVE  Safe
    <3>1. Shrunk(conn, conn', {})
      BY <2>1, <2>2, <2>3, BecomesSafe
    <3>2. Snd(i) \in Sounds /\ Snd(i) \in Named(conn)
      BY <1>0, <2>2, NamedAreSounds
    <3> QED BY <2>1, <2>3, <3>1, <3>2, FileMade
  <2>4. ASSUME conn' = [With(i, Rest(i)) EXCEPT ![i].skewed = TRUE], Drop({Snd(i)})
        PROVE  Safe
    <3>1. conn \in [Servers -> Connection] /\ conn[i] \in Connection
      BY <1>0 DEF ConnsOK
    <3>2. /\ QueueOK(Rest(i)) /\ Followed(Rest(i))
          /\ SoundsOf(Rest(i)) = Has(conn, i) \ {Snd(i)}
      BY <2>1, HeadOf
    <3>3. PICK r : r = Rest(i) /\ r \in Seq(Event)
      BY <3>2 DEF QueueOK
    <3>4. PICK c : c = [open |-> conn[i].open, q |-> r, nconnects |-> conn[i].nconnects,
                        skewed |-> TRUE]
      OBVIOUS
    <3>5. conn[i].nconnects \in 0..Attempts /\ SoundsOf(r) \subseteq Has(conn, i)
      BY <3>1, <3>2, <3>3 DEF Connection
    <3>6. \A sk \in BOOLEAN : \A d :
             d = [open |-> conn[i].open, q |-> r, nconnects |-> conn[i].nconnects, skewed |-> sk]
             => Changed(conn, [conn EXCEPT ![i] = d], i, SoundsOf(r))
      BY <1>0, <2>2, <3>2, <3>3, <3>5, QueueBecomes
    <3>7. Changed(conn, [conn EXCEPT ![i] = c], i, Has(conn, i) \ {Snd(i)})
      BY <3>2, <3>3, <3>4, <3>6
    <3>8. conn' = [conn EXCEPT ![i] = c]
      <4>1. PICK d : d = [conn[i] EXCEPT !.q = r]
        OBVIOUS
      <4>2. With(i, r) = [conn EXCEPT ![i] = d] /\ d \in Connection
        BY <3>1, <3>3, <4>1 DEF With, Connection
      <4>3. d.open = conn[i].open /\ d.q = r /\ d.nconnects = conn[i].nconnects
        BY <3>1, <4>1 DEF Connection
      <4>4. \A sk \in BOOLEAN : [d EXCEPT !.skewed = sk]
              = [open |-> d.open, q |-> d.q, nconnects |-> d.nconnects, skewed |-> sk]
        BY <4>2 DEF Connection
      <4>5. [d EXCEPT !.skewed = TRUE] = c
        BY <3>4, <4>3, <4>4, Zenon
      <4>6. conn' = [[conn EXCEPT ![i] = d] EXCEPT ![i].skewed = TRUE]
        BY <2>4, <3>3, <4>2
      <4>7. conn' = [conn EXCEPT ![i] = [d EXCEPT !.skewed = TRUE]]
        BY <3>1, <4>6
      <4> QED BY <4>5, <4>7
    <3>9. Changed(conn, conn', i, Has(conn, i) \ {Snd(i)}) /\ Drop({} \cup {Snd(i)})
          /\ {Snd(i)} \subseteq Has(conn, i)
      BY <2>2, <2>4, <3>7, <3>8
    <3>10. Safe /\ \A s \in Sounds : s \notin {} \cup {Snd(i)} => status'[s] = status[s]
      BY <2>1, <3>9, ServerDrops
    <3> QED BY <3>10
  <2> QED BY <1>11, <2>3, <2>4 DEF GetReplyOK
<1>12. CASE GetReplyOther(i)
  <2>1. HeadIs(i, "READ_GET_REPLY")
    BY <1>12 DEF GetReplyOther
  <2> QED BY <1>12, <2>1, ForwardSoundSafe, TimedOutSafe, UnknownReplySafe, FindElsewhereSafe
          DEF GetReplyOther
<1>13. CASE SoundRead(i)
  <2>1. /\ HeadIs(i, "READ_SOUND") /\ conn' = With(i, Rest(i)) /\ BecomesReady(Snd(i))
        /\ CountersOK' /\ UNCHANGED <<file, count>> /\ put' = put
    BY <1>0, <1>13 DEF SoundRead, CountersOK
  <2>2. Snd(i) \in Has(conn, i) /\ Snd(i) \in Sounds /\ Snd(i) \in Named(conn)
    BY <1>0, <2>1, HeadOf, NamedAreSounds
  <2>3. Pending(Snd(i)) /\ put[Snd(i)] = "no"
    BY <2>2 DEF LInv, SoundOK
  <2>4. Changed(conn, conn', i, Has(conn, i) \ {Snd(i)})
    BY <2>1, HeadGoes
  <2>5. Has(conn, i) \ (Has(conn, i) \ {Snd(i)}) = {Snd(i)} \cap Named(conn)
    BY <2>2
  <2>6. Has(conn, i) \ {Snd(i)} \subseteq Has(conn, i)
    OBVIOUS
  <2>7. Shrunk(conn, conn', Has(conn, i) \ (Has(conn, i) \ {Snd(i)}))
    BY <1>0, <2>4, <2>6, Shrinks
  <2>8. put' = [put EXCEPT ![Snd(i)] = "no"]
    BY <1>0, <2>1, <2>3 DEF TablesOK
  <2>9. LInv' /\ \A t \in Sounds : Moves(t) /\ (status'[t] # "none" \/ status'[t] = status[t])
    BY <2>1, <2>2, <2>3, <2>5, <2>7, <2>8, SoundComes
  <2> QED BY <2>9 DEF Safe, Asked
<1>14. CASE SoundReadFails(i)
  BY <1>14, FindElsewhereSafe DEF SoundReadFails
<1> QED BY <1>2, <1>3, <1>5, <1>6, <1>7, <1>8, <1>9, <1>10, <1>11,
          <1>12, <1>13, <1>14 DEF ServerStep

(* connection_check_timeout.                                               *)
LEMMA TimeoutSafe ==
    ASSUME LInv, NEW i \in Servers, CheckTimeout(i)
    PROVE  Safe
<1>1. ConnsOK(conn) /\ CountersOK' /\ UNCHANGED put
  BY DEF LInv, CheckTimeout, CountersOK
<1>2. Changed(conn, [conn EXCEPT ![i] = NoConn], i, {})
  BY <1>1, ConnCloses
<1>3. conn' = [conn EXCEPT ![i] = NoConn] /\ Drop(Has(conn, i))
  BY DEF CheckTimeout, Has
<1>4. Changed(conn, conn', i, Has(conn, i) \ Has(conn, i)) /\ Drop({} \cup Has(conn, i))
  BY <1>2, <1>3
<1>5. Safe /\ \A s \in Sounds : s \notin {} \cup Has(conn, i) => status'[s] = status[s]
  BY <1>1, <1>4, ServerDrops
<1> QED BY <1>5

(* A client's step on sound s that leaves the connections alone.           *)
LEMMA ClientMoves ==
    ASSUME LInv, TablesOK', CountersOK', conn' = conn, NEW s \in Sounds, s \notin Named(conn)
             \/ UNCHANGED <<status, put, asked>>,
           NEW E, \A t \in E : t \in Sounds /\ status[t] = "READY",
           \A t \in E \ {s} : status'[t] = "none" /\ play'[t] = "no" /\ put'[t] = put[t],
           \A t \in Sounds : t # s /\ t \notin E => /\ status'[t] = status[t] /\ play'[t] = play[t]
                                                   /\ put'[t] = put[t] /\ asked'[t] = asked[t],
           SoundOK(s)', Moves(s)
    PROVE  Safe
<1>1. ConnsOK(conn)' /\ Named(conn)' = Named(conn) /\ \A j \in Servers : Has(conn, j)' = Has(conn, j)
  BY DEF LInv, ConnsOK, Named, Has
<1>2. ASSUME NEW t \in E PROVE t \in Sounds /\ t \notin Named(conn)
  BY DEF LInv, SoundOK, Pending
<1>3. Reached'
  <2> SUFFICES ASSUME NEW j \in Servers, NEW t \in Has(conn, j)
               PROVE  1..j \subseteq asked'[t]
    BY <1>1 DEF Reached
  <2>1. t \in Sounds /\ t \in Named(conn)
    BY NamedAreSounds DEF LInv
  <2>2. asked'[t] = asked[t]
    BY <1>2, <2>1
  <2> QED BY <2>2 DEF LInv, Reached
<1>4. ASSUME NEW t \in Sounds PROVE SoundOK(t)' /\ Moves(t)
  <2>1. SoundOK(t) /\ TablesOK
    BY DEF LInv
  <2>2. CASE t = s
    BY <2>2
  <2>3. CASE t # s /\ t \in E
    <3>1. status[t] = "READY" /\ status'[t] = "none" /\ play'[t] = "no" /\ put'[t] = put[t]
      BY <2>3
    <3> QED BY <1>1, <1>2, <2>1, <2>3, <3>1 DEF SoundOK, Moves, St, Pending
  <2>4. CASE t # s /\ t \notin E
    <3>1. status'[t] = status[t] /\ play'[t] = play[t] /\ put'[t] = put[t]
      BY <2>4
    <3> QED BY <1>1, <2>1, <3>1 DEF SoundOK, Moves, St, Pending
  <2> QED BY <2>2, <2>3, <2>4
<1> QED BY <1>1, <1>3, <1>4 DEF LInv, Safe

(* The same, when no sound is evicted.                                     *)
LEMMA ClientAlone ==
    ASSUME LInv, TablesOK', CountersOK', conn' = conn, NEW s \in Sounds, s \notin Named(conn)
             \/ UNCHANGED <<status, put, asked>>,
           \A t \in Sounds : t # s => /\ status'[t] = status[t] /\ play'[t] = play[t]
                                       /\ put'[t] = put[t] /\ asked'[t] = asked[t],
           SoundOK(s)', Moves(s)
    PROVE  Safe
<1>1. PICK E : E = {}
  OBVIOUS
<1>2. /\ \A t \in E : t \in Sounds /\ status[t] = "READY"
      /\ \A t \in E \ {s} : status'[t] = "none" /\ play'[t] = "no" /\ put'[t] = put[t]
      /\ \A t \in Sounds : t # s /\ t \notin E => /\ status'[t] = status[t] /\ play'[t] = play[t]
                                                /\ put'[t] = put[t] /\ asked'[t] = asked[t]
  BY <1>1
<1> QED BY <1>2, ClientMoves

(* play, of a sound nobody knows.                                          *)
LEMMA SearchStarts ==
    ASSUME LInv, NEW s \in Sounds, status[s] = "none", TablesOK', CountersOK',
           status' = [status EXCEPT ![s] = "SEARCH"],
           conn' = ServerOpen(conn, 1, <<Ev("WRITE_FIND", s)>>),
           asked' = [asked EXCEPT ![s] = {1}],
           play' = [play EXCEPT ![s] = "wait"], UNCHANGED put
    PROVE  Safe
<1>1. ConnsOK(conn) /\ TablesOK /\ SoundOK(s) /\ 1 \in Servers
  BY ServerAssumption DEF LInv, Servers
<1>2. s \notin Named(conn) /\ put[s] = "no" /\ play[s] = "no"
  BY <1>1 DEF SoundOK, Pending, TablesOK
<1>3. PICK evs : evs = <<Ev("WRITE_FIND", s)>>
  OBVIOUS
<1>4. QueueOK(evs) /\ Plain(evs) /\ evs # <<>> /\ SoundsOf(evs) = {s}
  BY <1>3, ShortQueues
<1>5. Named(conn) \cap SoundsOf(evs) = {}
  BY <1>2, <1>4
<1>6. Changed(conn, ServerOpen(conn, 1, evs), 1, Has(conn, 1) \cup SoundsOf(evs))
  BY <1>1, <1>4, <1>5, ServerOpens
<1>7. /\ ConnsOK(conn)' /\ Has(conn, 1)' = Has(conn, 1) \cup {s}
      /\ \A j \in Servers \ {1} : Has(conn, j)' = Has(conn, j)
  BY <1>3, <1>4, <1>6 DEF Changed, ConnsOK, Has
<1>8. Named(conn)' = Named(conn) \cup {s}
  <2>1. \A t : t \in Named(conn) <=> \E j \in Servers : t \in Has(conn, j)
    BY DEF Named
  <2>2. \A t : t \in Named(conn)' <=> \E j \in Servers : t \in Has(conn, j)'
    BY DEF Named
  <2>3. ASSUME NEW t PROVE t \in Named(conn)' <=> t \in Named(conn) \cup {s}
    BY <1>1, <1>7, <2>1, <2>2
  <2> QED BY <2>3
<1>9. Reached'
  <2> SUFFICES ASSUME NEW j \in Servers, NEW t \in Has(conn, j)'
               PROVE  1..j \subseteq asked'[t]
    BY DEF Reached
  <2>1. CASE t = s
    <3>1. \A k \in Servers \ {1} : s \notin Has(conn, k)
      BY <1>2 DEF Named
    <3>2. j = 1 /\ asked'[s] = {1}
      BY <1>1, <1>7, <2>1, <3>1 DEF TablesOK
    <3> QED BY <2>1, <3>2
  <2>2. CASE t # s
    <3>1. t \in Has(conn, j)
      BY <1>1, <1>7, <2>2
    <3>2. t \in Sounds
      BY <1>1, <3>1, NamedAreSounds
    <3> QED BY <1>1, <2>2, <3>1, <3>2 DEF LInv, Reached, TablesOK
  <2> QED BY <2>1, <2>2
<1>10. ASSUME NEW t \in Sounds PROVE SoundOK(t)' /\ Moves(t)
  <2>1. SoundOK(t)
    BY DEF LInv
  <2>2. CASE t = s
    <3>1. status'[t] = "SEARCH" /\ put'[t] = "no" /\ play'[t] = "wait"
      BY <1>1, <1>2, <2>2 DEF TablesOK
    <3> QED BY <1>2, <1>8, <2>2, <3>1 DEF SoundOK, Moves, St, Pending
  <2>3. CASE t # s
    <3>1. status'[t] = status[t] /\ put'[t] = put[t] /\ play'[t] = play[t]
      BY <1>1, <2>3 DEF TablesOK
    <3> QED BY <1>8, <2>1, <2>3, <3>1 DEF SoundOK, Moves, St, Pending
  <2> QED BY <2>2, <2>3
<1> QED BY <1>7, <1>9, <1>10 DEF LInv, Safe

(* Commands of clients.                                                    *)
LEMMA ClientSafe ==
    ASSUME LInv, NEW s \in Sounds,
           Play(s) \/ EntryEnds(s) \/ Put(s) \/ PutDone(s) \/ PutFails(s) \/ PutTimesOut(s)
    PROVE  Safe /\ Asked
<1>0. TablesOK /\ CountersOK /\ ConnsOK(conn) /\ SoundOK(s)
      /\ status[s] \in {"none", "SEARCH", "NOT_READY", "READY"}
      /\ play[s] \in {"no", "wait", "play"} /\ put[s] \in {"no", "read", "dead"}
  BY DEF LInv, TablesOK
<1>1. CASE Play(s)
  <2>1. /\ sound_count' \in 0..MaxCount /\ count' = [count EXCEPT ![s] = sound_count']
        /\ UNCHANGED <<file, put, reopens, daemon>>
        /\ play[s] = "no"
    BY <1>0, <1>1, BoundAssumption DEF Play, Counted, CountersOK
  <2>2. CountersOK'
    BY <1>0, <2>1 DEF CountersOK
  <2>3. ASSUME status[s] = "none", status' = [status EXCEPT ![s] = "SEARCH"],
               conn' = ServerOpen(conn, 1, <<Ev("WRITE_FIND", s)>>),
               asked' = [asked EXCEPT ![s] = {1}]
        PROVE  Safe /\ Asked
    <3>1. play' = [play EXCEPT ![s] = "wait"] /\ 1 \in Servers
      BY <1>1, <2>3, ServerAssumption DEF Play, Servers
    <3>2. TablesOK'
      BY <1>0, <2>1, <2>3, <3>1 DEF TablesOK
    <3>3. Safe
      BY <2>1, <2>2, <2>3, <3>1, <3>2, SearchStarts
    <3>4. Asked
      BY <1>0, <2>3 DEF Asked, TablesOK
    <3> QED BY <3>3, <3>4
  <2>4. ASSUME status[s] # "none", UNCHANGED <<status, conn, asked>>
        PROVE  Safe /\ Asked
    <3>1. play' = [play EXCEPT ![s] = IF status[s] = "READY" THEN "play" ELSE "wait"]
      BY <1>1 DEF Play
    <3>2. TablesOK'
      BY <1>0, <2>1, <2>4, <3>1 DEF TablesOK
    <3>3. play'[s] = (IF status[s] = "READY" THEN "play" ELSE "wait")
          /\ \A t \in Sounds : t # s => play'[t] = play[t]
      BY <1>0, <3>1 DEF TablesOK
    <3>4. Named(conn)' = Named(conn)
      BY <2>4 DEF Named, Has
    <3>5. SoundOK(s)' /\ Moves(s)
      BY <1>0, <2>1, <2>4, <3>3, <3>4 DEF SoundOK, Moves, St, Pending
    <3>6. Safe
      BY <2>1, <2>2, <2>4, <3>2, <3>3, <3>5, ClientAlone
    <3> QED BY <2>4, <3>6 DEF Asked
  <2> QED BY <1>1, <2>3, <2>4 DEF Play
<1>2. CASE EntryEnds(s)
  <2>1. /\ play' = [play EXCEPT ![s] = "no"]
        /\ UNCHANGED <<conn, status, file, count, sound_count, put, reopens, asked, daemon>>
    BY <1>2 DEF EntryEnds
  <2>2. TablesOK' /\ CountersOK'
    BY <1>0, <2>1 DEF TablesOK, CountersOK
  <2>3. play'[s] = "no" /\ \A t \in Sounds : t # s => play'[t] = play[t]
    BY <1>0, <2>1 DEF TablesOK
  <2>4. Named(conn)' = Named(conn)
    BY <2>1 DEF Named, Has
  <2>5. SoundOK(s)' /\ Moves(s)
    BY <1>0, <2>1, <2>3, <2>4 DEF SoundOK, Moves, St, Pending
  <2>6. Safe
    BY <2>1, <2>2, <2>3, <2>5, ClientAlone
  <2> QED BY <2>1, <2>6 DEF Asked
<1>3. CASE Put(s)
  <2>1. PICK E : E = Evicted(Size[s])
    OBVIOUS
  <2>2. \A t \in E : t \in Sounds /\ status[t] = "READY"
    BY <2>1, EvictsReady
  <2>3. status[s] = "none" /\ conn' = conn /\ CountersOK'
    BY <1>0, <1>3 DEF Put, CountersOK
  <2>4. s \notin E /\ s \notin Named(conn) /\ play[s] = "no" /\ put[s] = "no"
    BY <1>0, <2>2, <2>3 DEF SoundOK, Pending
  <2>5. Named(conn)' = Named(conn)
    BY <2>3 DEF Named, Has
  <2>6. ASSUME Drop(E), UNCHANGED put PROVE Safe /\ Asked
    <3>1. TablesOK'
      BY <1>0, <2>6, BoundAssumption DEF TablesOK, Drop
    <3>2. /\ \A t \in E \ {s} : status'[t] = "none" /\ play'[t] = "no" /\ put'[t] = put[t]
          /\ \A t \in Sounds : t # s /\ t \notin E
               => /\ status'[t] = status[t] /\ play'[t] = play[t]
                  /\ put'[t] = put[t] /\ asked'[t] = asked[t]
          /\ status'[s] = "none" /\ play'[s] = "no" /\ put'[s] = "no"
      BY <1>0, <2>2, <2>3, <2>4, <2>6 DEF Drop
    <3>3. SoundOK(s)' /\ Moves(s)
      BY <1>0, <2>3, <2>4, <2>5, <3>2 DEF SoundOK, Moves, St, Pending
    <3>4. Safe
      BY <2>2, <2>3, <2>4, <3>1, <3>2, <3>3, ClientMoves
    <3>5. Asked
      BY <2>2, <2>3, <3>2 DEF Asked
    <3> QED BY <3>4, <3>5
  <2>7. ASSUME NEW st \in {"NOT_READY", "none"}, DropAndHold(E, s, st),
               put' = [put EXCEPT ![s] = IF st = "none" THEN "no" ELSE "read"]
        PROVE  Safe /\ Asked
    <3>1. TablesOK'
      <4>1. Size[s] \in Nat /\ 0 \in 0..MaxCount
        BY BoundAssumption, SizeAssumption
      <4>2. status' \in [Sounds -> {"none", "SEARCH", "NOT_READY", "READY"}]
        BY <1>0, <2>7 DEF TablesOK, DropAndHold
      <4>3. file' \in [Sounds -> Nat] /\ count' \in [Sounds -> 0..MaxCount]
        BY <1>0, <2>7, <4>1 DEF TablesOK, DropAndHold
      <4>4. play' \in [Sounds -> {"no", "wait", "play"}] /\ asked' \in [Sounds -> SUBSET Servers]
        BY <1>0, <2>7 DEF TablesOK, DropAndHold
      <4>5. put' \in [Sounds -> {"no", "read", "dead"}]
        BY <1>0, <2>7 DEF TablesOK
      <4> QED BY <4>2, <4>3, <4>4, <4>5 DEF TablesOK
    <3>2. /\ \A t \in E \ {s} : status'[t] = "none" /\ play'[t] = "no" /\ put'[t] = put[t]
          /\ \A t \in Sounds : t # s /\ t \notin E
               => /\ status'[t] = status[t] /\ play'[t] = play[t]
                  /\ put'[t] = put[t] /\ asked'[t] = asked[t]
          /\ status'[s] = st /\ play'[s] = "no"
          /\ put'[s] = IF st = "none" THEN "no" ELSE "read"
      BY <1>0, <2>2, <2>3, <2>4, <2>7 DEF DropAndHold, TablesOK
    <3>3. SoundOK(s)' /\ Moves(s)
      BY <1>0, <2>3, <2>4, <2>5, <3>2 DEF SoundOK, Moves, St, Pending
    <3>4. Safe
      BY <2>2, <2>3, <2>4, <3>1, <3>2, <3>3, ClientMoves
    <3>5. Asked
      BY <2>2, <2>3, <3>2 DEF Asked
    <3> QED BY <3>4, <3>5
  <2>8. UNCHANGED put => put' = [put EXCEPT ![s] = IF "none" = "none" THEN "no" ELSE "read"]
    BY <1>0, <2>4 DEF TablesOK
  <2> QED BY <1>3, <2>1, <2>6, <2>7, <2>8 DEF Put
<1>4. CASE PutDone(s)
  <2>1. /\ put[s] = "read" /\ put' = [put EXCEPT ![s] = "no"] /\ BecomesReady(s)
        /\ conn' = conn /\ CountersOK' /\ UNCHANGED <<file, count>>
    BY <1>0, <1>4 DEF PutDone, CountersOK
  <2>2. Pending(s) /\ s \notin Named(conn)
    BY <1>0, <2>1 DEF SoundOK, Pending
  <2>3. {s} \cap Named(conn) = {} /\ Shrunk(conn, conn', {})
    BY <1>0, <2>1, <2>2 DEF Shrunk
  <2>4. LInv' /\ \A t \in Sounds : Moves(t) /\ (status'[t] # "none" \/ status'[t] = status[t])
    BY <2>1, <2>2, <2>3, SoundComes
  <2> QED BY <2>4 DEF Safe, Asked
<1>5. CASE PutFails(s)
  <2>1. /\ put[s] = "read" /\ put' = [put EXCEPT ![s] = "no"] /\ Drop({s})
        /\ conn' = conn /\ CountersOK'
    BY <1>0, <1>5 DEF PutFails, CountersOK
  <2>2. status[s] = "NOT_READY" /\ s \notin Named(conn)
    BY <1>0, <2>1 DEF SoundOK
  <2>3. {s} \cap Named(conn) = {} /\ Shrunk(conn, conn', {})
    BY <1>0, <2>1, <2>2 DEF Shrunk
  <2>4. put' = [t \in Sounds |-> IF t \in {s} THEN "no" ELSE put[t]]
    BY <1>0, <2>1 DEF TablesOK
  <2>5. LInv' /\ \A t \in Sounds : Moves(t) /\ (t \notin {s} => status'[t] = status[t])
    BY <2>1, <2>3, <2>4, SoundsDrop
  <2> QED BY <2>2, <2>5 DEF Safe, Asked
<1>6. CASE PutTimesOut(s)
  <2>1. /\ put[s] = "read" /\ put' = [put EXCEPT ![s] = "dead"]
        /\ UNCHANGED <<conn, status, file, count, sound_count, play, reopens, asked, daemon>>
    BY <1>6 DEF PutTimesOut
  <2>2. TablesOK' /\ CountersOK'
    BY <1>0, <2>1 DEF TablesOK, CountersOK
  <2>3. put'[s] = "dead" /\ \A t \in Sounds : t # s => put'[t] = put[t]
    BY <1>0, <2>1 DEF TablesOK
  <2>4. Named(conn)' = Named(conn) /\ s \notin Named(conn)
    BY <1>0, <2>1 DEF Named, Has, SoundOK
  <2>5. SoundOK(s)' /\ Moves(s)
    BY <1>0, <2>1, <2>3, <2>4 DEF SoundOK, Moves, St, Pending
  <2>6. Safe
    BY <2>1, <2>2, <2>3, <2>4, <2>5, ClientAlone
  <2> QED BY <2>1, <2>6 DEF Asked
<1> QED BY <1>1, <1>2, <1>3, <1>4, <1>5, <1>6

(* reset.                                                                  *)
LEMMA ResetSafe ==
    ASSUME LInv, Reset
    PROVE  Safe
<1>1. TablesOK /\ CountersOK /\ \A i \in Servers : 1..i \subseteq Int
  BY DEF LInv, Servers
<1>2. conn' = [i \in Servers |-> NoConn] /\ sound_count' = 0 /\ UNCHANGED <<reopens, daemon>>
  BY DEF Reset
<1>3. CountersOK'
  BY <1>1, <1>2, BoundAssumption DEF CountersOK
<1>4. TablesOK'
  <2>1. file' \in [Sounds -> Nat] /\ status' \in [Sounds -> {"none", "SEARCH", "NOT_READY", "READY"}]
    BY <1>1 DEF Reset, TablesOK
  <2> QED BY <2>1, BoundAssumption DEF Reset, TablesOK
<1>5. NoConn \in Connection /\ ConnOK(NoConn) /\ SoundsOf(NoConn.q) = {}
  <2>1. NoConn \in Connection /\ NoConn.q = <<>>
    BY BoundAssumption DEF NoConn, Connection
  <2> QED BY <2>1, ShortQueues DEF ConnOK
<1>6. \A i \in Servers : conn'[i] = NoConn /\ Has(conn, i)' = {}
  BY <1>2, <1>5 DEF Has
<1>7. ConnsOK(conn)' /\ Named(conn)' = {} /\ Reached'
  BY <1>2, <1>5, <1>6 DEF ConnsOK, Named, Reached
<1>8. ASSUME NEW s \in Sounds PROVE SoundOK(s)' /\ Moves(s)
  <2>1. SoundOK(s) /\ status[s] \in {"none", "SEARCH", "NOT_READY", "READY"}
        /\ play[s] \in {"no", "wait", "play"}
    BY <1>1 DEF LInv, TablesOK
  <2>2. /\ play'[s] = "no" /\ put'[s] = "no" /\ status'[s] \in {"READY", "none"}
        /\ Pending(s) => status'[s] = "none"
    BY DEF Reset, Pending
  <2> QED BY <1>7, <2>1, <2>2 DEF SoundOK, Moves, St, Pending
<1> QED BY <1>3, <1>4, <1>7, <1>8 DEF LInv, Safe

-----------------------------------------------------------------------------
(* The theorems.                                                           *)

(* rplayd starts with no connection, no sound and no entry.                *)
LEMMA StartOK == Init => LInv
<1> SUFFICES ASSUME Init PROVE LInv
  OBVIOUS
<1>1. TablesOK /\ CountersOK
  BY BoundAssumption DEF Init, TablesOK, CountersOK
<1>2. NoConn \in Connection /\ ConnOK(NoConn) /\ SoundsOf(NoConn.q) = {}
  <2>1. NoConn \in Connection /\ NoConn.q = <<>>
    BY BoundAssumption DEF NoConn, Connection
  <2> QED BY <2>1, ShortQueues DEF ConnOK
<1>3. \A i \in Servers : conn[i] = NoConn /\ Has(conn, i) = {}
  BY <1>2 DEF Has, Init
<1>4. ConnsOK(conn) /\ Named(conn) = {} /\ Reached
  BY <1>2, <1>3 DEF ConnsOK, Named, Reached, Init
<1>5. \A s \in Sounds : SoundOK(s)
  BY <1>4 DEF Init, SoundOK, Pending
<1> QED BY <1>1, <1>4, <1>5 DEF LInv

(* Every step keeps the invariant.                                         *)
LEMMA StepOK == LInv /\ [Next]_vars => LInv' /\ ([Next]_vars /\ ~UNCHANGED vars => Safe)
<1> SUFFICES ASSUME LInv, [Next]_vars PROVE LInv' /\ (~UNCHANGED vars => Safe)
  OBVIOUS
<1>1. CASE UNCHANGED vars
  <2>1. UNCHANGED <<status, file, count, play, put, asked>> /\ conn' = conn
        /\ UNCHANGED <<sound_count, reopens, daemon>>
    BY <1>1 DEF vars
  <2>2. CountersOK' /\ Shrunk(conn, conn', {})
    BY <2>1 DEF LInv, CountersOK, Shrunk
  <2> QED BY <1>1, <2>1, <2>2, EventsMove
<1>2. CASE Next
  <2>1. Safe
    BY <1>2, ClientSafe, ServerSafe, TimeoutSafe, ResetSafe DEF Next, ClientStep
  <2> QED BY <2>1 DEF Safe
<1> QED BY <1>1, <1>2

(* The invariant holds.                                                    *)
LEMMA InvariantHolds == Spec => []LInv
<1>1. Init => LInv
  BY StartOK
<1>2. LInv /\ [Next]_vars => LInv'
  BY StepOK
<1> QED BY <1>1, <1>2, PTL DEF Spec

(* The variables of the server connections and of the tables have their    *)
(* types, whatever the servers answer (rplayd/connection.c).               *)
THEOREM LookupTypes == Spec => []TypeOK
<1>1. LInv => TypeOK
  <2> SUFFICES ASSUME LInv PROVE TypeOK
    OBVIOUS
  <2>1. Event = [type : Connecting \cup Searching, snd : Sounds \cup {NoSound}]
    BY DEF Event
  <2>2. conn \in [Servers -> Connection]
    BY DEF LInv, ConnsOK
  <2> QED BY <2>1, <2>2 DEF LInv, TypeOK, TablesOK, CountersOK, Connection
<1> QED BY <1>1, InvariantHolds, PTL

(* However connections are lost, reopened, timed out and forwarded, a      *)
(* sound on its way is named by exactly one event of one connection, and   *)
(* no event names any other sound (rplayd/connection.c).                   *)
THEOREM OneSearch == Spec => []OneEvent
<1>1. LInv => OneEvent
  <2> SUFFICES ASSUME LInv, NEW s \in Sounds
               PROVE  Cardinality(Naming(s)) + (IF put[s] = "no" THEN 0 ELSE 1)
                        = IF Pending(s) THEN 1 ELSE 0
    BY DEF OneEvent
  <2>1. SoundOK(s) /\ ConnsOK(conn) /\ s # NoSound
    BY NameAssumption DEF LInv
  <2>2. \A i \in Servers : /\ conn[i].q \in Seq(Event) /\ DOMAIN conn[i].q = 1..Len(conn[i].q)
                           /\ \A k, l \in 1..Len(conn[i].q) :
                                conn[i].q[k].snd = conn[i].q[l].snd => k = l
    BY <2>1 DEF ConnsOK, ConnOK, QueueOK
  <2>3. \A i \in Servers : s \in Has(conn, i)
                           <=> \E k \in 1..Len(conn[i].q) : conn[i].q[k].snd = s
    BY <2>1, <2>2, SoundsAre DEF Has
  <2>4. \A e : e \in Naming(s) <=> \E i \in Servers : \E k \in 1..Len(conn[i].q) :
                                    e = <<i, k>> /\ conn[i].q[k].snd = s
    BY <2>2 DEF Naming, Events, EvAt
  <2>5. ASSUME s \notin Named(conn) PROVE Cardinality(Naming(s)) = 0
    <3>1. \A i \in Servers : s \notin Has(conn, i)
      BY <2>5 DEF Named
    <3>2. Naming(s) = {}
      BY <2>3, <2>4, <3>1
    <3> QED BY <3>2, FS_EmptySet
  <2>6. ASSUME s \in Named(conn) PROVE Cardinality(Naming(s)) = 1
    <3>1. PICK i \in Servers : s \in Has(conn, i)
      BY <2>6 DEF Named
    <3>2. PICK k \in 1..Len(conn[i].q) : conn[i].q[k].snd = s
      BY <2>3, <3>1
    <3>3. \A j \in Servers : j # i => s \notin Has(conn, j)
      BY <2>1, <3>1 DEF ConnsOK
    <3>4. \A e : e \in Naming(s) <=> e = <<i, k>>
      BY <2>2, <2>3, <2>4, <3>2, <3>3
    <3>5. Naming(s) = {<<i, k>>}
      BY <3>4
    <3> QED BY <3>5, FS_Singleton
  <2> QED BY <2>1, <2>5, <2>6 DEF SoundOK, Pending
<1> QED BY <1>1, InvariantHolds, PTL

(* event_insert never has an empty list to forward: the daemon does not    *)
(* crash, at whatever point a connection is lost (rplayd/connection.c).    *)
THEOREM NeverCrashes == Spec => []NoCrash
<1>1. LInv => NoCrash
  BY DEF LInv, CountersOK, NoCrash
<1> QED BY <1>1, InvariantHolds, PTL

(* No search ends with a server left that was not asked, but for want of   *)
(* room, of a file, by a timeout or a reset (rplayd/connection.c,          *)
(* connection_server_forward and connection_server_forward_sound).         *)
THEOREM SearchesAll == Spec => AskedThemAll
<1> DEFINE GivenUp == \A s \in Sounds :
          (status[s] = "SEARCH" /\ status'[s] = "none"
             /\ ~(\E i \in Servers : FindReplyOK(i) \/ GetReplyOK(i) \/ CheckTimeout(i))
             /\ ~Reset)
          => asked[s] = Servers
<1>1. LInv /\ [Next]_vars => [GivenUp]_vars
  <2> SUFFICES ASSUME LInv, Next PROVE GivenUp
    OBVIOUS
  <2>1. CASE Asked
    BY <2>1 DEF Asked
  <2>2. CASE ~Asked
    <3>1. (\E i \in Servers : FindReplyOK(i) \/ GetReplyOK(i) \/ CheckTimeout(i)) \/ Reset
      BY <2>2, ClientSafe, ServerSafe DEF Next, ClientStep
    <3> QED BY <3>1
  <2> QED BY <2>1, <2>2
<1> QED BY <1>1, InvariantHolds, PTL DEF Spec, AskedThemAll

(* Finder without its fairness: what the spool sees of a search.           *)
FindsSafely == Abstract!Spec

(* The connections do what the spool relies on: an entry waits only for a  *)
(* sound that is on its way, plays when it arrives, is removed when it is  *)
(* given up, and no sound comes or goes otherwise (rplayd/connection.c and *)
(* rplayd/cache.c against rplayd/spool.c).                                 *)
THEOREM ImplementsFinder == Spec => FindsSafely
<1>1. Init => Abstract!Init
  BY DEF Init, Abstract!Init, Pending
<1>2. LInv /\ [Next]_vars => [Abstract!Next]_(Abstract!fvars)
  <2> SUFFICES ASSUME LInv, [Next]_vars PROVE Abstract!Next \/ UNCHANGED Abstract!fvars
    OBVIOUS
  <2>1. CASE UNCHANGED vars
    BY <2>1 DEF vars, Abstract!fvars, Pending
  <2>2. CASE ~UNCHANGED vars
    <3>1. \A s \in Sounds : Moves(s)
      BY <2>2, StepOK DEF Safe
    <3> QED BY <3>1 DEF Moves, St, Abstract!Next, Abstract!Ask, Abstract!Offer, Abstract!Load,
               Abstract!Join, Abstract!Leave, Abstract!Arrive, Abstract!Lose, Abstract!Stay,
               Abstract!Goes
  <2> QED BY <2>1, <2>2
<1> QED BY <1>1, <1>2, InvariantHolds, PTL DEF Spec, FindsSafely, Abstract!Spec
=============================================================================
