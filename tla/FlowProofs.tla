----------------------------- MODULE FlowProofs -----------------------------
(***************************************************************************)
(* Theorems about Flow, for every number of connections, every buffer size,*)
(* water mark and header length, and every sizes of puts.                  *)
(***************************************************************************)
EXTENDS Flow, SequenceTheorems, TLAPS

Entry == [state : {"NULL", "WAIT", "PLAY", "PAUSE", "NEXT"}, ready : BOOLEAN,
          si : BOOLEAN, level : Int, high : {0, High}, skip : 0..Header,
          eof : BOOLEAN, data : Nat, played : BOOLEAN]

(* A connection in the middle of a put has something left to read.         *)
InPut(r) == r.event \in {"READ_FLOW", "WAIT_FLOW"}
Conn == {r \in [event : {"NONE", "READ_COMMAND", "READ_FLOW", "WAIT_FLOW"},
                nleft : Int, in : Seq(Tokens), asked : BOOLEAN, due : Int,
                hung : BOOLEAN] : InPut(r) => r.nleft = -1 \/ r.nleft > 0}
Result == [entry : Entry, bufs : 0..2, conn : [Clients -> Conn], update : BOOLEAN,
           crashed : BOOLEAN, ended : BOOLEAN]

(* What holds of a flow nobody has ended: its sound is open from the       *)
(* moment it is known, and its entry is not at its end.                    *)
Going(e) == /\ e.ready => e.si
            /\ e.state \in {"PLAY", "PAUSE"} => e.si
            /\ ~e.eof /\ e.state # "NEXT"
Sane(n) == ~n.ended => ~n.crashed /\ Going(n.entry)

(* Nobody waits for an entry that is gone, and its sound is closed.        *)
Woken(n) == n.entry.state = "NULL" =>
                ~n.entry.si /\ \A c \in Clients : n.conn[c].event # "WAIT_FLOW"

Good(n) == n \in Result /\ Sane(n) /\ Woken(n)

(* A connection waits only for an entry that is there: spool_destroy and   *)
(* spool_reset continue every connection that waits, so none is stranded.  *)
NobodyStranded == \A c \in Clients : Waiting(c) => Exists

(* The inductive invariant: the types, Sane and Woken.                     *)
IInv ==
    /\ Good(Now) /\ source \in Sources
    /\ sent \in 0..MaxData
    /\ pipe \in [open : BOOLEAN, on : BOOLEAN, in : 0..MaxData] /\ pipe.in <= sent
    /\ served \subseteq Clients \cup {"pipe"} /\ taken \in BOOLEAN

-----------------------------------------------------------------------------
(* What the operators do.                                                  *)

(* The lesser of two integers.                                             *)
LEMMA MinTwo ==
    ASSUME NEW a \in Int, NEW b \in Int
    PROVE  /\ Min({a, b}) \in {a, b}
           /\ Min({a, b}) <= a /\ Min({a, b}) <= b
<1>1. \E x \in {a, b} : \A y \in {a, b} : x <= y
  OBVIOUS
<1> QED BY <1>1 DEF Min

(* The least of three integers.                                            *)
LEMMA MinThree ==
    ASSUME NEW a \in Int, NEW b \in Int, NEW d \in Int
    PROVE  /\ Min({a, b, d}) \in {a, b, d}
           /\ Min({a, b, d}) <= a /\ Min({a, b, d}) <= b /\ Min({a, b, d}) <= d
<1>1. \E x \in {a, b, d} : \A y \in {a, b, d} : x <= y
  OBVIOUS
<1> QED BY <1>1 DEF Min

(* What is left of the input of a connection after k tokens.               *)
LEMMA RestTyped ==
    ASSUME NEW s \in Seq(Tokens), NEW k \in Nat
    PROVE  SubSeq(s, k + 1, Len(s)) \in Seq(Tokens)
<1>1. Len(s) \in Nat
  OBVIOUS
<1>2. \A i \in (k + 1)..Len(s) : s[i] \in Tokens
  BY <1>1
<1> QED BY <1>1, <1>2

(* The record of the present state.                                        *)
LEMMA NowIs ==
    /\ Now.entry = entry /\ Now.bufs = bufs /\ Now.conn = conn
    /\ Now.update = spool_needs_update /\ Now.crashed = crashed /\ Now.ended = ended
BY DEF Now

(* An action that becomes n leaves n.                                      *)
LEMMA BecomeIs ==
    ASSUME NEW n \in Result, Become(n), Good(n)
    PROVE  Good(Now)'
<1>1. Now' = n
  BY DEF Become, Now, Result
<1>2. Good(Now') <=> Good(Now)'
  BY DEF Good, Sane, Woken, Going, Result, Entry, Conn, InPut
<1> QED BY <1>1, <1>2

(* A result put together from good parts.                                  *)
LEMMA MadeGood ==
    ASSUME NEW e \in Entry, NEW b \in 0..2, NEW cs \in [Clients -> Conn],
           NEW u \in BOOLEAN, NEW k \in BOOLEAN, NEW d \in BOOLEAN,
           ~d => ~k /\ Going(e),
           e.state = "NULL" => ~e.si /\ \A c \in Clients : cs[c].event # "WAIT_FLOW"
    PROVE  Good([entry |-> e, bufs |-> b, conn |-> cs, update |-> u,
                 crashed |-> k, ended |-> d])
BY DEF Good, Result, Sane, Woken

(* spool_destroy wakes every connection and leaves no entry: it keeps the  *)
(* invariant whatever has gone wrong before.                               *)
LEMMA DestroyGood ==
    ASSUME NEW n \in Result, ~n.ended => ~n.crashed
    PROVE  Good(spool_destroy(n)) /\ spool_destroy(n).ended = n.ended
<1> DEFINE cs == connection_flow_continue(n.conn)
<1>1. cs \in [Clients -> Conn] /\ \A c \in Clients : cs[c].event # "WAIT_FLOW"
  BY DEF connection_flow_continue, Turned, Result, Conn, InPut
<1>2. NoEntry \in Entry /\ Going(NoEntry) /\ ~NoEntry.si
  BY SizeAssumption DEF NoEntry, Entry, Going
<1> HIDE DEF cs
<1>3. PICK m : m = [n EXCEPT !.entry = NoEntry, !.bufs = 0, !.conn = cs]
  OBVIOUS
<1>4. m = [entry |-> NoEntry, bufs |-> 0, conn |-> cs, update |-> n.update,
           crashed |-> n.crashed, ended |-> n.ended]
  BY <1>3 DEF Result
<1>5. n.update \in BOOLEAN /\ n.crashed \in BOOLEAN /\ n.ended \in BOOLEAN
  BY DEF Result
<1>6. Good(m) /\ m.ended = n.ended
  BY <1>1, <1>2, <1>4, <1>5, MadeGood
<1> QED BY <1>3, <1>6 DEF spool_destroy, cs

(* A change of the entry and of what goes with it.                         *)
LEMMA EntryGood ==
    ASSUME NEW n \in Result, NEW e \in Entry, e.state # "NULL",
           NEW b \in 0..2, NEW u \in BOOLEAN, NEW d \in BOOLEAN,
           ~d => ~n.crashed /\ Going(e)
    PROVE  Good([entry |-> e, bufs |-> b, conn |-> n.conn, update |-> u,
                 crashed |-> n.crashed, ended |-> d])
<1>1. n.conn \in [Clients -> Conn] /\ n.crashed \in BOOLEAN
  BY DEF Result
<1> QED BY <1>1, MadeGood

(* spool_done: an entry in a state it ignores stays; any other is told to  *)
(* end or destroyed.                                                       *)
LEMMA DoneGood ==
    ASSUME NEW n \in Result, ~n.ended => ~n.crashed,
           n.entry.state \notin {"PLAY", "PAUSE", "WAIT"} => Good(n)
    PROVE  Good(spool_done(n))
<1>1. n.entry \in Entry /\ n.bufs \in 0..2 /\ n.update \in BOOLEAN
  BY DEF Result
<1>2. CASE n.entry.state \notin {"PLAY", "PAUSE", "WAIT"}
  BY <1>2 DEF spool_done
<1>3. CASE n.entry.si /\ n.entry.state = "PLAY"
  <2>1. PICK e : e = [n.entry EXCEPT !.eof = TRUE]
    OBVIOUS
  <2>2. e \in Entry /\ e.state = "PLAY"
    BY <1>1, <1>3, <2>1 DEF Entry
  <2>3. PICK m : m = [n EXCEPT !.entry = e, !.ended = TRUE]
    OBVIOUS
  <2>4. m = [entry |-> e, bufs |-> n.bufs, conn |-> n.conn, update |-> n.update,
             crashed |-> n.crashed, ended |-> TRUE]
    BY <2>3 DEF Result
  <2>5. Good(m)
    BY <1>1, <2>2, <2>4, EntryGood
  <2> QED BY <1>3, <2>1, <2>3, <2>5 DEF spool_done
<1>4. CASE n.entry.state \in {"PLAY", "PAUSE", "WAIT"}
           /\ ~(n.entry.si /\ n.entry.state = "PLAY")
  <2>1. PICK m : m = [n EXCEPT !.ended = TRUE]
    OBVIOUS
  <2>2. m = [entry |-> n.entry, bufs |-> n.bufs, conn |-> n.conn, update |-> n.update,
             crashed |-> n.crashed, ended |-> TRUE]
    BY <2>1 DEF Result
  <2>3. m \in Result /\ m.ended
    BY <2>2 DEF Result
  <2> QED BY <1>4, <2>1, <2>3, DestroyGood DEF spool_done
<1> QED BY <1>2, <1>3, <1>4

(* spool_play opens the sound.                                             *)
LEMMA PlayGood ==
    ASSUME NEW n \in Result, ~n.ended => ~n.crashed
    PROVE  /\ Good(spool_play(n)) /\ spool_play(n).entry.si
           /\ spool_play(n).entry.state = "PLAY"
<1>1. n.entry \in Entry /\ n.bufs \in 0..2 /\ n.ended \in BOOLEAN
  BY DEF Result
<1> DEFINE e1 == [n.entry EXCEPT !.state = "PLAY"]
           e2 == sound_open(e1)
           e == sound_seek(e2, Header)
<1>2. e1 \in Entry /\ e1.state = "PLAY"
  BY <1>1 DEF Entry
<1> HIDE DEF e1
<1>3. e2 \in Entry /\ e2.state = "PLAY" /\ e2.si /\ ~e2.eof /\ e2.skip = 0
  <2>1. PICK f : f = [e1 EXCEPT !.si = TRUE, !.level = 0, !.high = 0, !.skip = 0,
                                !.eof = FALSE]
    OBVIOUS
  <2>2. f = [state |-> e1.state, ready |-> e1.ready, si |-> TRUE, level |-> 0,
             high |-> 0, skip |-> 0, eof |-> FALSE, data |-> e1.data,
             played |-> e1.played]
    BY <1>2, <2>1 DEF Entry
  <2>3. f \in Entry /\ f.state = "PLAY" /\ f.si /\ ~f.eof /\ f.skip = 0
    BY <1>2, <2>2, SizeAssumption DEF Entry
  <2> QED BY <2>1, <2>3 DEF sound_open
<1> HIDE DEF e2
<1>4. e \in Entry /\ e.state = "PLAY" /\ e.si /\ Going(e)
  BY <1>3, SizeAssumption DEF sound_seek, Entry, Going
<1> HIDE DEF e
<1>5. PICK m : m = [n EXCEPT !.entry = e, !.update = TRUE]
  OBVIOUS
<1>6. m = [entry |-> e, bufs |-> n.bufs, conn |-> n.conn, update |-> TRUE,
           crashed |-> n.crashed, ended |-> n.ended]
  BY <1>5 DEF Result
<1>7. Good(m)
  BY <1>1, <1>4, <1>6, EntryGood
<1>8. spool_play(n) = m
  BY <1>5 DEF spool_play, e, e2, e1
<1>9. m.entry = e
  BY <1>6
<1> QED BY <1>4, <1>7, <1>8, <1>9

(* The count of what was inserted, and the end of a wait for data: only    *)
(* without a SINDEX does it fail.                                          *)
LEMMA CountedGood ==
    ASSUME NEW n, Good(n), NEW k \in Nat, n.entry.state # "NULL",
           ~n.ended => n.entry.si
    PROVE  Good(Counted(n, k))
<1>1. n \in Result /\ n.entry \in Entry /\ n.bufs \in 0..2 /\ n.update \in BOOLEAN
      /\ n.ended \in BOOLEAN /\ n.conn \in [Clients -> Conn]
  BY DEF Result, Good
<1>2. CASE ~n.entry.si
  <2>1. PICK m : m = [n EXCEPT !.crashed = TRUE]
    OBVIOUS
  <2>2. m = [entry |-> n.entry, bufs |-> n.bufs, conn |-> n.conn, update |-> n.update,
             crashed |-> TRUE, ended |-> n.ended]
    BY <1>1, <2>1 DEF Result
  <2>3. n.ended
    BY <1>2
  <2>4. Good(m)
    BY <1>1, <2>2, <2>3, MadeGood
  <2> QED BY <1>2, <2>1, <2>4 DEF Counted
<1>3. CASE n.entry.si
  <2> DEFINE st == IF n.entry.state = "WAIT" THEN "PLAY" ELSE n.entry.state
             l == n.entry.level + k
             u == n.update \/ n.entry.state = "WAIT"
  <2>1. l \in Int /\ st \in {"NULL", "WAIT", "PLAY", "PAUSE", "NEXT"} /\ st # "NULL"
        /\ u \in BOOLEAN /\ (st = "NEXT" => n.entry.state = "NEXT")
    BY <1>1 DEF Entry
  <2> HIDE DEF st, l, u
  <2>2. PICK e : e = [n.entry EXCEPT !.level = l, !.state = st]
    OBVIOUS
  <2>3. e \in Entry /\ e.state = st /\ e.si = n.entry.si /\ e.eof = n.entry.eof
    BY <1>1, <2>1, <2>2 DEF Entry
  <2>4. PICK m : m = [n EXCEPT !.entry = e, !.update = u]
    OBVIOUS
  <2>5. m = [entry |-> e, bufs |-> n.bufs, conn |-> n.conn, update |-> u,
             crashed |-> n.crashed, ended |-> n.ended]
    BY <1>1, <2>4 DEF Result
  <2>6. ~n.ended => ~n.crashed /\ Going(e)
    BY <1>1, <1>3, <2>1, <2>3 DEF Good, Sane, Going
  <2>7. Good(m)
    BY <1>1, <2>1, <2>3, <2>5, <2>6, EntryGood
  <2>8. Counted(n, k) = m
    BY <1>1, <1>3, <2>2, <2>4 DEF Counted, st, l, u, Result, Entry
  <2> QED BY <2>7, <2>8
<1> QED BY <1>2, <1>3

(* The data itself, before anything is made of it.                         *)
LEMMA InsertedGood ==
    ASSUME IInv, NEW k \in Nat
    PROVE  /\ Good(Inserted(k)) /\ Inserted(k).entry.state = entry.state
           /\ Inserted(k).entry.ready = entry.ready
           /\ Inserted(k).entry.si = entry.si /\ Inserted(k).ended = ended
           /\ Inserted(k).crashed = crashed /\ Inserted(k).conn = conn
<1>1. Good(Now) /\ Now \in Result /\ Now.entry = entry /\ entry \in Entry
      /\ Now.ended = ended /\ Now.crashed = crashed /\ Now.conn = conn
  BY NowIs DEF IInv, Good, Result
<1> DEFINE d == entry.data + k
<1>2. d \in Nat
  BY <1>1 DEF Entry
<1> HIDE DEF d
<1>3. PICK e : e = [entry EXCEPT !.data = d]
  OBVIOUS
<1>4. /\ e \in Entry /\ e.state = entry.state /\ e.ready = entry.ready
      /\ e.si = entry.si /\ e.eof = entry.eof
  BY <1>1, <1>2, <1>3 DEF Entry
<1>5. PICK m : m = [Now EXCEPT !.entry = e]
  OBVIOUS
<1>6. m = [entry |-> e, bufs |-> Now.bufs, conn |-> Now.conn, update |-> Now.update,
           crashed |-> Now.crashed, ended |-> Now.ended]
  BY <1>1, <1>5 DEF Result
<1>7. /\ Now.conn \in [Clients -> Conn] /\ Now.bufs \in 0..2 /\ Now.update \in BOOLEAN
      /\ Now.crashed \in BOOLEAN /\ Now.ended \in BOOLEAN
  BY <1>1 DEF Result
<1>8. /\ ~Now.ended => ~Now.crashed /\ Going(e)
      /\ e.state = "NULL" => ~e.si /\ \A c \in Clients : Now.conn[c].event # "WAIT_FLOW"
  BY <1>1, <1>4 DEF Good, Sane, Going, Woken
<1>9. Good(m)
  BY <1>4, <1>6, <1>7, <1>8, MadeGood
<1>10. Inserted(k) = m
  BY <1>1, <1>3, <1>5 DEF Inserted, d
<1>11. m.entry = e /\ m.ended = ended /\ m.crashed = crashed /\ m.conn = conn
  BY <1>1, <1>6
<1> QED BY <1>4, <1>9, <1>10, <1>11

(* The data of a sound whose type is not known yet.                        *)
LEMMA SoundKnown ==
    ASSUME IInv, NEW k \in Nat,
           NEW n, n = [Inserted(k) EXCEPT !.entry.ready = TRUE]
    PROVE  n \in Result /\ (~n.ended => ~n.crashed) /\ n.entry.state = entry.state
<1>1. /\ Inserted(k) \in Result /\ Inserted(k).entry \in Entry
      /\ Inserted(k).entry.state = entry.state
      /\ ~Inserted(k).ended => ~Inserted(k).crashed
  BY InsertedGood DEF Good, Sane, Result
<1>2. PICK e : e = [Inserted(k).entry EXCEPT !.ready = TRUE]
  OBVIOUS
<1>3. e \in Entry /\ e.state = entry.state
  BY <1>1, <1>2 DEF Entry
<1>4. PICK m : m = [Inserted(k) EXCEPT !.entry = e]
  OBVIOUS
<1>5. m = [entry |-> e, bufs |-> Inserted(k).bufs, conn |-> Inserted(k).conn,
           update |-> Inserted(k).update, crashed |-> Inserted(k).crashed,
           ended |-> Inserted(k).ended]
  BY <1>1, <1>4 DEF Result
<1>6. m \in Result /\ m.entry = e /\ (~m.ended => ~m.crashed)
  BY <1>1, <1>3, <1>5 DEF Result
<1>7. n = m
  BY <1>2, <1>4
<1> QED BY <1>3, <1>6, <1>7

(* spool_flow_insert keeps the invariant: data for a sound that is known   *)
(* finds it open, unless something has ended the flow.                     *)
LEMMA FlowInsertGood ==
    ASSUME IInv, Exists, NEW k \in Nat, NEW maps \in BOOLEAN
    PROVE  Good(spool_flow_insert(k, maps)[1])
<1>1. entry.ready \in BOOLEAN
  BY NowIs DEF IInv, Good, Result, Entry
<1>2. CASE entry.ready
  <2>1. ~ended => entry.si
    BY <1>2, NowIs DEF IInv, Good, Sane, Going
  <2>2. Good(Counted(Inserted(k), k))
    BY <2>1, InsertedGood, CountedGood DEF Exists
  <2>3. spool_flow_insert(k, maps) = <<Counted(Inserted(k), k), TRUE>>
    BY <1>2 DEF spool_flow_insert
  <2> QED BY <2>2, <2>3
<1>3. CASE ~entry.ready /\ maps
  <2> DEFINE n == [Inserted(k) EXCEPT !.entry.ready = TRUE]
  <2>1. n \in Result /\ (~n.ended => ~n.crashed)
    BY SoundKnown
  <2> HIDE DEF n
  <2>2. Readied(k) = spool_play(n)
    BY DEF Readied, n
  <2>3. Good(Counted(Readied(k), k))
    BY <2>1, <2>2, PlayGood, CountedGood
  <2>4. spool_flow_insert(k, maps) = <<Counted(Readied(k), k), TRUE>>
    BY <1>3 DEF spool_flow_insert
  <2> QED BY <2>3, <2>4
<1>4. CASE ~entry.ready /\ ~maps
  <2> DEFINE n == [Inserted(k) EXCEPT !.entry.ready = TRUE]
  <2>1. n \in Result /\ (~n.ended => ~n.crashed) /\ n.entry.state = entry.state
    BY SoundKnown
  <2>2. spool_flow_insert(k, maps) = <<spool_done(n), FALSE>>
    BY <1>4 DEF spool_flow_insert
  <2> HIDE DEF n
  <2>3. n.entry.state \notin {"PLAY", "PAUSE", "WAIT"} => Good(n)
    <3> SUFFICES ASSUME n.entry.state \notin {"PLAY", "PAUSE", "WAIT"}
                 PROVE  Good(n)
      OBVIOUS
    <3>1. entry.state = "NEXT"
      BY <2>1, NowIs DEF IInv, Good, Result, Entry, Exists
    <3>2. ended
      BY <3>1, NowIs DEF IInv, Good, Sane, Going
    <3>3. n.ended = ended
      BY InsertedGood DEF n, Good, Result
    <3> QED BY <2>1, <3>1, <3>2, <3>3 DEF Good, Sane, Woken
  <2> QED BY <2>1, <2>2, <2>3, DoneGood
<1> QED BY <1>1, <1>2, <1>3, <1>4

(* sound_fill takes no more than there is.                                 *)
LEMMA FillTyped ==
    ASSUME NEW e \in Entry, NEW tail \in BOOLEAN
    PROVE  /\ sound_fill(e, tail) \in Entry /\ FillSize(e) \in Nat
           /\ sound_fill(e, tail).state = e.state /\ sound_fill(e, tail).ready = e.ready
           /\ sound_fill(e, tail).si = e.si
           /\ sound_fill(e, tail).eof => e.eof \/ tail
<1>1. e.skip \in 0..Header /\ e.data \in Nat /\ e.level \in Int /\ Header \in Nat
  BY SizeAssumption DEF Entry
<1>2. Skippable(e) \in 0..e.skip /\ Skippable(e) <= e.data
  <2>1. e.skip \in Int /\ e.data \in Int
    BY <1>1
  <2>2. /\ Skippable(e) \in {e.skip, e.data}
        /\ Skippable(e) <= e.skip /\ Skippable(e) <= e.data
    BY <2>1, MinTwo DEF Skippable
  <2> QED BY <1>1, <2>2
<1>3. FillSize(e) \in Nat /\ FillSize(e) <= e.data - Skippable(e)
  <2> DEFINE m == e.data - Skippable(e)
  <2>1. m \in Nat /\ SOUND_FILL_SIZE \in Nat
    BY <1>1, <1>2, SizeAssumption
  <2> HIDE DEF m
  <2>2. /\ Min({SOUND_FILL_SIZE, m}) \in {SOUND_FILL_SIZE, m}
        /\ Min({SOUND_FILL_SIZE, m}) <= m
    BY <2>1, MinTwo
  <2> QED BY <2>1, <2>2 DEF FillSize, m
<1> DEFINE h == IF e.high = 0 THEN High ELSE e.high
           d == e.data - Skippable(e) - FillSize(e)
           k == e.skip - Skippable(e)
           l == e.level - FillSize(e)
           f == e.eof \/ tail
           y == e.played \/ FillSize(e) > 0
<1>4. /\ h \in {0, High} /\ d \in Nat /\ k \in 0..Header /\ l \in Int /\ f \in BOOLEAN
      /\ y \in BOOLEAN
  BY <1>1, <1>2, <1>3 DEF Entry
<1>5. PICK g : g = [e EXCEPT !.high = h]
  OBVIOUS
<1>6. g \in Entry /\ \A x \in DOMAIN g : x # "high" => g[x] = e[x]
  BY <1>4, <1>5 DEF Entry
<1>7. /\ g.data = e.data /\ g.skip = e.skip /\ g.level = e.level /\ g.eof = e.eof
      /\ g.played = e.played /\ g.state = e.state /\ g.ready = e.ready /\ g.si = e.si
  BY <1>6 DEF Entry
<1>8. sound_fill(e, tail) = [g EXCEPT !.data = d, !.skip = k, !.level = l, !.eof = f,
                                      !.played = y]
  BY <1>5, <1>7 DEF sound_fill, Marked
<1> HIDE DEF h, d, k, l, f, y
<1>9. PICK r : r = [g EXCEPT !.data = d, !.skip = k, !.level = l, !.eof = f,
                             !.played = y]
  OBVIOUS
<1>10. r = [state |-> g.state, ready |-> g.ready, si |-> g.si, level |-> l,
            high |-> g.high, skip |-> k, eof |-> f, data |-> d, played |-> y]
  BY <1>6, <1>9 DEF Entry
<1>11. r \in Entry /\ r.state = e.state /\ r.ready = e.ready /\ r.si = e.si
       /\ r.eof = f
  BY <1>4, <1>6, <1>7, <1>10 DEF Entry
<1> QED BY <1>3, <1>8, <1>9, <1>11 DEF f

(* A flow that ran dry waits, or is closed at its end.                     *)
LEMMA RunsDryGood ==
    ASSUME NEW n, Good(n), n.entry.state = "PLAY"
    PROVE  Good(RunsDry(n))
<1>1. /\ n \in Result /\ n.entry \in Entry /\ n.bufs \in 0..2 /\ n.update \in BOOLEAN
      /\ n.ended \in BOOLEAN
  BY DEF Good, Result
<1>2. CASE bufs > 0
  BY <1>2 DEF RunsDry
<1>3. CASE ~(bufs > 0) /\ n.entry.eof
  <2>1. PICK e : e = [n.entry EXCEPT !.si = FALSE]
    OBVIOUS
  <2>2. e \in Entry /\ e.state = "PLAY"
    BY <1>1, <2>1 DEF Entry
  <2>3. PICK m : m = [n EXCEPT !.entry = e, !.update = TRUE]
    OBVIOUS
  <2>4. m = [entry |-> e, bufs |-> n.bufs, conn |-> n.conn, update |-> TRUE,
             crashed |-> n.crashed, ended |-> n.ended]
    BY <1>1, <2>3 DEF Result
  <2>5. n.ended
    BY <1>1, <1>3 DEF Good, Sane, Going
  <2>6. Good(m)
    BY <1>1, <2>2, <2>4, <2>5, EntryGood
  <2> QED BY <1>3, <2>1, <2>3, <2>6 DEF RunsDry, sound_close
<1>4. CASE ~(bufs > 0) /\ ~n.entry.eof
  <2>1. PICK e : e = [n.entry EXCEPT !.state = "WAIT"]
    OBVIOUS
  <2>2. e \in Entry /\ e.state = "WAIT" /\ e.si = n.entry.si /\ e.ready = n.entry.ready
        /\ e.eof = n.entry.eof
    BY <1>1, <2>1 DEF Entry
  <2>3. PICK m : m = [n EXCEPT !.entry = e]
    OBVIOUS
  <2>4. m = [entry |-> e, bufs |-> n.bufs, conn |-> n.conn, update |-> n.update,
             crashed |-> n.crashed, ended |-> n.ended]
    BY <1>1, <2>3 DEF Result
  <2>5. ~n.ended => ~n.crashed /\ Going(e)
    BY <2>2 DEF Good, Sane, Going
  <2>6. Good(m)
    BY <1>1, <2>2, <2>4, <2>5, EntryGood
  <2> QED BY <1>4, <2>1, <2>3, <2>6 DEF RunsDry
<1> QED BY <1>2, <1>3, <1>4

(* spool_update fills a buffer of the entry, which plays.                  *)
LEMMA FilledGood ==
    ASSUME NEW n, Good(n), n.entry.state = "PLAY", n.bufs \in {0, 1},
           NEW tail \in BOOLEAN
    PROVE  Good(Filled(n, tail))
<1>1. /\ n \in Result /\ n.entry \in Entry /\ n.update \in BOOLEAN
      /\ n.conn \in [Clients -> Conn] /\ n.crashed \in BOOLEAN /\ n.ended \in BOOLEAN
  BY DEF Good, Result
<1> DEFINE e == sound_fill(n.entry, tail)
           d == n.ended \/ tail
<1>2. /\ e \in Entry /\ e.state = "PLAY" /\ e.ready = n.entry.ready /\ e.si = n.entry.si
      /\ e.eof => n.entry.eof \/ tail
  BY <1>1, FillTyped
<1>3. d \in BOOLEAN /\ (~d => ~n.crashed /\ Going(e))
  BY <1>1, <1>2 DEF Good, Sane, Going
<1>4. (d <=> n.ended \/ tail) /\ e = sound_fill(n.entry, tail)
  OBVIOUS
<1> HIDE DEF e, d
<1>5. PICK n1 : n1 = [n EXCEPT !.entry = e, !.ended = d]
  OBVIOUS
<1>6. n1 = [entry |-> e, bufs |-> n.bufs, conn |-> n.conn, update |-> n.update,
            crashed |-> n.crashed, ended |-> d]
  BY <1>1, <1>5 DEF Result
<1>7. Good(n1) /\ n1.entry = e
  BY <1>1, <1>2, <1>3, <1>6, EntryGood
<1>8. CASE FillSize(n.entry) = 0
  <2>1. Filled(n, tail) = RunsDry(n1)
    BY <1>5, <1>8 DEF Filled, e, d
  <2> QED BY <1>2, <1>7, <2>1, RunsDryGood
<1>9. CASE FillSize(n.entry) # 0
  <2> DEFINE b == n.bufs + 1
             cs == IF n1.entry.level < Low /\ source = "put"
                   THEN connection_flow_continue(n.conn) ELSE n.conn
  <2>1. b \in 0..2
    OBVIOUS
  <2>2. cs \in [Clients -> Conn]
    <3>1. connection_flow_continue(n.conn) \in [Clients -> Conn]
      BY <1>1 DEF connection_flow_continue, Turned, Conn, InPut
    <3> QED BY <1>1, <3>1
  <2>3. n1.bufs = n.bufs /\ n1.conn = n.conn
    BY <1>6
  <2>4. Filled(n, tail) = [n1 EXCEPT !.bufs = b, !.conn = cs]
    BY <1>5, <1>9, <2>3 DEF Filled, e, d
  <2> HIDE DEF b, cs
  <2>5. PICK m : m = [n1 EXCEPT !.bufs = b, !.conn = cs]
    OBVIOUS
  <2>6. m = [entry |-> e, bufs |-> b, conn |-> cs, update |-> n.update,
             crashed |-> n.crashed, ended |-> d]
    BY <1>6, <2>5
  <2>7. Good(m)
    BY <1>1, <1>2, <1>3, <2>1, <2>2, <2>6, MadeGood
  <2> QED BY <2>4, <2>5, <2>7
<1> QED BY <1>8, <1>9

-----------------------------------------------------------------------------
(* The steps.                                                              *)

(* The invariant, spelt out.                                               *)
LEMMA Unpack ==
    IInv => /\ entry \in Entry /\ bufs \in 0..2 /\ conn \in [Clients -> Conn]
            /\ spool_needs_update \in BOOLEAN /\ crashed \in BOOLEAN /\ ended \in BOOLEAN
            /\ ~ended => ~crashed /\ Going(entry)
            /\ entry.state = "NULL" => ~entry.si /\ \A c \in Clients : conn[c].event # "WAIT_FLOW"
            /\ Now \in Result /\ Good(Now)
BY NowIs DEF IInv, Good, Result, Sane, Woken

(* The next state, put together from good parts.                           *)
LEMMA Pack ==
    ASSUME entry' \in Entry, bufs' \in 0..2, conn' \in [Clients -> Conn],
           spool_needs_update' \in BOOLEAN, crashed' \in BOOLEAN, ended' \in BOOLEAN,
           ~ended' => ~crashed' /\ Going(entry'),
           entry'.state = "NULL" => ~entry'.si /\ \A c \in Clients : conn'[c].event # "WAIT_FLOW"
    PROVE  Good(Now)'
<1>1. Good([entry |-> entry', bufs |-> bufs', conn |-> conn',
            update |-> spool_needs_update', crashed |-> crashed', ended |-> ended'])
  BY MadeGood
<1>2. Now' = [entry |-> entry', bufs |-> bufs', conn |-> conn',
              update |-> spool_needs_update', crashed |-> crashed', ended |-> ended']
  BY DEF Now
<1>3. Good(Now') <=> Good(Now)'
  BY DEF Good, Sane, Woken, Going, Result, Entry, Conn, InPut
<1> QED BY <1>1, <1>2, <1>3

(* A step of the connections that nobody is made to wait by.               *)
LEMMA ConnPack ==
    ASSUME IInv, conn' \in [Clients -> Conn],
           \A c \in Clients : conn'[c].event = "WAIT_FLOW" =>
               conn[c].event = "WAIT_FLOW" \/ Exists,
           UNCHANGED <<entry, bufs, spool_needs_update, ended, crashed>>
    PROVE  Good(Now)'
<1>1. /\ entry' \in Entry /\ bufs' \in 0..2 /\ spool_needs_update' \in BOOLEAN
      /\ crashed' \in BOOLEAN /\ ended' \in BOOLEAN
      /\ ~ended' => ~crashed' /\ Going(entry')
  BY Unpack
<1>2. entry'.state = "NULL" => ~entry'.si /\ \A c \in Clients : conn'[c].event # "WAIT_FLOW"
  BY Unpack DEF Exists
<1> QED BY <1>1, <1>2, Pack

(* spool_needs_update is cleared, or set, and nothing else happens.        *)
LEMMA FlagGood ==
    ASSUME IInv, NEW u \in BOOLEAN, NEW n, n = [Now EXCEPT !.update = u]
    PROVE  /\ Good(n) /\ n.entry = entry /\ n.bufs = bufs /\ n.conn = conn
           /\ n.ended = ended /\ n.crashed = crashed
<1>1. /\ Now \in Result /\ Now.entry = entry /\ Now.bufs = bufs /\ Now.conn = conn
      /\ Now.ended = ended /\ Now.crashed = crashed
  BY Unpack, NowIs
<1>2. n = [entry |-> entry, bufs |-> bufs, conn |-> conn, update |-> u,
           crashed |-> crashed, ended |-> ended]
  BY <1>1 DEF Result
<1>3. Good(n)
  <2>1. /\ entry \in Entry /\ bufs \in 0..2 /\ conn \in [Clients -> Conn]
        /\ crashed \in BOOLEAN /\ ended \in BOOLEAN
        /\ ~ended => ~crashed /\ Going(entry)
        /\ entry.state = "NULL" => ~entry.si /\ \A c \in Clients : conn[c].event # "WAIT_FLOW"
    BY Unpack
  <2>2. Good([entry |-> entry, bufs |-> bufs, conn |-> conn, update |-> u,
              crashed |-> crashed, ended |-> ended])
    BY <2>1, MadeGood
  <2> QED BY <1>2, <2>2
<1>4. n.entry = entry /\ n.bufs = bufs /\ n.conn = conn
      /\ n.ended = ended /\ n.crashed = crashed
  BY <1>2
<1> QED BY <1>3, <1>4

(* spool_update.                                                           *)
LEMMA UpdateInv == IInv /\ spool_update => IInv'
<1> SUFFICES ASSUME IInv, spool_update PROVE IInv'
  OBVIOUS
<1>1. /\ source' \in Sources /\ sent' \in 0..MaxData /\ taken' \in BOOLEAN
      /\ served' \subseteq Clients \cup {"pipe"}
  BY DEF IInv, spool_update
<1>2. /\ pipe' \in [open : BOOLEAN, on : BOOLEAN, in : 0..MaxData]
      /\ pipe'.in <= sent'
  <2>1. CASE UNCHANGED pipe
    BY <2>1 DEF IInv, spool_update
  <2>2. ASSUME NEW b \in BOOLEAN, pipe' = [pipe EXCEPT !.on = pipe.on \/ b]
        PROVE  /\ pipe' \in [open : BOOLEAN, on : BOOLEAN, in : 0..MaxData]
               /\ pipe'.in <= sent'
    BY <2>2 DEF IInv, spool_update
  <2>3. \A n : PipeOn(n) \in BOOLEAN
    BY DEF PipeOn
  <2> QED BY <2>1, <2>2, <2>3 DEF spool_update
<1>3. Good(Now)'
  <2>1. CASE ~spool_needs_update \/ ~Exists
    BY <2>1, Unpack, Pack DEF spool_update
  <2> DEFINE n == [Now EXCEPT !.update = FALSE]
  <2>2. Good(n) /\ n.entry = entry /\ n.bufs = bufs /\ n.ended = ended
        /\ n.crashed = crashed
    BY FlagGood
  <2>3. spool_needs_update /\ Exists =>
           \/ Ends(entry) /\ Become(spool_destroy(n))
           \/ WantsFill(entry) /\ \E tail \in BOOLEAN : Become(Filled(n, tail))
           \/ Become(n)
    BY DEF spool_update
  <2> HIDE DEF n
  <2>4. CASE Become(spool_destroy(n))
    <3>1. n \in Result /\ (~n.ended => ~n.crashed)
      BY <2>2 DEF Good, Sane
    <3>2. Good(spool_destroy(n)) /\ spool_destroy(n) \in Result
      BY <3>1, DestroyGood DEF Good
    <3> QED BY <2>4, <3>2, BecomeIs
  <2>5. ASSUME WantsFill(entry), NEW tail \in BOOLEAN, Become(Filled(n, tail))
        PROVE  Good(Now)'
    <3>1. n.entry.state = "PLAY" /\ n.bufs \in {0, 1}
      BY <2>2, <2>5 DEF WantsFill
    <3>2. Good(Filled(n, tail)) /\ Filled(n, tail) \in Result
      BY <2>2, <3>1, FilledGood DEF Good
    <3> QED BY <2>5, <3>2, BecomeIs
  <2>6. CASE Become(n)
    BY <2>2, <2>6, BecomeIs DEF Good
  <2> QED BY <2>1, <2>3, <2>4, <2>5, <2>6
<1> QED BY <1>1, <1>2, <1>3 DEF IInv

(* spool_process.                                                          *)
LEMMA ProcessInv == IInv /\ spool_process => IInv'
<1> SUFFICES ASSUME IInv, spool_process PROVE IInv'
  OBVIOUS
<1>1. CASE bufs' = bufs - 1 /\ UNCHANGED entry
  <2>1. Good(Now)'
    BY <1>1, Unpack, Pack DEF spool_process
  <2> QED BY <2>1 DEF IInv, spool_process
<1>2. CASE entry.eof /\ bufs' = 0 /\ entry' = [entry EXCEPT !.state = "NEXT"]
  <2>1. entry' \in Entry /\ entry'.state = "NEXT"
    BY <1>2, Unpack DEF Entry
  <2>2. ended
    BY <1>2, Unpack DEF Going
  <2>3. Good(Now)'
    BY <1>2, <2>1, <2>2, Unpack, Pack DEF spool_process
  <2> QED BY <2>3 DEF IInv, spool_process
<1> QED BY <1>1, <1>2 DEF spool_process

(* Control: what others do to the entry.                                   *)
LEMMA ControlInv == IInv /\ Control => IInv'
<1> SUFFICES ASSUME IInv, Control PROVE IInv'
  OBVIOUS
<1>1. CASE Become(spool_done(Now))
  <2>1. Good(spool_done(Now))
    BY Unpack, NowIs, DoneGood DEF Good, Sane
  <2> QED BY <1>1, <2>1, BecomeIs DEF IInv, Control, Good
<1>2. CASE Become(spool_destroy([Now EXCEPT !.ended = TRUE]))
  <2>1. PICK m : m = [Now EXCEPT !.ended = TRUE]
    OBVIOUS
  <2>2. m = [entry |-> Now.entry, bufs |-> Now.bufs, conn |-> Now.conn,
             update |-> Now.update, crashed |-> Now.crashed, ended |-> TRUE]
    BY <2>1, Unpack DEF Result
  <2>3. m \in Result /\ m.ended
    BY <2>2, Unpack DEF Result
  <2>4. Good(spool_destroy(m))
    BY <2>3, DestroyGood
  <2> QED BY <1>2, <2>1, <2>4, BecomeIs DEF IInv, Control, Good
<1>3. ASSUME NEW st \in {"PLAY", "PAUSE"}, entry.state \in {"PLAY", "PAUSE"},
             NEW u \in BOOLEAN, entry' = [entry EXCEPT !.state = st],
             spool_needs_update' = u,
             UNCHANGED <<bufs, conn, crashed, ended>>
      PROVE  IInv'
  <2>1. /\ entry' \in Entry /\ entry'.state = st /\ entry'.si = entry.si
        /\ entry'.ready = entry.ready /\ entry'.eof = entry.eof
    BY <1>3, Unpack DEF Entry
  <2>2. ~ended' => ~crashed' /\ Going(entry')
    BY <1>3, <2>1, Unpack DEF Going
  <2>3. Good(Now)'
    BY <1>3, <2>1, <2>2, Unpack, Pack
  <2> QED BY <2>3 DEF IInv, Control
<1>4. CASE entry.state = "PLAY" /\ Become([Now EXCEPT !.entry.state = "PAUSE"])
  <2>1. PICK n : n = [Now EXCEPT !.entry.state = "PAUSE"]
    OBVIOUS
  <2>2. n = [entry |-> [entry EXCEPT !.state = "PAUSE"], bufs |-> bufs, conn |-> conn,
             update |-> spool_needs_update, crashed |-> crashed, ended |-> ended]
    BY <2>1, Unpack, NowIs DEF Result
  <2>3. Become(n)
    BY <1>4, <2>1
  <2> QED BY <1>3, <1>4, <2>2, <2>3, Unpack DEF Become
<1>5. CASE /\ entry.state = "PAUSE"
           /\ Become([Now EXCEPT !.entry.state = "PLAY", !.update = TRUE])
  <2>1. PICK n : n = [Now EXCEPT !.entry.state = "PLAY", !.update = TRUE]
    OBVIOUS
  <2>2. n = [entry |-> [entry EXCEPT !.state = "PLAY"], bufs |-> bufs, conn |-> conn,
             update |-> TRUE, crashed |-> crashed, ended |-> ended]
    BY <2>1, Unpack, NowIs DEF Result
  <2>3. Become(n)
    BY <1>5, <2>1
  <2> QED BY <1>3, <1>5, <2>2, <2>3, Unpack DEF Become
<1> QED BY <1>1, <1>2, <1>4, <1>5 DEF Control

(* A connection that takes its turn.                                       *)
LEMMA TurnTyped ==
    ASSUME IInv, NEW x \in Clients \cup {"pipe"}, Turn(x)
    PROVE  served' \subseteq Clients \cup {"pipe"}
BY DEF IInv, Turn

(* Clients: ClientPut, ClientData, ClientHangup and connection_timeout.    *)
LEMMA ClientInv ==
    ASSUME IInv, NEW c \in Clients,
           ClientPut(c) \/ ClientData(c) \/ ClientHangup(c) \/ connection_timeout(c)
    PROVE  IInv'
<1>1. ASSUME NEW t \in Tokens, Send(c, t)
      PROVE  /\ conn' \in [Clients -> Conn]
             /\ \A d \in Clients : conn'[d].event = conn[d].event
  <2> DEFINE i == Append(conn[c].in, t)
             a == conn[c].asked \/ t = "put"
             d == IF t = "data" /\ conn[c].due > 0 THEN conn[c].due - 1 ELSE conn[c].due
  <2>1. i \in Seq(Tokens) /\ a \in BOOLEAN /\ d \in Int
    BY Unpack DEF Conn, InPut
  <2>2. conn' = [conn EXCEPT ![c] = [conn[c] EXCEPT !.in = i, !.asked = a, !.due = d]]
    BY <1>1, Unpack DEF Send, Conn, InPut
  <2> HIDE DEF i, a, d
  <2>3. PICK r : r = [conn[c] EXCEPT !.in = i, !.asked = a, !.due = d]
    OBVIOUS
  <2>4. r \in Conn /\ r.event = conn[c].event
    BY <2>1, <2>3, Unpack DEF Conn, InPut
  <2> QED BY <2>2, <2>3, <2>4, Unpack
<1>2. CASE ClientPut(c)
  <2>1. Good(Now)'
    BY <1>1, <1>2, ConnPack DEF ClientPut, Tokens
  <2> QED BY <1>2, <2>1 DEF ClientPut, IInv
<1>3. CASE ClientData(c)
  <2>1. Good(Now)'
    BY <1>1, <1>3, ConnPack DEF ClientData, Tokens
  <2>2. sent' \in 0..MaxData /\ pipe.in <= sent'
    BY <1>3, SizeAssumption DEF ClientData, IInv
  <2> QED BY <1>3, <2>1, <2>2 DEF ClientData, IInv
<1>4. CASE ClientHangup(c)
  <2>1. conn' \in [Clients -> Conn] /\ \A d \in Clients : conn'[d].event = conn[d].event
    BY <1>4, Unpack DEF ClientHangup, Conn, InPut
  <2>2. Good(Now)'
    BY <1>4, <2>1, ConnPack DEF ClientHangup
  <2> QED BY <1>4, <2>2 DEF ClientHangup, IInv
<1>5. CASE connection_timeout(c)
  <2>1. NoConn \in Conn /\ NoConn.event = "NONE"
    BY DEF NoConn, Conn, InPut
  <2>2. /\ conn' \in [Clients -> Conn]
        /\ \A d \in Clients : conn'[d].event = "WAIT_FLOW" => conn[d].event = "WAIT_FLOW"
    BY <1>5, <2>1, Unpack DEF connection_timeout, Closed
  <2>3. Good(Now)'
    BY <1>5, <2>2, ConnPack DEF connection_timeout
  <2> QED BY <1>5, <2>3 DEF connection_timeout, IInv
<1> QED BY <1>2, <1>3, <1>4, <1>5

(* A step of one connection: its new record is r.                          *)
LEMMA OneConn ==
    ASSUME IInv, NEW c \in Clients, NEW r \in Conn,
           r.event = "WAIT_FLOW" => conn[c].event = "WAIT_FLOW",
           conn' = [conn EXCEPT ![c] = r],
           UNCHANGED <<entry, bufs, spool_needs_update, ended, crashed>>
    PROVE  Good(Now)'
<1>1. /\ conn' \in [Clients -> Conn]
      /\ \A d \in Clients : conn'[d].event = "WAIT_FLOW" => conn[d].event = "WAIT_FLOW"
  BY Unpack
<1> QED BY <1>1, ConnPack

(* What a connection is after k tokens were taken from it.                 *)
LEMMA TookTyped ==
    ASSUME IInv, NEW c \in Clients, NEW k \in 0..Len(conn[c].in)
    PROVE  Took(k, c) \in Conn /\ Took(k, c).event = conn[c].event
<1>1. conn[c] \in Conn /\ conn[c].in \in Seq(Tokens)
  BY Unpack DEF Conn, InPut
<1>2. SubSeq(conn[c].in, k + 1, Len(conn[c].in)) \in Seq(Tokens)
  BY <1>1, RestTyped
<1> QED BY <1>1, <1>2 DEF Took, Conn, InPut

(* A client that has its reply.                                            *)
LEMMA AnsweredConn ==
    ASSUME NEW t \in Conn, NEW r, r = [t EXCEPT !.asked = FALSE]
    PROVE  r \in Conn /\ r.event = t.event
<1>1. r = [event |-> t.event, nleft |-> t.nleft, in |-> t.in, asked |-> FALSE,
           due |-> t.due, hung |-> t.hung]
  BY DEF Conn
<1>2. r.event = t.event /\ r.nleft = t.nleft
  BY <1>1
<1> QED BY <1>1, <1>2 DEF Conn, InPut

(* command_put and the end of a connection between commands.               *)
LEMMA CommandInv ==
    ASSUME IInv, NEW c \in Clients, command_put(c) \/ CommandEnds(c)
    PROVE  IInv'
<1>1. served' \subseteq Clients \cup {"pipe"}
  BY TurnTyped DEF command_put, CommandEnds
<1>2. NoConn \in Conn /\ NoConn.event = "NONE"
  BY DEF NoConn, Conn, InPut
<1>3. CASE command_put(c)
  <2>1. conn[c].in \in Seq(Tokens) /\ conn[c].in # <<>>
    BY <1>3, Unpack DEF command_put, Conn, InPut
  <2>2. Took(1, c) \in Conn /\ Took(1, c).event = conn[c].event
    BY <2>1, TookTyped
  <2>3. ASSUME NEW size \in Sizes, NEW k, k = (IF size = 0 THEN -1 ELSE size),
               conn' = [conn EXCEPT ![c] =
                  [Took(1, c) EXCEPT !.event = "READ_FLOW", !.nleft = k,
                                     !.asked = FALSE, !.due = k]]
        PROVE  Good(Now)'
    <3>1. k \in Int /\ (k = -1 \/ k > 0)
      BY <2>3, SizeAssumption
    <3>2. PICK r : r = [Took(1, c) EXCEPT !.event = "READ_FLOW", !.nleft = k,
                                          !.asked = FALSE, !.due = k]
      OBVIOUS
    <3>3. r \in Conn /\ r.event = "READ_FLOW"
      BY <2>2, <3>1, <3>2 DEF Conn, InPut
    <3> QED BY <1>3, <2>3, <3>2, <3>3, OneConn DEF command_put
  <2>4. ASSUME conn' = [conn EXCEPT ![c] = [Took(1, c) EXCEPT !.asked = FALSE]]
        PROVE  Good(Now)'
    <3>1. PICK r : r = [Took(1, c) EXCEPT !.asked = FALSE]
      OBVIOUS
    <3>2. r \in Conn /\ r.event = "READ_COMMAND"
      BY <1>3, <2>2, <3>1, AnsweredConn DEF command_put
    <3>3. UNCHANGED <<entry, bufs, spool_needs_update, ended, crashed>>
      BY <1>3 DEF command_put
    <3>4. conn' = [conn EXCEPT ![c] = r]
      BY <2>4, <3>1
    <3> QED BY <3>2, <3>3, <3>4, OneConn
  <2>5. \/ \E size \in Sizes : \E k : k = (IF size = 0 THEN -1 ELSE size) /\
              conn' = [conn EXCEPT ![c] =
                  [Took(1, c) EXCEPT !.event = "READ_FLOW", !.nleft = k,
                                     !.asked = FALSE, !.due = k]]
        \/ conn' = [conn EXCEPT ![c] = [Took(1, c) EXCEPT !.asked = FALSE]]
    BY <1>3, Zenon DEF command_put
  <2>6. Good(Now)'
    BY <2>3, <2>4, <2>5, Zenon
  <2> QED BY <1>1, <1>3, <2>6 DEF command_put, IInv
<1>4. CASE CommandEnds(c)
  <2>1. Good(Now)'
    BY <1>2, <1>4, OneConn DEF CommandEnds, Closed
  <2> QED BY <1>1, <1>4, <2>1 DEF CommandEnds, IInv
<1> QED BY <1>3, <1>4

(* EVENT_READ_FLOW without its entry, and at the high water mark.          *)
LEMMA NoReadInv ==
    ASSUME IInv, NEW c \in Clients, EatFlow(c) \/ PauseFlow(c)
    PROVE  IInv'
<1>1. served' \subseteq Clients \cup {"pipe"}
  BY TurnTyped DEF EatFlow, PauseFlow, Reading
<1>2. NoConn \in Conn /\ NoConn.event = "NONE"
  BY DEF NoConn, Conn, InPut
<1>3. CASE EatFlow(c)
  <2> DEFINE k == Min({BUFFER_SIZE, conn[c].nleft, Len(conn[c].in)})
             left == conn[c].nleft - k
  <2>1. CASE conn' = Closed(conn, c)
    <3>1. Good(Now)'
      BY <1>2, <1>3, <2>1, OneConn DEF EatFlow, Closed
    <3> QED BY <1>1, <1>3, <3>1 DEF EatFlow, IInv
  <2>2. CASE ~Single(c) /\ k # 0
    <3>1. conn[c].nleft \in Int /\ Len(conn[c].in) \in Int /\ Len(conn[c].in) \in Nat
          /\ BUFFER_SIZE \in Int /\ BUFFER_SIZE \in Nat
      BY SizeAssumption, Unpack DEF Conn, InPut
    <3>2. k \in {BUFFER_SIZE, conn[c].nleft, Len(conn[c].in)} /\ k <= Len(conn[c].in)
      BY <3>1, MinThree
    <3>3. conn[c].nleft > 0
      BY <1>3, <2>2, Unpack DEF EatFlow, Reading, Single, Conn, InPut
    <3>4. k \in 0..Len(conn[c].in) /\ left \in Int
      BY <3>1, <3>2, <3>3
    <3>5. Took(k, c) \in Conn /\ Took(k, c).event = "READ_FLOW"
      BY <1>3, <3>4, TookTyped DEF EatFlow, Reading
    <3>6. conn' = [conn EXCEPT ![c] = [Took(k, c) EXCEPT !.nleft = left,
                      !.event = IF left > 0 THEN "READ_FLOW" ELSE "READ_COMMAND"]]
      BY <1>3, <2>2, <3>5 DEF EatFlow
    <3> HIDE DEF k, left
    <3>7. PICK r : r = [Took(k, c) EXCEPT !.nleft = left,
                      !.event = IF left > 0 THEN "READ_FLOW" ELSE "READ_COMMAND"]
      OBVIOUS
    <3>8. r \in Conn /\ r.event # "WAIT_FLOW"
      BY <3>4, <3>5, <3>7 DEF Conn, InPut
    <3>9. Good(Now)'
      BY <1>3, <3>6, <3>7, <3>8, OneConn DEF EatFlow
    <3> QED BY <1>1, <1>3, <3>9 DEF EatFlow, IInv
  <2> QED BY <1>3, <2>1, <2>2 DEF EatFlow
<1>4. CASE PauseFlow(c)
  <2>1. conn' \in [Clients -> Conn]
    <3>1. connection_flow_pause(conn) \in [Clients -> Conn]
      BY Unpack DEF connection_flow_pause, Turned, Conn, InPut
    <3> QED BY <1>4, <3>1 DEF PauseFlow
  <2>2. Good(Now)'
    BY <1>4, <2>1, ConnPack DEF PauseFlow
  <2> QED BY <1>1, <1>4, <2>2 DEF PauseFlow, IInv
<1> QED BY <1>3, <1>4

(* A result with another record for one connection.                        *)
LEMMA ConnSet ==
    ASSUME NEW n, Good(n), NEW c \in Clients, NEW r \in Conn,
           r.event = "WAIT_FLOW" => n.conn[c].event = "WAIT_FLOW",
           NEW m, m = [n EXCEPT !.conn = [n.conn EXCEPT ![c] = r]]
    PROVE  Good(m)
<1>1. /\ n \in Result /\ n.entry \in Entry /\ n.bufs \in 0..2 /\ n.update \in BOOLEAN
      /\ n.conn \in [Clients -> Conn] /\ n.crashed \in BOOLEAN /\ n.ended \in BOOLEAN
      /\ ~n.ended => ~n.crashed /\ Going(n.entry)
  BY DEF Good, Result, Sane
<1>2. PICK cs : cs = [n.conn EXCEPT ![c] = r]
  OBVIOUS
<1>3. /\ cs \in [Clients -> Conn]
      /\ n.entry.state = "NULL" => ~n.entry.si /\ \A d \in Clients : cs[d].event # "WAIT_FLOW"
  BY <1>1, <1>2 DEF Good, Woken
<1>4. m = [entry |-> n.entry, bufs |-> n.bufs, conn |-> cs, update |-> n.update,
           crashed |-> n.crashed, ended |-> n.ended]
  BY <1>1, <1>2 DEF Result
<1>5. Good([entry |-> n.entry, bufs |-> n.bufs, conn |-> cs, update |-> n.update,
            crashed |-> n.crashed, ended |-> n.ended])
  BY <1>1, <1>3, MadeGood
<1> QED BY <1>4, <1>5

(* ReadFlow: what is read is inserted, and counted at the connection.      *)
LEMMA ReadInv ==
    ASSUME IInv, NEW c \in Clients, ReadFlow(c)
    PROVE  IInv'
<1>1. served' \subseteq Clients \cup {"pipe"}
  BY TurnTyped DEF ReadFlow, Reading
<1> DEFINE k == Min({ReadSize(entry), Len(conn[c].in)})
           left == IF Single(c) THEN -1 ELSE conn[c].nleft - k
<1>2. k \in 0..Len(conn[c].in)
  <2>1. Len(conn[c].in) \in Nat /\ BUFFER_SIZE \in Nat
    BY SizeAssumption, Unpack DEF Conn
  <2>2. ReadSize(entry) \in Nat
    <3>1. CASE entry.si
      <4> DEFINE room == entry.high - entry.level
      <4>1. High \in Nat
        BY SizeAssumption, MarkAssumption
      <4>2. room \in Nat
        BY <3>1, <4>1, Unpack DEF ReadFlow, OverHigh, Entry
      <4> HIDE DEF room
      <4>3. room \in Int /\ BUFFER_SIZE \in Int
        BY <2>1, <4>2
      <4>4. Min({BUFFER_SIZE, room}) \in {BUFFER_SIZE, room}
        BY <4>3, MinTwo
      <4> QED BY <2>1, <3>1, <4>2, <4>4 DEF ReadSize, room
    <3>2. CASE ~entry.si
      BY <2>1, <3>2 DEF ReadSize
    <3> QED BY <3>1, <3>2
  <2>3. ReadSize(entry) \in Int /\ Len(conn[c].in) \in Int
    BY <2>1, <2>2
  <2>4. k \in {ReadSize(entry), Len(conn[c].in)} /\ k <= Len(conn[c].in)
    BY <2>3, MinTwo
  <2> QED BY <2>1, <2>2, <2>4
<1>3. left \in Int
  BY <1>2, Unpack DEF Conn
<1>4. PICK maps \in BOOLEAN :
        LET done == spool_flow_insert(k, maps)
            n == done[1]
            read == [n.conn[c] EXCEPT !.in = SubSeq(@, k + 1, Len(@))]
        IN /\ Become([n EXCEPT !.conn[c] =
                 IF ~done[2] THEN read
                 ELSE [read EXCEPT !.nleft = left,
                         !.event = IF Single(c) \/ left > 0 THEN @ ELSE "READ_COMMAND"]])
           /\ taken' = (taken \/ "put" \in ToSet(SubSeq(conn[c].in, 1, k)))
  BY Zenon DEF ReadFlow
<1>5. Single(c) => left = -1
  OBVIOUS
<1>6. k \in Nat /\ Exists
  <2>1. Exists
    BY DEF ReadFlow
  <2>2. Len(conn[c].in) \in Nat
    BY Unpack DEF Conn
  <2> HIDE DEF k
  <2> QED BY <1>2, <2>1, <2>2
<1> HIDE DEF k, left
<1> DEFINE done == spool_flow_insert(k, maps)
           n == done[1]
           read == [n.conn[c] EXCEPT !.in = SubSeq(@, k + 1, Len(@))]
           ev == IF Single(c) \/ left > 0 THEN read.event ELSE "READ_COMMAND"
           counted == [read EXCEPT !.nleft = left, !.event = ev]
           r == IF ~done[2] THEN read ELSE counted
<1>7. Become([n EXCEPT !.conn = [n.conn EXCEPT ![c] = r]])
  BY <1>4
<1>8. Good(n) /\ n.conn[c] \in Conn
  BY <1>6, FlowInsertGood DEF Good, Result
<1> HIDE DEF n, done
<1>9. read \in Conn /\ read.event = n.conn[c].event
  <2>1. SubSeq(n.conn[c].in, k + 1, Len(n.conn[c].in)) \in Seq(Tokens)
    BY <1>6, <1>8, RestTyped DEF Conn
  <2> QED BY <1>8, <2>1 DEF Conn, InPut
<1> HIDE DEF read
<1>10. counted \in Conn /\ counted.event \in {n.conn[c].event, "READ_COMMAND"}
  BY <1>3, <1>5, <1>9 DEF Conn, InPut
<1> HIDE DEF counted
<1>11. r \in Conn /\ (r.event = "WAIT_FLOW" => n.conn[c].event = "WAIT_FLOW")
  BY <1>9, <1>10
<1> HIDE DEF r
<1>12. Good([n EXCEPT !.conn = [n.conn EXCEPT ![c] = r]])
  BY <1>8, <1>11, ConnSet
<1>13. Good(Now)'
  BY <1>7, <1>12, BecomeIs DEF Good
<1>14. taken' \in BOOLEAN
  BY <1>4 DEF IInv
<1> QED BY <1>1, <1>13, <1>14 DEF ReadFlow, IInv

(* FlowEnds: the connection is closed.                                     *)
LEMMA FlowEndsInv ==
    ASSUME IInv, NEW c \in Clients, FlowEnds(c)
    PROVE  IInv'
<1>1. served' \subseteq Clients \cup {"pipe"}
  BY TurnTyped DEF FlowEnds, Reading
<1>2. NoConn \in Conn /\ NoConn.event = "NONE"
  BY DEF NoConn, Conn, InPut
<1> DEFINE n == IF Single(c) THEN spool_done(Now) ELSE Now
<1>3. Good(n)
  BY Unpack, NowIs, DoneGood DEF Good, Sane
<1>4. Become([n EXCEPT !.conn = [n.conn EXCEPT ![c] = NoConn]])
  BY DEF FlowEnds, Closed
<1> HIDE DEF n
<1>5. Good([n EXCEPT !.conn = [n.conn EXCEPT ![c] = NoConn]])
  BY <1>2, <1>3, ConnSet
<1>6. Good(Now)'
  BY <1>4, <1>5, BecomeIs DEF Good
<1> QED BY <1>1, <1>6 DEF FlowEnds, IInv

(* rplayd_put.                                                             *)
LEMMA PutInv == IInv /\ rplayd_put => IInv'
<1> SUFFICES ASSUME IInv, rplayd_put PROVE IInv'
  OBVIOUS
<1>1. PICK maps \in BOOLEAN : Become(spool_flow_insert(1, maps)[1])
  BY DEF rplayd_put
<1>2. Good(spool_flow_insert(1, maps)[1])
  BY FlowInsertGood DEF rplayd_put
<1>3. Good(Now)'
  BY <1>1, <1>2, BecomeIs DEF Good
<1>4. sent' \in 0..MaxData /\ pipe.in <= sent'
  BY SizeAssumption DEF rplayd_put, IInv
<1> QED BY <1>3, <1>4 DEF rplayd_put, IInv

(* The pipe: PipeData, PipeEnds and rplayd_pipe_read.                      *)
LEMMA PipeInv == IInv /\ (PipeData \/ PipeEnds \/ rplayd_pipe_read) => IInv'
<1> SUFFICES ASSUME IInv, PipeData \/ PipeEnds \/ rplayd_pipe_read PROVE IInv'
  OBVIOUS
<1>1. CASE PipeData
  <2>1. Good(Now)'
    BY <1>1, Unpack, Pack DEF PipeData
  <2>2. /\ pipe' \in [open : BOOLEAN, on : BOOLEAN, in : 0..MaxData]
        /\ sent' \in 0..MaxData /\ pipe'.in <= sent'
    BY <1>1, SizeAssumption DEF PipeData, IInv
  <2> QED BY <1>1, <2>1, <2>2 DEF PipeData, IInv
<1>2. CASE PipeEnds
  <2>1. Good(Now)'
    BY <1>2, Unpack, Pack DEF PipeEnds
  <2>2. pipe' \in [open : BOOLEAN, on : BOOLEAN, in : 0..MaxData] /\ pipe'.in <= sent
    BY <1>2 DEF PipeEnds, IInv
  <2> QED BY <1>2, <2>1, <2>2 DEF PipeEnds, IInv
<1>3. CASE rplayd_pipe_read
  <2>1. served' \subseteq Clients \cup {"pipe"}
    BY <1>3, TurnTyped DEF rplayd_pipe_read
  <2>2. Exists
    BY <1>3, Unpack DEF rplayd_pipe_read, Exists, Going
  <2>3. PipeSize \in 0..pipe.in /\ PipeSize \in Nat
    <3>1. High \in Nat /\ pipe.in \in Nat /\ High \in Int /\ pipe.in \in Int
      BY SizeAssumption, MarkAssumption DEF IInv
    <3>2. PipeSize \in {High, pipe.in} /\ PipeSize <= pipe.in
      BY <3>1, MinTwo DEF PipeSize
    <3> QED BY <3>1, <3>2
  <2>4. CASE pipe' = [pipe EXCEPT !.on = FALSE]
             /\ UNCHANGED <<entry, bufs, conn, spool_needs_update, crashed, ended>>
    <3>1. Good(Now)'
      BY <2>4, Unpack, Pack
    <3>2. pipe' \in [open : BOOLEAN, on : BOOLEAN, in : 0..MaxData] /\ pipe'.in <= sent
      BY <2>4 DEF IInv
    <3> QED BY <1>3, <2>1, <3>1, <3>2 DEF rplayd_pipe_read, IInv
  <2>5. CASE pipe' = [pipe EXCEPT !.in = @ - PipeSize]
             /\ Become(spool_flow_insert(PipeSize, TRUE)[1])
    <3>1. \A maps \in BOOLEAN : Good(spool_flow_insert(PipeSize, maps)[1])
      BY <2>2, <2>3, FlowInsertGood
    <3>2. Good(Now)'
      BY <2>5, <3>1, BecomeIs DEF Good
    <3>3. pipe' \in [open : BOOLEAN, on : BOOLEAN, in : 0..MaxData] /\ pipe'.in <= sent
      BY <2>3, <2>5, SizeAssumption DEF IInv
    <3> QED BY <1>3, <2>1, <3>2, <3>3 DEF rplayd_pipe_read, IInv
  <2>6. CASE Become(spool_done(Now)) /\ UNCHANGED pipe
    <3>1. Good(spool_done(Now))
      BY Unpack, NowIs, DoneGood DEF Good, Sane
    <3>2. Good(Now)'
      BY <2>6, <3>1, BecomeIs DEF Good
    <3> QED BY <1>3, <2>1, <2>6, <3>2 DEF rplayd_pipe_read, IInv
  <2> QED BY <1>3, <2>4, <2>5, <2>6 DEF rplayd_pipe_read
<1> QED BY <1>1, <1>2, <1>3

-----------------------------------------------------------------------------
(* The invariant holds at the beginning.                                   *)
LEMMA InitInv == Init => IInv
<1> SUFFICES ASSUME Init PROVE IInv
  OBVIOUS
<1>1. NoConn \in Conn /\ NoConn.event = "NONE"
  BY DEF NoConn, Conn, InPut
<1>2. PICK r : r = [NoConn EXCEPT !.event = "READ_COMMAND"]
  OBVIOUS
<1>3. conn = [c \in Clients |-> IF source = "put" THEN r ELSE NoConn]
  BY <1>2 DEF Init
<1>4. r \in Conn /\ r.event = "READ_COMMAND"
  BY <1>1, <1>2 DEF Conn, InPut
<1>5. conn \in [Clients -> Conn] /\ \A c \in Clients : conn[c].event # "WAIT_FLOW"
  BY <1>1, <1>3, <1>4
<1>6. entry \in Entry /\ Going(entry) /\ entry.state # "NULL"
  <2>1. CASE source = "put"
    <3>1. entry = [state |-> "WAIT", ready |-> FALSE, si |-> FALSE, level |-> 0,
                   high |-> 0, skip |-> 0, eof |-> FALSE, data |-> 0, played |-> FALSE]
      BY <2>1 DEF Init, NoEntry
    <3> QED BY <3>1, SizeAssumption DEF Entry, Going
  <2>2. CASE source # "put"
    <3>1. entry = [state |-> "PLAY", ready |-> TRUE, si |-> TRUE, level |-> 0,
                   high |-> 0, skip |-> 0, eof |-> FALSE, data |-> 0, played |-> FALSE]
      BY <2>2 DEF Init, NoEntry
    <3> QED BY <3>1, SizeAssumption DEF Entry, Going
  <2> QED BY <2>1, <2>2
<1>7. Good([entry |-> entry, bufs |-> bufs, conn |-> conn,
            update |-> spool_needs_update, crashed |-> crashed, ended |-> ended])
  <2>0. spool_needs_update \in BOOLEAN
    BY Zenon DEF Init
  <2>1. bufs \in 0..2 /\ crashed \in BOOLEAN /\ ended \in BOOLEAN /\ ~crashed
    <3>1. bufs \in 0..2
      BY DEF Init
    <3>2. crashed = FALSE /\ ended = FALSE
      BY Zenon DEF Init
    <3> QED BY <3>1, <3>2
  <2>2. ~ended => ~crashed /\ Going(entry)
    BY <1>6, <2>1
  <2>3. entry.state = "NULL" => ~entry.si /\ \A c \in Clients : conn[c].event # "WAIT_FLOW"
    BY <1>6
  <2> QED BY <1>5, <1>6, <2>0, <2>1, <2>2, <2>3, MadeGood
<1>8. Good(Now)
  BY <1>7 DEF Now
<1>9. /\ pipe \in [open : BOOLEAN, on : BOOLEAN, in : 0..MaxData] /\ pipe.in <= sent
      /\ sent \in 0..MaxData
  BY SizeAssumption DEF Init
<1> QED BY <1>8, <1>9 DEF Init, IInv

(* Every step keeps it.                                                    *)
LEMMA NextInv == IInv /\ [Next]_vars => IInv'
<1> SUFFICES ASSUME IInv, [Next]_vars PROVE IInv'
  OBVIOUS
<1>1. CASE UNCHANGED vars
  <2>1. Good(Now)'
    BY <1>1, Unpack, Pack DEF vars
  <2> QED BY <1>1, <2>1 DEF vars, IInv
<1>2. ASSUME NEW c \in Clients, Serve(c) PROVE IInv'
  BY <1>2, CommandInv, NoReadInv, ReadInv, FlowEndsInv DEF Serve
<1> QED BY <1>1, <1>2, UpdateInv, ProcessInv, ControlInv, ClientInv, PutInv, PipeInv DEF Next

(* The types of Flow's variables.                                          *)
THEOREM FlowTypes == Spec => []TypeOK
<1>1. IInv => TypeOK
  <2> SUFFICES ASSUME IInv PROVE TypeOK
    OBVIOUS
  <2>1. conn \in [Clients -> [event : {"NONE", "READ_COMMAND", "READ_FLOW", "WAIT_FLOW"},
                              nleft : Int, in : Seq(Tokens), asked : BOOLEAN, due : Int,
                              hung : BOOLEAN]]
    BY Unpack DEF Conn
  <2> QED BY <2>1, Unpack DEF TypeOK, IInv, Entry
<1> QED BY <1>1, InitInv, NextInv, PTL DEF Spec

(* A flow takes whatever data comes until something ends it: in particular *)
(* spool_flow_insert never follows sp->si of a flow that was not ended,    *)
(* however puts, datagrams, pauses, the timer and the fills interleave.    *)
THEOREM FlowSafe == Spec => []CrashOnlyAfterEnd
<1>1. IInv => CrashOnlyAfterEnd
  BY Unpack DEF CrashOnlyAfterEnd
<1> QED BY <1>1, InitInv, NextInv, PTL DEF Spec

(* No connection is left in EVENT_WAIT_FLOW by an entry that is gone,      *)
(* whatever destroyed it: the half of FlowContinues that is a matter of    *)
(* safety.                                                                 *)
THEOREM FlowWakes == Spec => []NobodyStranded
<1>1. IInv => NobodyStranded
  BY Unpack DEF NobodyStranded, Waiting, Exists
<1> QED BY <1>1, InitInv, NextInv, PTL DEF Spec
=============================================================================
