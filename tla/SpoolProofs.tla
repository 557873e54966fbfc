---------------------------- MODULE SpoolProofs ----------------------------
(***************************************************************************)
(* Theorems about Spool, for every number of spool cells, every id range,  *)
(* every set of sounds and requests, and every choice of environment       *)
(* events.                                                                 *)
(***************************************************************************)
EXTENDS Spool, FiniteSetTheorems, SequenceTheorems, TLAPS

Typed(e) == e \in Entry /\ EntryOK(e)

-----------------------------------------------------------------------------
(* What the operators on one entry do to its type.                         *)

(* An unused SPOOL structure is a well-formed entry.                       *)
LEMMA NullTyped ==
    /\ Typed(NullEntry) /\ NullEntry.state = "NULL"
    /\ NullEntry.curr_sound = 0 /\ NullEntry.auto_pause = FALSE
    /\ NullEntry.si = "null"
BY IdAssumption, SizeAssumption DEF Typed, NullEntry, Entry, EntryOK, States, Names

(* The id of an entry in the list is one that spool_id gives out.          *)
LEMMA IdTyped ==
    ASSUME NEW e, Typed(e), e.id # 0
    PROVE  e.id \in Ids
BY IdAssumption DEF Typed, Entry, EntryOK, Ids

(* The sound an entry is at is one of the sounds.                          *)
LEMMA CurrTyped ==
    ASSUME NEW e, Typed(e), e.state # "NULL"
    PROVE  Curr(e) \in Sounds /\ Info[Curr(e)].len \in Nat
<1>1. e.snd \in Seq(Sounds) /\ e.curr_sound + 1 \in 1..Len(e.snd)
  BY DEF Typed, Entry, EntryOK
<1>2. Curr(e) \in Sounds
  BY <1>1 DEF Curr
<1> QED BY <1>2, InfoAssumption

(* spool_play up to the auto_pause test leaves the entry well formed.      *)
LEMMA OpenedTyped ==
    ASSUME NEW e, Typed(e), e.curr_sound \in 0..(Len(e.snd) - 1), e.id # 0
    PROVE  /\ Typed(Opened(e))
           /\ Opened(e).state = "PLAY" /\ Opened(e).snd = e.snd
           /\ Opened(e).name = e.name /\ Opened(e).id = e.id
<1>1. e.snd \in Seq(Sounds) /\ e.curr_sound + 1 \in 1..Len(e.snd)
  BY DEF Typed, Entry
<1>2. Info[Curr(e)].len \in Nat
  BY <1>1, InfoAssumption DEF Curr
<1> DEFINE n == IF IsFlow(e) THEN e.left ELSE Info[Curr(e)].len
           z == 0
           u == [e EXCEPT !.state = "PLAY", !.si = "open", !.curr_buffer = z,
                          !.next_buffer = z, !.second = FALSE, !.left = n]
<1>3. n \in Nat /\ z \in Nat /\ z <= BufUnits
  BY <1>2, SizeAssumption DEF Typed, Entry
<1>4. Opened(e) = u
  BY DEF Opened
<1> HIDE DEF n, z
<1>5. /\ Typed(u) /\ u.state = "PLAY" /\ u.snd = e.snd
      /\ u.name = e.name /\ u.id = e.id
  BY <1>1, <1>3 DEF Typed, Entry, EntryOK, States
<1> HIDE DEF u
<1> QED BY <1>4, <1>5

(* spool_play leaves the entry well formed.                                *)
LEMMA PlayedTyped ==
    ASSUME NEW e, Typed(e), e.curr_sound \in 0..(Len(e.snd) - 1), e.id # 0
    PROVE  /\ Typed(Played(e))
           /\ Played(e).state = IF e.auto_pause THEN "PAUSE" ELSE "PLAY"
           /\ Played(e).auto_pause = FALSE
           /\ Played(e).snd = e.snd /\ Played(e).name = e.name
           /\ Played(e).id = e.id /\ Played(e).si = "open"
<1>1. e.snd \in Seq(Sounds) /\ e.curr_sound + 1 \in 1..Len(e.snd)
  BY DEF Typed, Entry
<1>2. Info[Curr(e)].len \in Nat
  BY <1>1, InfoAssumption DEF Curr
<1> DEFINE n == IF IsFlow(e) THEN e.left ELSE Info[Curr(e)].len
           z == 0
           st == IF e.auto_pause THEN "PAUSE" ELSE "PLAY"
           u == [e EXCEPT !.state = st, !.si = "open", !.curr_buffer = z,
                          !.next_buffer = z, !.second = FALSE, !.left = n,
                          !.auto_pause = FALSE]
<1>3. n \in Nat
  BY <1>2 DEF Typed, Entry
<1>4. Played(e) = u
  BY DEF Played, Opened, Typed, Entry
<1>5. z \in Nat /\ z <= BufUnits /\ st \in States /\ st \in {"PAUSE", "PLAY"}
  BY SizeAssumption DEF States
<1> HIDE DEF n, z, st
<1>6. /\ Typed(u) /\ u.state = st /\ u.auto_pause = FALSE /\ u.snd = e.snd
      /\ u.name = e.name /\ u.id = e.id /\ u.si = "open"
  BY <1>1, <1>3, <1>5 DEF Typed, Entry, EntryOK
<1> HIDE DEF u
<1> QED BY <1>4, <1>6 DEF st

(* The fill of spool_update leaves the entry well formed; the only state   *)
(* it changes is that of a flow that has run dry.                          *)
LEMMA FilledTyped ==
    ASSUME NEW e, Typed(e), e.state # "NULL"
    PROVE  /\ Typed(Filled(e))
           /\ Filled(e).state = IF RunsDry(e) THEN "WAIT" ELSE e.state
           /\ Filled(e).auto_pause = e.auto_pause
           /\ Filled(e).snd = e.snd /\ Filled(e).name = e.name
           /\ Filled(e).id = e.id
           /\ RunsDry(e) => Filled(e).si = e.si
<1>1. FillSize(e) \in 0..BufUnits /\ FillSize(e) <= e.left
  BY SizeAssumption DEF Typed, Entry, FillSize
<1> DEFINE Kept(d) == /\ Typed(d) /\ d.auto_pause = e.auto_pause
                      /\ d.snd = e.snd /\ d.name = e.name /\ d.id = e.id
<1>2. CASE Filled(e) = e /\ ~RunsDry(e)
  BY <1>2
<1>3. CASE Filled(e) = [e EXCEPT !.si = "null"] /\ ~RunsDry(e)
  <2> DEFINE u == [e EXCEPT !.si = "null"]
  <2>1. Kept(u) /\ u.state = e.state
    BY DEF Typed, Entry, EntryOK
  <2>2. Filled(e) = u
    BY <1>3
  <2> HIDE DEF u
  <2> QED BY <1>3, <2>1, <2>2
<1>4. CASE Filled(e) = [e EXCEPT !.state = "WAIT"] /\ RunsDry(e)
  <2> DEFINE u == [e EXCEPT !.state = "WAIT"]
  <2>1. Kept(u) /\ u.state = "WAIT" /\ u.si = e.si
    BY DEF Typed, Entry, EntryOK, States
  <2>2. Filled(e) = u
    BY <1>4
  <2> HIDE DEF u
  <2> QED BY <1>4, <2>1, <2>2
<1>5. CASE WantsFill(e) /\ FillSize(e) # 0
  <2> DEFINE n == FillSize(e)
             l == e.left - n
             b == IF e.curr_buffer = 0 THEN n ELSE e.curr_buffer
             m == IF e.curr_buffer = 0 THEN e.next_buffer ELSE n
             f == IF ~IsFlow(e) /\ Info[Curr(e)].cached /\ e.left = n
                  THEN "eof" ELSE e.si
             u == [e EXCEPT !.left = l, !.curr_buffer = b, !.next_buffer = m,
                            !.si = f]
  <2>1. Filled(e) = u
    BY <1>5 DEF Filled, Typed, Entry
  <2>2. /\ l \in Nat /\ b \in Nat /\ m \in Nat /\ b <= BufUnits /\ m <= BufUnits
        /\ f \in {"null", "open", "eof"}
    BY <1>1, SizeAssumption DEF Typed, Entry, EntryOK
  <2> HIDE DEF l, b, m, f
  <2>3. Kept(u) /\ u.state = e.state
    BY <2>2 DEF Typed, Entry, EntryOK
  <2> HIDE DEF u
  <2>4. ~RunsDry(e)
    BY <1>5 DEF RunsDry
  <2> QED BY <2>1, <2>3, <2>4
<1>6. \/ Filled(e) = e /\ ~RunsDry(e)
      \/ Filled(e) = [e EXCEPT !.si = "null"] /\ ~RunsDry(e)
      \/ Filled(e) = [e EXCEPT !.state = "WAIT"] /\ RunsDry(e)
      \/ WantsFill(e) /\ FillSize(e) # 0
  BY DEF Filled, RunsDry, RunsOut
<1> QED BY <1>2, <1>3, <1>4, <1>5, <1>6

(* "Some sounds must end here" only turns PLAY into NEXT.                  *)
LEMMA EndedTyped ==
    ASSUME NEW e, Typed(e)
    PROVE  /\ Typed(Ended(e))
           /\ e.state # "PLAY" => Ended(e) = e
           /\ e.state = "PLAY" => Ended(e).state \in {"PLAY", "NEXT"}
           /\ Ended(e).auto_pause = e.auto_pause
           /\ Ended(e).snd = e.snd /\ Ended(e).name = e.name
           /\ Ended(e).id = e.id /\ Ended(e).si = e.si
           /\ Ended(e).curr_buffer = e.curr_buffer
           /\ Ended(e).state = "PLAY" => e.curr_buffer # 0 \/ e.si # "null"
BY DEF Typed, Entry, EntryOK, Ended, States

(* A skip leaves curr_sound at most one before the list, and anywhere      *)
(* after it, with curr_count 1; everything else stays in the list.         *)
LEMMA SkippedTyped ==
    ASSUME NEW t \in Entry, t.curr_sound \in 0..(Len(t.snd) - 1)
    PROVE  LET u == Skipped(t) IN
           /\ u \in Entry /\ u.auto_pause = t.auto_pause
           /\ u.snd = t.snd /\ u.count = t.count /\ u.name = t.name
           /\ u.id = t.id /\ u.curr_buffer = t.curr_buffer
           /\ u.next_buffer = t.next_buffer /\ u.curr_sound >= -1
           /\ u.curr_sound \in 0..(Len(t.snd) - 1) \/ u.curr_count = 1
<1>1. /\ t.curr_sound \in Int /\ t.curr_count \in Nat /\ t.skip_count \in Int
      /\ Len(t.snd) \in Nat
  BY DEF Entry
<1>2. CASE t.skip_count = 0
  <2> DEFINE n == t.curr_count + 1
             u == [t EXCEPT !.curr_count = n]
  <2>1. n \in Nat /\ Skipped(t) = u
    BY <1>1, <1>2 DEF Skipped
  <2> HIDE DEF n
  <2>2. /\ u \in Entry /\ u.curr_sound = t.curr_sound /\ u.auto_pause = t.auto_pause
        /\ u.snd = t.snd /\ u.count = t.count /\ u.name = t.name
        /\ u.id = t.id /\ u.curr_buffer = t.curr_buffer
        /\ u.next_buffer = t.next_buffer /\ u.curr_count = n
    BY <2>1 DEF Entry
  <2> HIDE DEF u
  <2> QED BY <1>1, <2>1, <2>2
<1>3. CASE t.skip_count # 0
  <2> DEFINE k == IF t.skip_count < 0 /\ t.second
                  THEN t.skip_count + 1 ELSE t.skip_count
             m == Clamped(t, t.curr_sound + k - 1)
             u == [t EXCEPT !.curr_count = 1, !.skip_count = k, !.curr_sound = m]
  <2>1. Skipped(t) = u
    BY <1>3 DEF Skipped
  <2>2. k \in Int
    BY <1>1 DEF Entry
  <2> HIDE DEF k
  <2>3. m \in Int /\ m >= -1
    BY <1>1, <2>2 DEF Clamped
  <2> HIDE DEF m
  <2>4. /\ u \in Entry /\ u.curr_sound = m /\ u.auto_pause = t.auto_pause
        /\ u.snd = t.snd /\ u.count = t.count /\ u.name = t.name
        /\ u.id = t.id /\ u.curr_buffer = t.curr_buffer
        /\ u.next_buffer = t.next_buffer /\ u.curr_count = 1
    BY <2>2, <2>3 DEF Entry
  <2> HIDE DEF u
  <2> QED BY <1>1, <2>1, <2>3, <2>4
<1> QED BY <1>2, <1>3

(* The turn of the NEXT/SKIP case: buffers and file closed, then the skip. *)
LEMMA TurnedTyped ==
    ASSUME NEW e, Typed(e), e.state \in {"NEXT", "SKIP"}
    PROVE  LET u == Turned(e) IN
           /\ u \in Entry /\ u.auto_pause = e.auto_pause
           /\ u.snd = e.snd /\ u.count = e.count /\ u.name = e.name
           /\ u.id = e.id /\ u.curr_buffer = 0
           /\ u.next_buffer = 0 /\ u.curr_sound >= -1
           /\ u.curr_sound \in 0..(Len(e.snd) - 1) \/ u.curr_count = 1
<1> DEFINE d == Closed(e)
<1>1. /\ d \in Entry /\ d.curr_sound = e.curr_sound /\ d.snd = e.snd
      /\ d.count = e.count /\ d.name = e.name /\ d.id = e.id
      /\ d.auto_pause = e.auto_pause /\ d.curr_buffer = 0 /\ d.next_buffer = 0
  BY DEF Typed, Entry, Closed
<1>2. e.curr_sound \in 0..(Len(e.snd) - 1) /\ e.curr_sound >= -1
  BY DEF Typed, Entry, EntryOK
<1>3. Turned(e) = IF e.state = "SKIP" THEN Skipped(d) ELSE d
  BY DEF Turned
<1> HIDE DEF d
<1>4. CASE e.state = "SKIP"
  BY <1>1, <1>2, <1>3, <1>4, SkippedTyped
<1>5. CASE e.state # "SKIP"
  BY <1>1, <1>2, <1>3, <1>5
<1> QED BY <1>4, <1>5

(* spool_update puts the entry back on one of its sounds unless a skip     *)
(* went past the end of the list.                                          *)
LEMMA AdvancedTyped ==
    ASSUME NEW t \in Entry, Len(t.snd) # 0, t.curr_sound >= -1,
           Len(t.count) = Len(t.snd),
           t.curr_sound \in 0..(Len(t.snd) - 1) \/ t.curr_count = 1,
           ~PastListEnd(t)
    PROVE  LET u == Advanced(t) IN
           /\ u \in Entry /\ u.auto_pause = t.auto_pause
           /\ u.snd = t.snd /\ u.count = t.count /\ u.name = t.name
           /\ u.id = t.id /\ u.curr_buffer = t.curr_buffer
           /\ u.next_buffer = t.next_buffer
           /\ u.curr_sound \in 0..(Len(t.snd) - 1)
<1>1. /\ t.curr_sound \in Int /\ t.curr_count \in Nat /\ t.list_count \in Nat
      /\ Len(t.snd) \in Nat /\ t.count \in Seq(Nat)
  BY DEF Entry
<1>2. CASE t.curr_count > 1
  <2> DEFINE n == t.curr_count - 1
             u == [t EXCEPT !.curr_count = n]
  <2>1. n \in Nat /\ Advanced(t) = u
    BY <1>1, <1>2 DEF Advanced
  <2> HIDE DEF n
  <2>2. /\ u \in Entry /\ u.curr_sound = t.curr_sound /\ u.auto_pause = t.auto_pause
        /\ u.snd = t.snd /\ u.count = t.count /\ u.name = t.name
        /\ u.id = t.id /\ u.curr_buffer = t.curr_buffer
        /\ u.next_buffer = t.next_buffer /\ u.curr_count = n
    BY <2>1 DEF Entry
  <2> HIDE DEF u
  <2> QED BY <1>1, <1>2, <2>1, <2>2
<1>3. CASE t.curr_count = 0
  BY <1>1, <1>3 DEF Advanced
<1>4. CASE t.curr_count = 1 /\ t.curr_sound + 1 = Len(t.snd)
  <2> DEFINE n == IF t.list_count > 1 THEN t.list_count - 1 ELSE t.list_count
             m == t.count[1]
             z == 0
             u == [t EXCEPT !.list_count = n, !.curr_sound = z, !.curr_count = m]
  <2>1. n \in Nat /\ m \in Nat /\ z \in Int /\ z \in 0..(Len(t.snd) - 1)
    BY <1>1
  <2>2. Advanced(t) = u
    BY <1>1, <1>4 DEF Advanced, AtListEnd
  <2> HIDE DEF n, m, z
  <2>3. /\ u \in Entry /\ u.curr_sound = z /\ u.auto_pause = t.auto_pause
        /\ u.snd = t.snd /\ u.count = t.count /\ u.name = t.name
        /\ u.id = t.id /\ u.curr_buffer = t.curr_buffer
        /\ u.next_buffer = t.next_buffer /\ u.curr_count = m
    BY <2>1 DEF Entry
  <2> HIDE DEF u
  <2> QED BY <2>1, <2>2, <2>3
<1>5. CASE t.curr_count = 1 /\ t.curr_sound + 1 < Len(t.snd)
  <2> DEFINE i == t.curr_sound + 1
             m == t.count[t.curr_sound + 2]
             k == IF t.state = "SKIP" THEN 0 ELSE t.skip_count
             u == [t EXCEPT !.curr_sound = i, !.curr_count = m, !.skip_count = k]
  <2>1. t.curr_sound + 2 \in 1..Len(t.count)
    BY <1>1, <1>5
  <2>2. m \in Nat
    <3>1. PICK j : j = t.curr_sound + 2
      OBVIOUS
    <3>2. t.count[j] \in Nat
      <4>1. j \in 1..Len(t.count) /\ t.count \in Seq(Nat)
        BY <1>1, <2>1, <3>1
      <4> QED BY <4>1, ElementOfSeq
    <3> QED BY <3>1, <3>2
  <2>3. k \in Int
    BY DEF Entry
  <2>4. Advanced(t) = u
    BY <1>1, <1>5 DEF Advanced, AtListEnd
  <2>5. i \in Int /\ i \in 0..(Len(t.snd) - 1)
    BY <1>1, <1>5
  <2> HIDE DEF i, m, k
  <2>6. /\ u \in Entry /\ u.curr_sound = i /\ u.auto_pause = t.auto_pause
        /\ u.snd = t.snd /\ u.count = t.count /\ u.name = t.name
        /\ u.id = t.id /\ u.curr_buffer = t.curr_buffer
        /\ u.next_buffer = t.next_buffer /\ u.curr_count = m
    BY <2>2, <2>3, <2>5 DEF Entry
  <2> HIDE DEF u
  <2> QED BY <2>4, <2>5, <2>6
<1> QED BY <1>1, <1>2, <1>3, <1>4, <1>5 DEF PastListEnd

(* The same for the turn and the advance together.                         *)
LEMMA NextTyped ==
    ASSUME NEW e, Typed(e), e.state \in {"NEXT", "SKIP"},
           ~PastListEnd(Turned(e))
    PROVE  LET a == Advanced(Turned(e)) IN
           /\ Typed(a) /\ a.curr_sound \in 0..(Len(a.snd) - 1) /\ a.id # 0
           /\ a.auto_pause = e.auto_pause /\ a.snd = e.snd
           /\ a.name = e.name /\ a.id = e.id
<1>1. e.id # 0 /\ Len(e.snd) # 0 /\ Len(e.count) = Len(e.snd)
  BY DEF Typed, Entry, EntryOK
<1>2. PICK t : t = Turned(e)
  OBVIOUS
<1>3. /\ t \in Entry /\ t.auto_pause = e.auto_pause /\ t.snd = e.snd /\ t.count = e.count
      /\ t.name = e.name /\ t.id = e.id /\ t.curr_buffer = 0 /\ t.next_buffer = 0
      /\ t.curr_sound >= -1
      /\ t.curr_sound \in 0..(Len(e.snd) - 1) \/ t.curr_count = 1
  BY <1>2, TurnedTyped
<1>4. PICK a : a = Advanced(t)
  OBVIOUS
<1>5. /\ a \in Entry /\ a.auto_pause = t.auto_pause /\ a.snd = t.snd /\ a.count = t.count
      /\ a.name = t.name /\ a.id = t.id /\ a.curr_buffer = t.curr_buffer
      /\ a.next_buffer = t.next_buffer /\ a.curr_sound \in 0..(Len(t.snd) - 1)
  BY <1>1, <1>2, <1>3, <1>4, AdvancedTyped
<1>6. Typed(a)
  BY <1>1, <1>3, <1>5, SizeAssumption DEF Typed, EntryOK
<1> QED BY <1>1, <1>2, <1>3, <1>4, <1>5, <1>6

(* The handler keeps an entry well formed, and only turns PLAY into NEXT.  *)
LEMMA TickTyped ==
    ASSUME NEW e, Typed(e)
    PROVE  /\ Typed(TickEntry(e))
           /\ e.state # "PLAY" => TickEntry(e) = e
           /\ e.state = "PLAY" => TickEntry(e).state \in {"PLAY", "NEXT"}
           /\ TickEntry(e).auto_pause = e.auto_pause
           /\ TickEntry(e).snd = e.snd /\ TickEntry(e).name = e.name
           /\ TickEntry(e).id = e.id /\ TickEntry(e).si = e.si
<1> DEFINE Kept(d) == /\ Typed(d) /\ d.state = e.state
                      /\ d.auto_pause = e.auto_pause /\ d.snd = e.snd
                      /\ d.name = e.name /\ d.id = e.id /\ d.si = e.si
<1>1. Kept(Consumed(e))
  <2>1. CASE e.curr_buffer = 0
    BY <2>1 DEF Consumed
  <2>2. CASE e.curr_buffer > 1
    <3> DEFINE n == e.curr_buffer - 1
               u == [e EXCEPT !.curr_buffer = n, !.second = TRUE]
    <3>1. Consumed(e) = u /\ n \in Nat /\ n <= BufUnits
      BY <2>2, SizeAssumption DEF Consumed, Typed, Entry, EntryOK
    <3> HIDE DEF n
    <3>2. Kept(u)
      BY <3>1, SizeAssumption DEF Typed, Entry, EntryOK
    <3> HIDE DEF u
    <3> QED BY <3>1, <3>2
  <2>3. CASE e.curr_buffer = 1
    <3> DEFINE n == e.next_buffer
               z == 0
               u == [e EXCEPT !.curr_buffer = n, !.next_buffer = z,
                              !.second = TRUE]
    <3>1. /\ Consumed(e) = u /\ n \in Nat /\ n <= BufUnits
          /\ z \in Nat /\ z <= BufUnits
      BY <2>3, SizeAssumption DEF Consumed, Typed, Entry, EntryOK
    <3> HIDE DEF n, z
    <3>2. Kept(u)
      BY <3>1, SizeAssumption DEF Typed, Entry, EntryOK
    <3> HIDE DEF u
    <3> QED BY <3>1, <3>2
  <2>4. e.curr_buffer \in Nat
    BY SizeAssumption DEF Typed, Entry
  <2> QED BY <2>1, <2>2, <2>3, <2>4
<1>2. CASE e.state # "PLAY"
  BY <1>2 DEF TickEntry
<1>3. CASE e.state = "PLAY" /\ ~LastSample(e)
  BY <1>1, <1>3 DEF TickEntry
<1>4. CASE e.state = "PLAY" /\ LastSample(e)
  <2> DEFINE d == Consumed(e)
             u == [d EXCEPT !.state = "NEXT"]
  <2>1. TickEntry(e) = u
    BY <1>4 DEF TickEntry
  <2>2. Kept(d)
    BY <1>1
  <2> HIDE DEF d
  <2>3. /\ Typed(u) /\ u.state = "NEXT" /\ u.auto_pause = e.auto_pause
        /\ u.snd = e.snd /\ u.name = e.name /\ u.id = e.id /\ u.si = e.si
    BY <1>4, <2>2 DEF Typed, Entry, EntryOK, States
  <2> HIDE DEF u
  <2> QED BY <1>4, <2>1, <2>3
<1> QED BY <1>2, <1>3, <1>4

-----------------------------------------------------------------------------
(* Facts that the actions share.                                           *)

(* One entry is replaced by a well-formed one.                             *)
LEMMA EntrySet ==
    ASSUME TypeOK, NEW c \in Cells, NEW e, Typed(e),
           spool' = [spool EXCEPT ![c] = e]
    PROVE  /\ spool' \in [Cells -> Entry]
           /\ \A d \in Cells : EntryOK(spool'[d])
           /\ spool'[c] = e
           /\ \A d \in Cells \ {c} : spool'[d] = spool[d]
BY DEF TypeOK, Typed

(* An entry of the spool is well formed.                                   *)
LEMMA EntryGet ==
    ASSUME TypeOK, NEW c \in Cells
    PROVE  Typed(spool[c])
BY DEF TypeOK, Typed

(* spool_prio is a priority or 0.                                          *)
LEMMA HighestTyped ==
    ASSUME NEW sp \in [Cells -> Entry], NEW p \in Highest(sp)
    PROVE  p \in Nat
BY DEF Highest, Entry

(* Taking an entry out of the list leaves a list.                          *)
LEMMA WithoutTyped ==
    ASSUME order \in Seq(Cells), NEW i \in 1..Len(order)
    PROVE  Without(i) \in Seq(Cells)
<1>1. SubSeq(order, 1, i - 1) \in Seq(Cells)
  OBVIOUS
<1>2. SubSeq(order, i + 1, Len(order)) \in Seq(Cells)
  OBVIOUS
<1> QED BY <1>1, <1>2 DEF Without

(* The walk goes on with a shorter list, and ends with an empty one.       *)
LEMMA TailTyped ==
    ASSUME todo \in Seq(Cells), todo # <<>>
    PROVE  /\ Tail(todo) \in Seq(Cells)
           /\ Len(todo) # 1 => Tail(todo) # <<>>
           /\ Head(todo) \in Cells
<1>1. /\ Tail(todo) \in Seq(Cells) /\ Head(todo) \in Cells
      /\ Len(todo) \in Nat /\ Len(Tail(todo)) = Len(todo) - 1 /\ Len(todo) # 0
  OBVIOUS
<1>2. Len(todo) # 1 => Len(Tail(todo)) # 0
  BY <1>1
<1>3. Len(<<>>) = 0
  OBVIOUS
<1> QED BY <1>1, <1>2, <1>3

(* Deleting the flows of an entry.                                         *)
LEMMA CleanedTyped ==
    ASSUME NEW st \in [Sounds -> {"none", "pending", "ready"}], NEW e
    PROVE  Cleaned(st, e) \in [Sounds -> {"none", "pending", "ready"}]
BY DEF Cleaned

(* spool_destroy keeps the types.                                          *)
LEMMA DestroyTyped ==
    ASSUME TypeOK, NEW c \in Cells, Destroy(c)
    PROVE  /\ spool' \in [Cells -> Entry]
           /\ \A d \in Cells : EntryOK(spool'[d])
           /\ order' \in Seq(Cells)
           /\ status' \in [Sounds -> {"none", "pending", "ready"}]
           /\ prio' \in Nat
<1>1. spool' \in [Cells -> Entry] /\ \A d \in Cells : EntryOK(spool'[d])
  BY EntrySet, NullTyped DEF Destroy
<1>2. order' \in Seq(Cells)
  BY WithoutTyped DEF Destroy, Unlink, TypeOK
<1>3. status' \in [Sounds -> {"none", "pending", "ready"}]
  BY CleanedTyped DEF Destroy, TypeOK
<1>4. prio' \in Nat
  BY <1>1, HighestTyped DEF Destroy
<1> QED BY <1>1, <1>2, <1>3, <1>4

-----------------------------------------------------------------------------
(* Type correctness, one lemma per group of actions.                       *)

(* The daemon starts with an empty, well-formed spool.                     *)
LEMMA InitTyped == Init => TypeOK
<1> SUFFICES ASSUME Init PROVE TypeOK
  OBVIOUS
<1>1. spool \in [Cells -> Entry] /\ \A c \in Cells : EntryOK(spool[c])
  BY NullTyped DEF Init, Typed
<1>2. status \in [Sounds -> {"none", "pending", "ready"}]
  BY DEF Init, InitStatus
<1>3. cmd.op = "none"
  BY DEF Init, NoCmd
<1>4. CmdOK
  BY <1>3 DEF CmdOK
<1>5. last_id \in 0..MaxId /\ nplaying \in Int /\ npaused \in Int /\ prio \in Nat
  BY IdAssumption DEF Init
<1>6. order \in Seq(Cells) /\ todo \in Seq(Cells) /\ known \subseteq Ids
  BY DEF Init
<1> QED
  BY <1>1, <1>2, <1>4, <1>5, <1>6 DEF Init, TypeOK

(* A crash changes nothing but the position of the main loop.              *)
LEMMA CrashTyped == TypeOK /\ Crash => TypeOK'
BY DEF TypeOK, Crash, CmdOK

(* Every step of spool_update keeps the types.                             *)
LEMMA UpdateTyped == TypeOK /\ Update => TypeOK'
<1> SUFFICES ASSUME TypeOK, pc = "update", NEW c \in Cells, c = Head(todo),
                    \/ UpdateFinish(c) \/ UpdateNext(c) \/ UpdateCrash(c)
                    \/ UpdateFill(c) \/ UpdatePass(c)
             PROVE  TypeOK'
  BY DEF Update
<1> DEFINE e == Ended(spool[c])
<1>1. Typed(spool[c])
  BY EntryGet
<1>2. Typed(e) /\ e.id = spool[c].id
  BY <1>1, EndedTyped
<1>3. Step => /\ todo' \in Seq(Cells)
              /\ pc' \in {"select", "update"}
              /\ pc' = "update" => todo' # <<>>
  BY TailTyped DEF Step, TypeOK
<1> HIDE DEF e
<1>4. CASE UpdateFinish(c)
  <2>1. Destroy(c) /\ Step /\ nplaying' \in Int /\ known' \subseteq Ids
        /\ UNCHANGED <<npaused, needs_update>>
    BY <1>4 DEF UpdateFinish, TypeOK
  <2> QED
    BY <1>3, <2>1, DestroyTyped DEF TypeOK, CmdOK, Step
<1>5. CASE UpdateNext(c)
  <2> DEFINE a == Advanced(Turned(e))
             p == Played(a)
  <2>1. /\ e.state \in {"NEXT", "SKIP"} /\ ~PastListEnd(Turned(e))
        /\ spool' = [spool EXCEPT ![c] = Filled(p)]
        /\ prio' \in Highest([spool EXCEPT ![c] = Opened(a)])
        /\ nplaying' \in Int /\ npaused' \in Int
        /\ known' \subseteq known \cup {e.id}
        /\ needs_update' = TRUE
        /\ Step
        /\ UNCHANGED <<order, status>>
    BY <1>5 DEF UpdateNext, TypeOK, e
  <2>2. Typed(a) /\ a.curr_sound \in 0..(Len(a.snd) - 1) /\ a.id # 0
        /\ a.id = e.id
    BY <1>2, <2>1, NextTyped
  <2>3. Typed(Opened(a))
    BY <2>2, OpenedTyped
  <2>4. Typed(p) /\ p.state # "NULL"
    BY <2>2, PlayedTyped
  <2> HIDE DEF a, p
  <2>5. spool' \in [Cells -> Entry] /\ \A d \in Cells : EntryOK(spool'[d])
    BY <2>1, <2>4, FilledTyped, EntrySet
  <2>6. prio' \in Nat
    <3>1. [spool EXCEPT ![c] = Opened(a)] \in [Cells -> Entry]
      BY <2>3 DEF TypeOK, Typed
    <3> QED BY <2>1, <3>1, HighestTyped
  <2>7. e.id \in Ids
    BY <1>2, <2>2, IdTyped
  <2>8. known' \subseteq Ids
    BY <2>1, <2>7 DEF TypeOK
  <2> QED
    BY <1>3, <2>1, <2>5, <2>6, <2>8 DEF TypeOK, CmdOK, Step
<1>6. CASE UpdateCrash(c)
  BY <1>6, CrashTyped DEF UpdateCrash
<1>7. CASE UpdateFill(c)
  <2>1. /\ e.state = "PLAY"
        /\ spool' = [spool EXCEPT ![c] = Filled(e)]
        /\ nplaying' \in Int
        /\ needs_update' \in BOOLEAN
        /\ Step
        /\ UNCHANGED <<order, status, npaused, prio, known>>
    BY <1>7 DEF UpdateFill, TypeOK, e
  <2>2. spool' \in [Cells -> Entry] /\ \A d \in Cells : EntryOK(spool'[d])
    BY <1>2, <2>1, FilledTyped, EntrySet
  <2> QED BY <1>3, <2>1, <2>2 DEF TypeOK, CmdOK, Step
<1>8. CASE UpdatePass(c)
  BY <1>3, <1>8 DEF UpdatePass, TypeOK, CmdOK, Step, counters
<1> QED BY <1>4, <1>5, <1>6, <1>7, <1>8

(* The handler and the main loop keep the types.                           *)
LEMMA TickKeepsTypes == TypeOK /\ Tick => TypeOK'
<1> SUFFICES ASSUME TypeOK, Tick PROVE TypeOK'
  OBVIOUS
<1>1. spool' = [c \in Cells |-> TickEntry(spool[c])]
  BY DEF Tick
<1>2. \A c \in Cells : Typed(TickEntry(spool[c]))
  BY EntryGet, TickTyped
<1>3. spool' \in [Cells -> Entry] /\ \A d \in Cells : EntryOK(spool'[d])
  BY <1>1, <1>2 DEF Typed
<1>4. needs_update' \in BOOLEAN
  BY DEF Tick, TypeOK
<1> QED BY <1>3, <1>4 DEF Tick, TypeOK, CmdOK, counters

(* So does the rest of doit outside the walks.                             *)
LEMMA TopTyped == TypeOK /\ (Top \/ Wake) => TypeOK'
<1> SUFFICES ASSUME TypeOK, Top \/ Wake PROVE TypeOK'
  OBVIOUS
<1>1. CASE Top
  <2>1. timer_enabled' \in BOOLEAN
    BY <1>1 DEF Top, TimerOn
  <2> QED BY <1>1, <2>1 DEF Top, TypeOK, CmdOK, counters
<1>2. CASE Wake
  BY <1>2 DEF Wake, TypeOK, CmdOK, counters
<1> QED BY <1>1, <1>2

(* So does a reset, which forgets every entry.                             *)
LEMMA ResetTyped == TypeOK /\ Reset => TypeOK'
<1> SUFFICES ASSUME TypeOK, Reset PROVE TypeOK'
  OBVIOUS
<1>1. spool' \in [Cells -> Entry] /\ \A d \in Cells : EntryOK(spool'[d])
  BY NullTyped DEF Reset, Typed
<1>2. status' \in [Sounds -> {"none", "pending", "ready"}]
  BY DEF Reset, InitStatus
<1>3. order' \in Seq(Cells) /\ known' \subseteq Ids
  BY DEF Reset
<1> QED BY <1>1, <1>2, <1>3 DEF Reset, TypeOK, CmdOK

(* The commands start a walk, which leaves the spool alone.                *)
LEMMA WalkTyped ==
    ASSUME TypeOK, NEW command, Walk(command),
           status' \in [Sounds -> {"none", "pending", "ready"}],
           command.op = "skip" => command.arg \in Int,
           command.op = "modify" =>
               command.arg \in {"count", "list_count", "priority"} \X Nat
    PROVE  TypeOK'
<1>1. CmdOK'
  <2>1. NoCmd.op = "none"
    BY DEF NoCmd
  <2> QED BY <2>1 DEF Walk, CmdOK
<1> QED BY <1>1 DEF Walk, TypeOK, counters

(* Every command, and the arrival or loss of a remote sound, starts one.   *)
LEMMA CommandTyped ==
    TypeOK /\ (Command \/ \E s \in Sounds : SoundFound(s) \/ SoundLost(s)) => TypeOK'
<1> SUFFICES ASSUME TypeOK,
                    Command \/ \E s \in Sounds : SoundFound(s) \/ SoundLost(s)
             PROVE  TypeOK'
  OBVIOUS
<1>1. CASE Command
  <2>1. status' \in [Sounds -> {"none", "pending", "ready"}]
    BY <1>1 DEF Command, TypeOK
  <2>2. PICK t \in Targets :
          \/ \E op \in {"stop", "pause", "continue", "done"} :
                Walk([op |-> op, target |-> t, arg |-> 0])
          \/ \E n \in SkipCounts : Walk([op |-> "skip", target |-> t, arg |-> n])
          \/ \E ch \in Changes : Walk([op |-> "modify", target |-> t, arg |-> ch])
    BY <1>1 DEF Command
  <2>3. ASSUME NEW op \in {"stop", "pause", "continue", "done"},
               Walk([op |-> op, target |-> t, arg |-> 0])
        PROVE  TypeOK'
    BY <2>1, <2>3, WalkTyped
  <2>4. ASSUME NEW n \in SkipCounts, Walk([op |-> "skip", target |-> t, arg |-> n])
        PROVE  TypeOK'
    BY <2>1, <2>4, WalkTyped, SkipAssumption
  <2>5. ASSUME NEW ch \in Changes, Walk([op |-> "modify", target |-> t, arg |-> ch])
        PROVE  TypeOK'
    BY <2>1, <2>5, WalkTyped, ChangeAssumption
  <2> QED BY <2>2, <2>3, <2>4, <2>5
<1>2. ASSUME NEW s \in Sounds, SoundFound(s)
      PROVE  TypeOK'
  <2>1. status' \in [Sounds -> {"none", "pending", "ready"}]
    BY <1>2 DEF SoundFound, TypeOK
  <2> QED BY <1>2, <2>1, WalkTyped DEF SoundFound
<1>3. ASSUME NEW s \in Sounds, SoundLost(s)
      PROVE  TypeOK'
  <2>1. status' \in [Sounds -> {"none", "pending", "ready"}]
    BY <1>3 DEF SoundLost, TypeOK
  <2> QED BY <1>3, <2>1, WalkTyped DEF SoundLost
<1> QED BY <1>1, <1>2, <1>3

(* sound_lookup only makes sounds pending.                                 *)
LEMMA LookedUpTyped ==
    ASSUME TypeOK, NEW snd
    PROVE  LookedUp(snd) \in [Sounds -> {"none", "pending", "ready"}]
BY DEF LookedUp, TypeOK

(* The entry of a request is well formed once it has a state.              *)
LEMMA NewEntryTyped ==
    ASSUME NEW rq \in Requests, NEW i \in Ids
    PROVE  LET e == NewEntry(rq, i) IN
           /\ Typed(e) /\ e.state = "NULL" /\ e.id = i /\ e.id # 0
           /\ e.curr_sound \in 0..(Len(e.snd) - 1) /\ e.auto_pause = FALSE
           /\ e.snd = rq.snd /\ e.name = rq.name /\ e.si = "null"
<1>1. /\ rq.snd \in Seq(Sounds) /\ Len(rq.snd) \in Nat \ {0}
      /\ rq.count \in Seq(Nat) /\ Len(rq.count) = Len(rq.snd)
      /\ rq.list_count \in Nat /\ rq.priority \in Nat
  BY RequestAssumption
<1>2. rq.count[1] \in Nat
  BY <1>1
<1>3. rq.name \in Names
  BY DEF Names
<1>4. i \in Nat /\ i <= MaxId /\ i # 0
  BY IdAssumption DEF Ids
<1> DEFINE d == NullEntry
           sn == rq.snd
           co == rq.count
           cc == rq.count[1]
           lc == rq.list_count
           pr == rq.priority
           nm == rq.name
           u == [d EXCEPT !.id = i, !.snd = sn, !.count = co, !.curr_count = cc,
                          !.list_count = lc, !.priority = pr, !.name = nm]
<1>5. NewEntry(rq, i) = u
  BY DEF NewEntry
<1>6. Typed(d) /\ d.state = "NULL" /\ d.curr_sound = 0 /\ d.auto_pause = FALSE
      /\ d.si = "null"
  BY NullTyped
<1>7. /\ sn \in Seq(Sounds) /\ co \in Seq(Nat) /\ cc \in Nat /\ lc \in Nat
      /\ pr \in Nat /\ nm \in Names /\ Len(co) = Len(sn) /\ 0 \in 0..(Len(sn) - 1)
  BY <1>1, <1>2, <1>3
<1> HIDE DEF d, sn, co, cc, lc, pr, nm
<1>8. /\ Typed(u) /\ u.state = "NULL" /\ u.id = i /\ u.snd = sn
      /\ u.curr_sound = 0 /\ u.auto_pause = FALSE /\ u.name = nm /\ u.si = "null"
  BY <1>4, <1>6, <1>7 DEF Typed, Entry, EntryOK
<1> HIDE DEF u
<1> QED BY <1>4, <1>5, <1>7, <1>8 DEF sn, nm

(* What Enter does to the cell: it waits, plays or is given up.            *)
LEMMA EnterTyped ==
    ASSUME TypeOK, NEW rq \in Requests, NEW c \in Cells, NEW old,
           NEW ord \in Seq(Cells), NEW rest \in Seq(Cells),
           Enter(rq, c, old, ord, rest)
    PROVE  TypeOK'
<1> DEFINE e(i) == NewEntry(rq, i)
<1>1. PICK i \in NewIds(Gone(c)) :
        /\ last_id' = i
        /\ EnterWait(rq, c, old, i) \/ EnterPlay(rq, c, old, i)
           \/ EnterFail(rq, c, old, i)
        /\ order' \in {ord, rest}
        /\ status' = AfterLookup(rq, old)
        /\ UNCHANGED <<npaused, timer_enabled, pc, todo, cmd>>
  BY DEF Enter
<1>2. i \in Ids /\ Evicted(old) \in Int
  BY DEF NewIds, Evicted, TypeOK
<1>3. /\ \/ spool' = [spool EXCEPT ![c] = [e(i) EXCEPT !.state = "WAIT"]]
         \/ spool' = [spool EXCEPT ![c] = Played(e(i))]
         \/ spool' = [spool EXCEPT ![c] = NullEntry]
      /\ prio' \in Highest(Gone(c)) \/ prio' \in Highest(spool')
      /\ nplaying' \in {Evicted(old), Evicted(old) + 1}
      /\ known' \in {Silent(old), Silent(old) \cup {i}}
      /\ needs_update' \in {TRUE, needs_update}
  <2>1. CASE EnterWait(rq, c, old, i)
    BY <2>1 DEF EnterWait
  <2>2. CASE EnterPlay(rq, c, old, i)
    BY <2>2 DEF EnterPlay
  <2>3. CASE EnterFail(rq, c, old, i)
    BY <2>3 DEF EnterFail, Gone
  <2> QED BY <1>1, <2>1, <2>2, <2>3
<1>4. nplaying' \in Int
  BY <1>2, <1>3
<1>5. known' \subseteq known \cup {i}
  BY <1>3 DEF Silent
<1>6. Gone(c) \in [Cells -> Entry]
  BY NullTyped DEF TypeOK, Typed, Gone
<1>7. /\ Typed(e(i)) /\ e(i).id # 0 /\ e(i).curr_sound \in 0..(Len(e(i).snd) - 1)
  BY <1>2, NewEntryTyped
<1> HIDE DEF e
<1>8. Typed([e(i) EXCEPT !.state = "WAIT"]) /\ Typed(Played(e(i)))
  <2> DEFINE d == e(i)
  <2> HIDE DEF d
  <2>1. Typed(d) /\ d.id # 0 /\ d.curr_sound \in 0..(Len(d.snd) - 1)
    BY <1>7 DEF d
  <2>2. Typed([d EXCEPT !.state = "WAIT"])
    BY <2>1 DEF Typed, Entry, EntryOK, States
  <2>3. Typed(Played(d))
    BY <2>1, PlayedTyped
  <2> QED BY <2>2, <2>3 DEF d
<1>9. spool' \in [Cells -> Entry] /\ \A d \in Cells : EntryOK(spool'[d])
  BY <1>3, <1>8, EntrySet, NullTyped
<1>10. prio' \in Nat
  BY <1>3, <1>6, <1>9, HighestTyped
<1>11. status' \in [Sounds -> {"none", "pending", "ready"}]
  BY <1>1, LookedUpTyped, CleanedTyped DEF AfterLookup
<1>12. known' \subseteq Ids /\ last_id' \in 0..MaxId
  BY <1>1, <1>2, <1>5, IdAssumption DEF Ids, TypeOK
<1> QED BY <1>1, <1>9, <1>10, <1>11, <1>12, <1>3, <1>4 DEF TypeOK, CmdOK

(* Two sequences in a row.                                                 *)
LEMMA ConcatTyped ==
    ASSUME NEW S, NEW a \in Seq(S), NEW b \in Seq(S)
    PROVE  /\ a \o b \in Seq(S) /\ Len(a \o b) = Len(a) + Len(b)
           /\ Len(a \o b) \in Nat /\ Len(a \o b) >= Len(a)
OBVIOUS

(* Every outcome of rplayd_play keeps the types.                           *)
LEMMA PlayTyped == TypeOK /\ Play => TypeOK'
<1> SUFFICES ASSUME TypeOK, NEW rq \in Requests,
                    \/ PlayMerge(rq) \/ PlayMergeCrash(rq)
                    \/ PlayNew(rq) \/ PlayReplace(rq)
             PROVE  TypeOK'
  BY DEF Play
<1>1. CASE PlayMerge(rq)
  <2>1. PICK c \in Cells :
          /\ spool[c].state # "NULL"
          /\ spool' = [spool EXCEPT ![c].snd = @ \o rq.snd,
                                    ![c].count = @ \o rq.count]
          /\ status' = LookedUp(rq.snd)
          /\ UNCHANGED <<order, counters, prio, needs_update, last_id,
                         timer_enabled, pc, todo, cmd, known>>
    BY <1>1 DEF PlayMerge, Named, Live
  <2> DEFINE d == spool[c]
             sn == d.snd \o rq.snd
             co == d.count \o rq.count
             u == [d EXCEPT !.snd = sn, !.count = co]
  <2>2. spool' = [spool EXCEPT ![c] = u]
    BY <2>1
  <2>3. Typed(d)
    BY EntryGet
  <2> HIDE DEF d
  <2>4. /\ rq.snd \in Seq(Sounds) /\ rq.count \in Seq(Nat)
        /\ Len(rq.count) = Len(rq.snd)
    BY RequestAssumption
  <2>5. /\ d.snd \in Seq(Sounds) /\ d.count \in Seq(Nat)
        /\ Len(d.count) = Len(d.snd)
    BY <2>3 DEF Typed, Entry, EntryOK
  <2>6. /\ sn \in Seq(Sounds) /\ co \in Seq(Nat) /\ Len(co) = Len(sn)
        /\ Len(sn) >= Len(d.snd) /\ Len(sn) \in Nat
    <3>1. /\ sn \in Seq(Sounds) /\ Len(sn) = Len(d.snd) + Len(rq.snd)
          /\ Len(sn) >= Len(d.snd) /\ Len(sn) \in Nat
      BY <2>4, <2>5, ConcatTyped
    <3>2. co \in Seq(Nat) /\ Len(co) = Len(d.count) + Len(rq.count)
      BY <2>4, <2>5, ConcatTyped
    <3> HIDE DEF sn, co
    <3> QED BY <2>4, <2>5, <3>1, <3>2
  <2> HIDE DEF sn, co
  <2>7. Typed(u)
    <3>1. d.state # "NULL" => d.curr_sound \in 0..(Len(sn) - 1)
      BY <2>3, <2>5, <2>6 DEF Typed, Entry, EntryOK
    <3>2. u \in Entry
      BY <2>3, <2>6 DEF Typed, Entry
    <3>3. EntryOK(u)
      BY <2>3, <2>6, <3>1 DEF Typed, Entry, EntryOK
    <3> QED BY <3>2, <3>3 DEF Typed
  <2> HIDE DEF u
  <2>8. spool' \in [Cells -> Entry] /\ \A x \in Cells : EntryOK(spool'[x])
    BY <2>2, <2>7, EntrySet
  <2>9. status' \in [Sounds -> {"none", "pending", "ready"}]
    BY <2>1, LookedUpTyped
  <2> QED BY <2>1, <2>8, <2>9 DEF TypeOK, CmdOK, counters
<1>2. CASE PlayMergeCrash(rq)
  BY <1>2, CrashTyped DEF PlayMergeCrash
<1>3. CASE PlayNew(rq)
  <2>1. PICK c \in Cells : Enter(rq, c, NullEntry, <<c>> \o order, order)
    BY <1>3 DEF PlayNew
  <2>2. order \in Seq(Cells) /\ <<c>> \o order \in Seq(Cells)
    BY DEF TypeOK
  <2> QED BY <2>1, <2>2, EnterTyped
<1>4. CASE PlayReplace(rq)
  <2>1. PICK k \in 1..Len(order), c \in Cells :
          Enter(rq, c, spool[c], order, Without(k))
    BY <1>4 DEF PlayReplace, Lowest
  <2>2. order \in Seq(Cells) /\ Without(k) \in Seq(Cells)
    BY WithoutTyped DEF TypeOK
  <2> QED BY <2>1, <2>2, EnterTyped
<1> QED BY <1>1, <1>2, <1>3, <1>4

(* An entry keeps its type when only its state changes.                    *)
LEMMA StateTyped ==
    ASSUME NEW e, Typed(e), e.state # "NULL", NEW st \in States
    PROVE  LET u == [e EXCEPT !.state = st] IN
           /\ Typed(u) /\ u.state = st /\ u.auto_pause = e.auto_pause
           /\ u.snd = e.snd /\ u.name = e.name /\ u.id = e.id /\ u.si = e.si
BY DEF Typed, Entry, EntryOK

(* ... and when a skip is noted in it.                                     *)
LEMMA SkipTyped ==
    ASSUME NEW e, Typed(e), e.state # "NULL", NEW n \in Int, NEW b \in BOOLEAN
    PROVE  LET u == [e EXCEPT !.state = "SKIP", !.skip_count = n, !.auto_pause = b] IN
           /\ Typed(u) /\ u.state = "SKIP" /\ u.auto_pause = b
           /\ u.snd = e.snd /\ u.name = e.name /\ u.id = e.id
BY DEF Typed, Entry, EntryOK, States

(* ... and when `done' marks the end of a flow.                            *)
LEMMA DoneTyped ==
    ASSUME NEW e, Typed(e)
    PROVE  LET u == [e EXCEPT !.si = "eof"] IN
           /\ Typed(u) /\ u.state = e.state /\ u.auto_pause = e.auto_pause
           /\ u.snd = e.snd /\ u.name = e.name /\ u.id = e.id
BY DEF Typed, Entry, EntryOK

(* spool_set_list_count and spool_set_priority.                            *)
LEMMA SetTyped ==
    ASSUME NEW e, Typed(e), NEW v \in Nat
    PROVE  /\ LET u == [e EXCEPT !.list_count = v] IN
              /\ Typed(u) /\ u.state = e.state /\ u.auto_pause = e.auto_pause
              /\ u.snd = e.snd /\ u.name = e.name /\ u.id = e.id /\ u.si = e.si
           /\ LET u == [e EXCEPT !.priority = v] IN
              /\ Typed(u) /\ u.state = e.state /\ u.auto_pause = e.auto_pause
              /\ u.snd = e.snd /\ u.name = e.name /\ u.id = e.id /\ u.si = e.si
BY DEF Typed, Entry, EntryOK

(* spool_set_count.                                                        *)
LEMMA SetCountTyped ==
    ASSUME NEW e, Typed(e), NEW v \in Nat
    PROVE  LET u == [e EXCEPT !.curr_count = v, !.count[e.curr_sound + 1] = v] IN
           /\ Typed(u) /\ u.state = e.state /\ u.auto_pause = e.auto_pause
           /\ u.snd = e.snd /\ u.name = e.name /\ u.id = e.id /\ u.si = e.si
<1> DEFINE i == e.curr_sound + 1
           s == e.count
           co == [s EXCEPT ![i] = v]
           u == [e EXCEPT !.curr_count = v, !.count = co]
<1>1. s \in Seq(Nat) /\ Len(s) = Len(e.snd)
  BY DEF Typed, Entry, EntryOK
<1>2. [e EXCEPT !.curr_count = v, !.count[e.curr_sound + 1] = v] = u
  BY DEF Typed, Entry
<1> HIDE DEF i, s
<1>3. co \in Seq(Nat) /\ Len(co) = Len(s)
  <2>1. CASE i \in 1..Len(s)
    BY <1>1, <2>1, ExceptSeq
  <2>2. CASE i \notin 1..Len(s)
    <3>1. DOMAIN s = 1..Len(s)
      BY <1>1
    <3>2. co = s
      BY <1>1, <2>2, <3>1
    <3> QED BY <1>1, <3>2
  <2> QED BY <2>1, <2>2
<1> HIDE DEF co
<1>4. Typed(u) /\ u.state = e.state /\ u.auto_pause = e.auto_pause
      /\ u.snd = e.snd /\ u.name = e.name /\ u.id = e.id /\ u.si = e.si
  BY <1>1, <1>3 DEF Typed, Entry, EntryOK
<1> HIDE DEF u
<1> QED BY <1>2, <1>4

(* New flow data in an entry.                                              *)
LEMMA FeedTyped ==
    ASSUME NEW e, Typed(e)
    PROVE  LET u == Feed(e) IN
           /\ Typed(u) /\ u.state = e.state /\ u.auto_pause = e.auto_pause
           /\ u.snd = e.snd /\ u.name = e.name /\ u.id = e.id
           /\ u.curr_sound = e.curr_sound /\ u.si = e.si
<1> DEFINE n == e.left + 1
           u == [e EXCEPT !.left = n]
<1>1. n \in Nat /\ Feed(e) = u
  BY DEF Feed, Typed, Entry
<1> HIDE DEF n
<1>2. /\ Typed(u) /\ u.state = e.state /\ u.auto_pause = e.auto_pause
      /\ u.snd = e.snd /\ u.name = e.name /\ u.id = e.id
      /\ u.curr_sound = e.curr_sound /\ u.si = e.si
  BY <1>1 DEF Typed, Entry, EntryOK
<1> HIDE DEF u
<1> QED BY <1>1, <1>2

(* What a walk's step at one entry has to keep.                            *)
RestTyped ==
    /\ order \in Seq(Cells)
    /\ status \in [Sounds -> {"none", "pending", "ready"}]
    /\ nplaying \in Int
    /\ npaused \in Int
    /\ needs_update \in BOOLEAN
    /\ known \subseteq Ids

EntriesTyped ==
    /\ spool \in [Cells -> Entry]
    /\ \A c \in Cells : EntryOK(spool[c])
    /\ prio \in Nat
    /\ RestTyped

(* Leaving an entry alone.                                                 *)
LEMMA IgnoreTyped == TypeOK /\ Ignore => EntriesTyped'
BY DEF TypeOK, Ignore, EntriesTyped, RestTyped, counters

(* Taking an entry away.                                                   *)
LEMMA RemoveTyped ==
    ASSUME TypeOK, NEW c \in Cells, Remove(c)
    PROVE  EntriesTyped'
<1>1. Destroy(c) /\ nplaying' \in Int /\ npaused' \in Int
      /\ known' \subseteq Ids /\ UNCHANGED needs_update
  BY DEF Remove, TypeOK
<1> QED BY <1>1, DestroyTyped DEF EntriesTyped, RestTyped, TypeOK

(* Replacing an entry by a well-formed one, and the rest of the state by   *)
(* values of its type.                                                     *)
LEMMA ChangeTyped ==
    ASSUME TypeOK, NEW c \in Cells, NEW e, Typed(e),
           spool' = [spool EXCEPT ![c] = e],
           prio' = prio \/ prio' \in Highest(spool'),
           RestTyped'
    PROVE  EntriesTyped'
<1>1. spool' \in [Cells -> Entry] /\ \A d \in Cells : EntryOK(spool'[d])
  BY EntrySet
<1>2. prio' \in Nat
  BY <1>1, HighestTyped DEF TypeOK
<1> QED BY <1>1, <1>2 DEF EntriesTyped

(* Each of the commands keeps the types at the entry it is applied to.     *)
LEMMA ApplyTyped ==
    ASSUME TypeOK, NEW c \in Cells, Apply(c)
    PROVE  EntriesTyped'
<1>1. Typed(spool[c])
  BY EntryGet
<1>2. CASE cmd.op = "stop" /\ spool_stop(c)
  BY <1>2, IgnoreTyped, RemoveTyped DEF spool_stop
<1>3. CASE cmd.op = "pause" /\ spool_pause(c)
  <2>1. CASE Ignore
    BY <2>1, IgnoreTyped
  <2>2. CASE /\ spool[c].state = "PLAY"
             /\ spool' = [spool EXCEPT ![c].state = "PAUSE"]
             /\ nplaying' = nplaying - 1
             /\ npaused' = npaused + 1
             /\ UNCHANGED <<order, status, prio, needs_update, known>>
    <3> DEFINE u == [spool[c] EXCEPT !.state = "PAUSE"]
    <3>1. Typed(u)
      BY <1>1, <2>2, StateTyped DEF States
    <3>2. spool' = [spool EXCEPT ![c] = u]
      BY <2>2
    <3> HIDE DEF u
    <3>9. RestTyped'
      BY <2>2, <3>1, <3>2 DEF RestTyped, TypeOK
    <3> QED BY <2>2, <3>1, <3>2, <3>9, ChangeTyped
  <2> QED BY <1>3, <2>1, <2>2 DEF spool_pause
<1>4. CASE cmd.op = "continue" /\ spool_continue(c)
  <2>1. CASE Ignore
    BY <2>1, IgnoreTyped
  <2>2. CASE /\ spool[c].state = "PAUSE"
             /\ spool' = [spool EXCEPT ![c].state = "PLAY"]
             /\ nplaying' = nplaying + 1
             /\ npaused' = npaused - 1
             /\ needs_update' = TRUE
             /\ UNCHANGED <<order, status, prio, known>>
    <3> DEFINE u == [spool[c] EXCEPT !.state = "PLAY"]
    <3>1. Typed(u)
      BY <1>1, <2>2, StateTyped DEF States
    <3>2. spool' = [spool EXCEPT ![c] = u]
      BY <2>2
    <3> HIDE DEF u
    <3>9. RestTyped'
      BY <2>2, <3>1, <3>2 DEF RestTyped, TypeOK
    <3> QED BY <2>2, <3>1, <3>2, <3>9, ChangeTyped
  <2> QED BY <1>4, <2>1, <2>2 DEF spool_continue
<1>5. CASE cmd.op = "done" /\ spool_done(c)
  <2>1. CASE Ignore
    BY <2>1, IgnoreTyped
  <2>2. CASE Remove(c)
    BY <2>2, RemoveTyped
  <2>3. CASE /\ spool' = [spool EXCEPT ![c].si = "eof"]
             /\ UNCHANGED <<order, status, counters, prio, needs_update, known>>
    <3> DEFINE u == [spool[c] EXCEPT !.si = "eof"]
    <3>1. Typed(u)
      BY <1>1, DoneTyped
    <3>2. spool' = [spool EXCEPT ![c] = u]
      BY <2>3
    <3> HIDE DEF u
    <3>9. RestTyped'
      BY <2>3, <3>1, <3>2 DEF RestTyped, TypeOK, counters
    <3> QED BY <2>3, <3>1, <3>2, <3>9, ChangeTyped
  <2> QED BY <1>5, <2>1, <2>2, <2>3 DEF spool_done
<1>6. CASE cmd.op = "skip" /\ spool_skip(c)
  <2>1. CASE Ignore
    BY <2>1, IgnoreTyped
  <2>2. CASE ~Ignore
    <3> DEFINE n == cmd.arg
               b == spool[c].state = "PAUSE"
               u == [spool[c] EXCEPT !.state = "SKIP", !.skip_count = n,
                                     !.auto_pause = b]
    <3>1. /\ spool[c].state \in {"PLAY", "PAUSE"}
          /\ spool' = [spool EXCEPT ![c] = u]
          /\ npaused' = Unpaused(spool[c])
          /\ needs_update' = TRUE
          /\ UNCHANGED <<order, status, nplaying, prio, known>>
      BY <1>6, <2>2 DEF spool_skip
    <3>2. n \in Int /\ b \in BOOLEAN
      BY <1>6 DEF TypeOK, CmdOK
    <3> HIDE DEF n, b
    <3>3. Typed(u)
      BY <1>1, <3>1, <3>2, SkipTyped
    <3> HIDE DEF u
    <3>4. npaused' \in Int
      BY <3>1 DEF Unpaused, TypeOK
    <3>9. RestTyped'
      BY <3>1, <3>3, <3>4 DEF RestTyped, TypeOK
    <3> QED BY <3>1, <3>3, <3>4, <3>9, ChangeTyped
  <2> QED BY <2>1, <2>2
<1>7. CASE cmd.op = "modify" /\ spool_set(c)
  <2> DEFINE v == cmd.arg[2]
  <2>1. v \in Nat
    BY <1>7 DEF TypeOK, CmdOK
  <2> HIDE DEF v
  <2>2. /\ prio' = prio \/ prio' \in Highest(spool')
        /\ UNCHANGED <<order, status, counters, needs_update, known>>
    BY <1>7 DEF spool_set
  <2>3. \/ spool' = [spool EXCEPT ![c].curr_count = v,
                                  ![c].count[spool[c].curr_sound + 1] = v]
        \/ spool' = [spool EXCEPT ![c].list_count = v]
        \/ spool' = [spool EXCEPT ![c].priority = v]
    BY <1>7 DEF spool_set, v
  <2>4. PICK u : Typed(u) /\ spool' = [spool EXCEPT ![c] = u]
    <3>1. CASE spool' = [spool EXCEPT ![c].curr_count = v,
                                      ![c].count[spool[c].curr_sound + 1] = v]
      <4> DEFINE u == [spool[c] EXCEPT !.curr_count = v,
                                       !.count[spool[c].curr_sound + 1] = v]
      <4>1. Typed(u)
        BY <1>1, <2>1, SetCountTyped
      <4>2. spool' = [spool EXCEPT ![c] = u]
        BY <3>1
      <4> HIDE DEF u
      <4> QED BY <4>1, <4>2
    <3>2. CASE spool' = [spool EXCEPT ![c].list_count = v]
      <4> DEFINE u == [spool[c] EXCEPT !.list_count = v]
      <4>1. Typed(u)
        BY <1>1, <2>1, SetTyped
      <4>2. spool' = [spool EXCEPT ![c] = u]
        BY <3>2
      <4> HIDE DEF u
      <4> QED BY <4>1, <4>2
    <3>3. CASE spool' = [spool EXCEPT ![c].priority = v]
      <4> DEFINE u == [spool[c] EXCEPT !.priority = v]
      <4>1. Typed(u)
        BY <1>1, <2>1, SetTyped
      <4>2. spool' = [spool EXCEPT ![c] = u]
        BY <3>3
      <4> HIDE DEF u
      <4> QED BY <4>1, <4>2
    <3> QED BY <2>3, <3>1, <3>2, <3>3
  <2>9. RestTyped'
    BY <2>2, <2>4 DEF RestTyped, TypeOK, counters
  <2> QED BY <2>2, <2>4, <2>9, ChangeTyped
<1>8. CASE cmd.op = "ready" /\ spool_ready(c)
  <2>1. CASE Ignore
    BY <2>1, IgnoreTyped
  <2>2. CASE ~Ignore
    <3>1. /\ spool[c].state = "WAIT"
          /\ spool' = [spool EXCEPT ![c] = Played(spool[c])]
          /\ nplaying' = nplaying + 1
          /\ prio' \in Highest(spool')
          /\ needs_update' = TRUE
          /\ known' = known \cup {spool[c].id}
          /\ UNCHANGED <<order, status, npaused>>
      BY <1>8, <2>2 DEF spool_ready
    <3>2. spool[c].id # 0 /\ spool[c].curr_sound \in 0..(Len(spool[c].snd) - 1)
      BY <1>1, <3>1 DEF Typed, EntryOK
    <3>3. Typed(Played(spool[c])) /\ spool[c].id \in Ids
      BY <1>1, <3>2, PlayedTyped, IdTyped
    <3>9. RestTyped'
      BY <3>1, <3>3 DEF RestTyped, TypeOK
    <3> QED BY <3>1, <3>3, <3>9, ChangeTyped
  <2> QED BY <2>1, <2>2
<1> QED BY <1>2, <1>3, <1>4, <1>5, <1>6, <1>7, <1>8 DEF Apply

(* Every step of a command's walk keeps the types.                         *)
LEMMA LoopTyped == TypeOK /\ Loop => TypeOK'
<1> SUFFICES ASSUME TypeOK, pc = "loop", NEW c \in Cells,
                    \/ Apply(c) /\ Stepped
                    \/ ReadyCrash(c)
                    \/ Ignore /\ Stepped
             PROVE  TypeOK'
  BY DEF Loop
<1>1. CASE ReadyCrash(c)
  BY <1>1, CrashTyped DEF ReadyCrash
<1>2. CASE Stepped /\ (Apply(c) \/ Ignore)
  <2>1. EntriesTyped'
    BY <1>2, ApplyTyped, IgnoreTyped
  <2>2. /\ todo' \in Seq(Cells) /\ pc' \in {"select", "loop"}
        /\ pc' = "loop" => todo' # <<>>
    BY <1>2, TailTyped DEF Stepped, TypeOK
  <2>3. CmdOK'
    <3>1. NoCmd.op = "none"
      BY DEF NoCmd
    <3> QED BY <1>2, <3>1 DEF Stepped, TypeOK, CmdOK
  <2> QED BY <1>2, <2>1, <2>2, <2>3 DEF EntriesTyped, RestTyped, TypeOK, Stepped
<1> QED BY <1>1, <1>2

(* Every outcome of putting flow data keeps the types.                     *)
LEMMA PutTyped == TypeOK /\ Put => TypeOK'
<1> SUFFICES ASSUME TypeOK, NEW c \in Cells, spool[c].state # "NULL",
                    \/ /\ PutFirst(c) \/ PutUnmapped(c) \/ PutMore(c)
                       /\ UNCHANGED <<last_id, timer_enabled, pc, todo, cmd>>
                    \/ PutCrash(c)
             PROVE  TypeOK'
  BY DEF Put, Live
<1>1. Typed(spool[c]) /\ spool[c].id # 0
      /\ spool[c].curr_sound \in 0..(Len(spool[c].snd) - 1)
  BY EntryGet DEF Typed, EntryOK
<1>2. CASE PutCrash(c)
  BY <1>2, CrashTyped DEF PutCrash
<1>3. PutFirst(c) => EntriesTyped'
  <2> SUFFICES ASSUME PutFirst(c) PROVE EntriesTyped'
    OBVIOUS
  <2> DEFINE e == Feed(spool[c])
  <2>1. /\ spool' = [spool EXCEPT ![c] = Played(e)]
        /\ nplaying' \in Int /\ prio' \in Highest(spool')
        /\ needs_update' = TRUE
        /\ known' = known \cup {spool[c].id}
        /\ UNCHANGED <<order, npaused>>
    BY DEF PutFirst, TypeOK
  <2>2. /\ Typed(e) /\ e.id # 0 /\ e.curr_sound \in 0..(Len(e.snd) - 1)
    BY <1>1, FeedTyped
  <2> HIDE DEF e
  <2>3. Typed(Played(e)) /\ spool[c].id \in Ids
    BY <1>1, <2>2, PlayedTyped, IdTyped
  <2>4. status' \in [Sounds -> {"none", "pending", "ready"}]
    BY DEF PutFirst, TypeOK
  <2>9. RestTyped'
    BY <2>1, <2>3, <2>4 DEF RestTyped, TypeOK
  <2> QED BY <2>1, <2>3, <2>4, <2>9, ChangeTyped
<1>4. PutUnmapped(c) => EntriesTyped'
  BY RemoveTyped DEF PutUnmapped
<1>5. PutMore(c) => EntriesTyped'
  <2> SUFFICES ASSUME PutMore(c) PROVE EntriesTyped'
    OBVIOUS
  <2> DEFINE e == Feed(spool[c])
             st == IF e.state = "WAIT" THEN "PLAY" ELSE e.state
             u == [e EXCEPT !.state = st]
  <2>1. /\ spool' = [spool EXCEPT ![c] = u]
        /\ nplaying' \in Int /\ needs_update' \in BOOLEAN
        /\ UNCHANGED <<order, status, npaused, prio, known>>
    <3>1. nplaying' \in Int /\ needs_update' \in BOOLEAN
          /\ UNCHANGED <<order, status, npaused, prio, known>>
      BY DEF PutMore, TypeOK
    <3>2. spool' = [spool EXCEPT ![c] = u]
      BY Zenon DEF PutMore
    <3> QED BY <3>1, <3>2
  <2>2. Typed(e) /\ e.state # "NULL"
    BY <1>1, FeedTyped
  <2> HIDE DEF e
  <2>3. st \in States
    BY <2>2 DEF Typed, Entry, States
  <2> HIDE DEF st
  <2>4. Typed(u)
    BY <2>2, <2>3, StateTyped
  <2> HIDE DEF u
  <2>9. RestTyped'
    BY <2>1, <2>4 DEF RestTyped, TypeOK
  <2> QED BY <2>1, <2>4, <2>9, ChangeTyped
<1>6. CASE EntriesTyped' /\ UNCHANGED <<last_id, timer_enabled, pc, todo, cmd>>
  BY <1>6 DEF EntriesTyped, RestTyped, TypeOK, CmdOK
<1> QED BY <1>2, <1>3, <1>4, <1>5, <1>6

(* Every step of the specification keeps the types.                        *)
LEMMA NextTypes == TypeOK /\ [Next]_vars => TypeOK'
<1>1. TypeOK /\ UNCHANGED vars => TypeOK'
  BY DEF TypeOK, vars, CmdOK
<1> QED
  BY <1>1, TopTyped, UpdateTyped, LoopTyped, TickKeepsTypes, PlayTyped,
     CommandTyped, PutTyped, ResetTyped
  DEF Next, MainLoop, Client

(* Type correctness.  In particular sp->sound[sp->curr_sound] is always an *)
(* element of the entry's list, whatever skips, merges, count changes and  *)
(* list repetitions happen, for every list and every number of entries;    *)
(* and no buffer ever holds more than one fill.                            *)
THEOREM TypeCorrect == Spec => []TypeOK
<1>1. Init => TypeOK
  BY InitTyped
<1>2. TypeOK /\ [Next]_vars => TypeOK'
  BY NextTypes
<1> QED BY <1>1, <1>2, PTL DEF Spec

-----------------------------------------------------------------------------
(***************************************************************************)
(* spool_nplaying counts the entries that play: NplayingCounts as a        *)
(* theorem of Spool.  It is not inductive by itself.  Two more facts are   *)
(* needed: auto_pause belongs to a skip (or spool_update would forget to   *)
(* count a sound that ends), and a flow whose first data has not come is a *)
(* waiting entry of its own (or spool_flow_insert would count one twice).  *)
(* These two are in PlayInv, and what follows rests on them:               *)
(*   spool_npaused counts the paused entries (PausedCorrect), notify       *)
(*   clients are told of every entry (ClientsInformed), and a skip wakes   *)
(*   no paused entry (SkipsQuietly), all three from what a step may do to  *)
(*   an entry and to the clients (Tells);                                  *)
(*   the daemon follows no NULL and no freed pointer (NoListCrashes), from *)
(*   SafeInv: sounds stay ready and skips short.                           *)
(***************************************************************************)
PlayInv == NplayingCounts /\ AutoPauseSkip /\ FlowsHeld

(* What an entry contributes to spool_nplaying.                            *)
Weight(e) == IF Audible(e) THEN 1 ELSE 0

-----------------------------------------------------------------------------
(* Counting.                                                               *)

(* Two sets of cells that agree but for one of them.                       *)
LEMMA CardinalityChange ==
    ASSUME NEW A \in SUBSET Cells, NEW B \in SUBSET Cells, NEW c \in Cells,
           \A d \in Cells \ {c} : d \in A <=> d \in B
    PROVE  /\ Cardinality(A) \in Int /\ Cardinality(B) \in Int
           /\ Cardinality(B) = Cardinality(A) + (IF c \in B THEN 1 ELSE 0)
                                              - (IF c \in A THEN 1 ELSE 0)
<1>1. IsFiniteSet(A) /\ IsFiniteSet(B)
  BY CellsAssumption, FS_Subset
<1>2. Cardinality(A) \in Nat /\ Cardinality(B) \in Nat
  BY <1>1, FS_CardinalityType
<1>3. CASE c \in A /\ c \in B
  <2>1. A = B
    BY <1>3
  <2> QED BY <1>2, <1>3, <2>1
<1>4. CASE c \notin A /\ c \notin B
  <2>1. A = B
    BY <1>4
  <2> QED BY <1>2, <1>4, <2>1
<1>5. CASE c \in A /\ c \notin B
  <2>1. B = A \ {c}
    BY <1>5
  <2>2. Cardinality(B) = Cardinality(A) - 1
    BY <1>1, <1>5, <2>1, FS_RemoveElement
  <2> QED BY <1>2, <1>5, <2>2
<1>6. CASE c \notin A /\ c \in B
  <2>1. B = A \cup {c}
    BY <1>6
  <2>2. Cardinality(B) = Cardinality(A) + 1
    BY <1>1, <1>6, <2>1, FS_AddElement
  <2> QED BY <1>2, <1>6, <2>2
<1> QED BY <1>3, <1>4, <1>5, <1>6

(* One entry changes and the counter with it.                              *)
LEMMA CountChange ==
    ASSUME TypeOK, NplayingCounts, NEW c \in Cells, NEW e,
           spool' = [spool EXCEPT ![c] = e],
           nplaying' = nplaying + Weight(e) - Weight(spool[c])
    PROVE  NplayingCounts'
<1> DEFINE A == {d \in Cells : Audible(spool[d])}
           B == {d \in Cells : Audible(spool'[d])}
<1>1. /\ spool'[c] = e
      /\ \A d \in Cells \ {c} : spool'[d] = spool[d]
  BY DEF TypeOK
<1>2. \A d \in Cells \ {c} : d \in A <=> d \in B
  BY <1>1
<1>3. /\ Weight(e) = IF c \in B THEN 1 ELSE 0
      /\ Weight(spool[c]) = IF c \in A THEN 1 ELSE 0
  BY <1>1 DEF Weight
<1>4. A \in SUBSET Cells /\ B \in SUBSET Cells
  OBVIOUS
<1>5. nplaying = Cardinality(A)
  BY DEF NplayingCounts
<1>6. nplaying' = Cardinality(B) => NplayingCounts'
  BY DEF NplayingCounts, Audible
<1> HIDE DEF A, B
<1>7. nplaying' = Cardinality(B)
  BY <1>2, <1>3, <1>4, <1>5, CardinalityChange
<1> QED BY <1>6, <1>7

(* Nothing changes what an entry contributes.                              *)
LEMMA CountSame ==
    ASSUME NplayingCounts, nplaying' = nplaying,
           \A c \in Cells : Audible(spool'[c]) <=> Audible(spool[c])
    PROVE  NplayingCounts'
<1>1. {c \in Cells : Audible(spool'[c])} = {c \in Cells : Audible(spool[c])}
  OBVIOUS
<1> QED BY <1>1 DEF NplayingCounts, Audible

-----------------------------------------------------------------------------
(* Flows and their entries.                                                *)

(* FlowsHeld for one entry: d may hold the flow f only as its one sound.   *)
Owns(sp, st, d, f) ==
    /\ Len(sp[d].snd) = 1
    /\ sp[d].name = NoName
    /\ st[f] # "none"
    /\ st[f] = "pending" => sp[d].state = "WAIT"

Alive(sp) == {c \in Cells : sp[c].state # "NULL"}

Held(sp, st) ==
    \A d \in Alive(sp), f \in Flows : Has(sp[d], f) =>
        Owns(sp, st, d, f) /\ \A x \in Alive(sp) : Has(sp[x], f) => x = d

(* FlowsHeld in terms of Has.                                              *)
LEMMA HeldIff ==
    ASSUME TypeOK
    PROVE  FlowsHeld <=> Held(spool, status)
BY DEF FlowsHeld, Held, Owns, Alive, Live, Has

(* ... and the same in the next state.                                     *)
LEMMA HeldIffPrime == TypeOK' => (FlowsHeld' <=> Held(spool', status'))
BY DEF FlowsHeld, Held, Owns, Alive, Live, Has

(* An entry stays in the list with its sounds; no flow is deleted, none    *)
(* becomes pending, and if the entry stops waiting its flow is not pending.*)
LEMMA HeldChange ==
    ASSUME TypeOK, Held(spool, status), NEW c \in Cells, NEW e,
           spool' = [spool EXCEPT ![c] = e],
           spool[c].state # "NULL",
           e.snd = spool[c].snd, e.name = spool[c].name,
           \A f \in Flows : status[f] # "none" => status'[f] # "none",
           \A f \in Flows : status'[f] = "pending" => status[f] = "pending",
           \A f \in Flows : Has(spool[c], f) /\ status'[f] = "pending" =>
               (spool[c].state = "WAIT" => e.state = "WAIT")
    PROVE  Held(spool', status')
<1>1. /\ spool'[c] = e
      /\ \A d \in Cells \ {c} : spool'[d] = spool[d]
  BY DEF TypeOK
<1>2. \A d \in Cells, f \in Flows : Has(spool'[d], f) <=> Has(spool[d], f)
  BY <1>1 DEF Has
<1>3. Alive(spool') \subseteq Alive(spool)
  BY <1>1 DEF Alive
<1>4. ASSUME NEW d \in Alive(spool'), NEW f \in Flows, Has(spool'[d], f)
      PROVE  Owns(spool', status', d, f)
  <2>1. d \in Cells /\ Has(spool[d], f) /\ Owns(spool, status, d, f)
    BY <1>2, <1>3, <1>4 DEF Held, Alive
  <2>2. CASE d = c
    BY <1>1, <2>1, <2>2 DEF Owns
  <2>3. CASE d # c
    BY <1>1, <2>1, <2>3 DEF Owns
  <2> QED BY <2>2, <2>3
<1>5. ASSUME NEW d \in Alive(spool'), NEW f \in Flows, Has(spool'[d], f),
             NEW x \in Alive(spool'), Has(spool'[x], f)
      PROVE  x = d
  BY <1>2, <1>3, <1>5 DEF Held, Alive
<1> QED BY <1>4, <1>5 DEF Held

(* Entries and sounds stay, but for states that leave WAIT alone.          *)
LEMMA HeldSame ==
    ASSUME Held(spool, status),
           \A d \in Cells : /\ spool'[d].snd = spool[d].snd
                            /\ spool'[d].name = spool[d].name
                            /\ spool[d].state = "NULL" => spool'[d].state = "NULL"
                            /\ spool[d].state = "WAIT" => spool'[d].state = "WAIT",
           \A f \in Flows : status'[f] = status[f]
    PROVE  Held(spool', status')
<1>1. \A d \in Cells, f \in Flows : Has(spool'[d], f) <=> Has(spool[d], f)
  BY DEF Has
<1>2. Alive(spool') \subseteq Alive(spool)
  BY DEF Alive
<1> QED BY <1>1, <1>2 DEF Held, Owns, Alive

(* An entry is destroyed and its flow deleted: nobody else had it.         *)
LEMMA HeldGone ==
    ASSUME TypeOK, Held(spool, status), NEW c \in Cells, spool[c].state # "NULL",
           spool' = [spool EXCEPT ![c] = NullEntry],
           status' = Cleaned(status, spool[c])
    PROVE  Held(spool', status')
<1>1. /\ spool'[c].state = "NULL"
      /\ \A d \in Cells \ {c} : spool'[d] = spool[d]
  BY NullTyped DEF TypeOK
<1>2. ASSUME NEW d \in Alive(spool')
      PROVE  d \in Alive(spool) /\ d # c /\ spool'[d] = spool[d]
  BY <1>1 DEF Alive
<1>3. ASSUME NEW d \in Alive(spool'), NEW f \in Flows, Has(spool'[d], f)
      PROVE  Owns(spool', status', d, f)
  <2>1. Has(spool[d], f) /\ Owns(spool, status, d, f)
    BY <1>2, <1>3 DEF Held
  <2>2. ~Has(spool[c], f)
    BY <1>2, <2>1 DEF Held, Alive
  <2>3. status'[f] = status[f]
    BY <2>2 DEF Cleaned, Flows
  <2> QED BY <1>2, <2>1, <2>3 DEF Owns
<1>4. ASSUME NEW d \in Alive(spool'), NEW f \in Flows, Has(spool'[d], f),
             NEW x \in Alive(spool'), Has(spool'[x], f)
      PROVE  x = d
  BY <1>2, <1>4 DEF Held
<1> QED BY <1>3, <1>4 DEF Held

-----------------------------------------------------------------------------
(* The two kinds of steps most actions are.                                *)

(* One entry goes on.                                                      *)
LEMMA EntryChange ==
    ASSUME TypeOK, TypeOK', PlayInv, NEW c \in Cells, NEW e,
           spool' = [spool EXCEPT ![c] = e],
           spool[c].state # "NULL",
           e.snd = spool[c].snd, e.name = spool[c].name,
           e.auto_pause => e.state = "SKIP",
           nplaying' = nplaying + Weight(e) - Weight(spool[c]),
           \A f \in Flows : status[f] # "none" => status'[f] # "none",
           \A f \in Flows : status'[f] = "pending" => status[f] = "pending",
           \A f \in Flows : Has(spool[c], f) /\ status'[f] = "pending" =>
               (spool[c].state = "WAIT" => e.state = "WAIT")
    PROVE  PlayInv'
<1>1. NplayingCounts'
  BY CountChange DEF PlayInv
<1>2. AutoPauseSkip'
  <2>1. /\ spool'[c] = e
        /\ \A d \in Cells \ {c} : spool'[d] = spool[d]
    BY DEF TypeOK
  <2> QED BY <2>1 DEF PlayInv, AutoPauseSkip
<1>3. FlowsHeld'
  <2>1. Held(spool', status')
    BY HeldIff, HeldChange DEF PlayInv
  <2> QED BY <2>1, HeldIffPrime
<1> QED BY <1>1, <1>2, <1>3 DEF PlayInv

(* One entry is destroyed.                                                 *)
LEMMA EntryGone ==
    ASSUME TypeOK, TypeOK', PlayInv, NEW c \in Cells, spool[c].state # "NULL",
           Destroy(c), nplaying' = nplaying - Weight(spool[c])
    PROVE  PlayInv'
<1>1. spool' = [spool EXCEPT ![c] = NullEntry] /\ status' = Cleaned(status, spool[c])
  BY DEF Destroy
<1>2. Weight(NullEntry) = 0 /\ nplaying \in Int /\ Weight(spool[c]) \in Int
  BY NullTyped DEF Weight, Audible, TypeOK
<1>3. nplaying' = nplaying + Weight(NullEntry) - Weight(spool[c])
  BY <1>2
<1>4. NplayingCounts'
  BY <1>1, <1>3, CountChange DEF PlayInv
<1>5. AutoPauseSkip'
  <2>1. /\ spool'[c] = NullEntry
        /\ \A d \in Cells \ {c} : spool'[d] = spool[d]
    BY <1>1 DEF TypeOK
  <2> QED BY <2>1, NullTyped DEF PlayInv, AutoPauseSkip
<1>6. FlowsHeld'
  <2>1. Held(spool', status')
    BY <1>1, HeldIff, HeldGone DEF PlayInv
  <2> QED BY <2>1, HeldIffPrime
<1> QED BY <1>4, <1>5, <1>6 DEF PlayInv

(* Nothing happens to the spool.                                           *)
LEMMA EntrySame ==
    ASSUME TypeOK, TypeOK', PlayInv, UNCHANGED <<spool, nplaying>>,
           \A f \in Flows : status'[f] = status[f]
    PROVE  PlayInv'
<1>1. Held(spool', status')
  BY HeldIff, HeldSame DEF PlayInv
<1>2. FlowsHeld'
  BY <1>1, HeldIffPrime
<1>3. NplayingCounts' /\ AutoPauseSkip'
  BY DEF PlayInv, NplayingCounts, AutoPauseSkip, Audible
<1> QED BY <1>2, <1>3 DEF PlayInv

-----------------------------------------------------------------------------
(* The actions.                                                            *)

(* The empty spool.                                                        *)
LEMMA InitCounts == Init => PlayInv
<1> SUFFICES ASSUME Init PROVE PlayInv
  OBVIOUS
<1>1. \A c \in Cells : spool[c].state = "NULL" /\ spool[c].auto_pause = FALSE
  BY NullTyped DEF Init
<1>2. {c \in Cells : Audible(spool[c])} = {}
  BY <1>1 DEF Audible
<1>3. NplayingCounts
  BY <1>2, FS_EmptySet DEF Init, NplayingCounts
<1> QED BY <1>1, <1>3 DEF PlayInv, AutoPauseSkip, FlowsHeld, Live

(* A reset empties it again, and spool_init zeroes spool_nplaying.         *)
LEMMA ResetCounts == TypeOK /\ PlayInv /\ Reset => PlayInv'
<1> SUFFICES ASSUME TypeOK, PlayInv, Reset PROVE PlayInv'
  OBVIOUS
<1>1. \A c \in Cells : spool'[c].state = "NULL" /\ spool'[c].auto_pause = FALSE
  BY NullTyped DEF Reset
<1>2. {c \in Cells : Audible(spool'[c])} = {}
  BY <1>1 DEF Audible
<1>3. NplayingCounts'
  BY <1>2, FS_EmptySet DEF Reset, NplayingCounts, Audible
<1> QED BY <1>1, <1>3 DEF PlayInv, AutoPauseSkip, FlowsHeld, Live

(* The handler: a sound that ends still counts.                            *)
LEMMA TickCounts == TypeOK /\ TypeOK' /\ PlayInv /\ Tick => PlayInv'
<1> SUFFICES ASSUME TypeOK, TypeOK', PlayInv, Tick PROVE PlayInv'
  OBVIOUS
<1>1. \A c \in Cells : spool'[c] = TickEntry(spool[c])
  BY DEF Tick
<1>2. \A c \in Cells :
        /\ spool[c].state # "PLAY" => spool'[c] = spool[c]
        /\ spool[c].state = "PLAY" => spool'[c].state \in {"PLAY", "NEXT"}
        /\ spool'[c].auto_pause = spool[c].auto_pause
        /\ spool'[c].snd = spool[c].snd /\ spool'[c].name = spool[c].name
  BY <1>1, EntryGet, TickTyped
<1>3. NplayingCounts'
  <2>1. \A c \in Cells : Audible(spool'[c]) <=> Audible(spool[c])
    BY <1>2 DEF Audible
  <2> QED BY <2>1, CountSame DEF Tick, PlayInv, counters
<1>4. AutoPauseSkip'
  BY <1>2 DEF PlayInv, AutoPauseSkip
<1>5. FlowsHeld'
  <2>1. Held(spool', status')
    BY <1>2, HeldIff, HeldSame DEF PlayInv, Tick
  <2> QED BY <2>1, HeldIffPrime
<1> QED BY <1>3, <1>4, <1>5 DEF PlayInv

(* A file is not a flow.                                                   *)
LEMMA FilesFlows == Files \cap Flows = {}
BY DEF Files, Flows

(* Steps that leave the entries alone: the main loop outside the walks,    *)
(* the start of a walk, a crash.                                           *)
LEMMA StillCounts ==
    /\ TypeOK /\ TypeOK' /\ PlayInv
    /\ \/ Top \/ Wake \/ Command \/ Crash \/ Ignore \/ UNCHANGED vars
       \/ \E s \in Sounds : SoundFound(s) \/ SoundLost(s)
    => PlayInv'
<1> SUFFICES ASSUME TypeOK, TypeOK', PlayInv,
                    \/ Top \/ Wake \/ Command \/ Crash \/ Ignore \/ UNCHANGED vars
                    \/ \E s \in Sounds : SoundFound(s) \/ SoundLost(s)
             PROVE  PlayInv'
  OBVIOUS
<1>1. UNCHANGED <<spool, nplaying>>
  BY DEF Top, Wake, Command, Crash, Ignore, SoundFound, SoundLost, Walk, counters,
         vars
<1>2. \A f \in Flows : status'[f] = status[f]
  BY FilesFlows DEF Top, Wake, Command, Crash, Ignore, SoundFound, SoundLost, vars,
                    TypeOK, Flows
<1> QED BY <1>1, <1>2, EntrySame

(* spool_update: a sound that ended stops counting, the next one counts    *)
(* unless it starts paused, and a flow that runs dry stops counting.       *)
LEMMA UpdateCounts == TypeOK /\ TypeOK' /\ PlayInv /\ Update => PlayInv'
<1> SUFFICES ASSUME TypeOK, TypeOK', PlayInv, NEW c \in Cells,
                    \/ UpdateFinish(c) \/ UpdateNext(c) \/ UpdateCrash(c)
                    \/ UpdateFill(c) \/ UpdatePass(c)
             PROVE  PlayInv'
  BY DEF Update
<1> DEFINE e == Ended(spool[c])
<1>1. Typed(spool[c]) /\ nplaying \in Int
  BY EntryGet DEF TypeOK
<1>2. /\ Typed(e) /\ e.snd = spool[c].snd /\ e.name = spool[c].name
      /\ e.auto_pause = spool[c].auto_pause /\ e.auto_pause \in BOOLEAN
      /\ \/ e.state = spool[c].state
         \/ spool[c].state = "PLAY" /\ e.state = "NEXT"
  <2>1. /\ Typed(e) /\ e.snd = spool[c].snd /\ e.name = spool[c].name
        /\ e.auto_pause = spool[c].auto_pause
    BY <1>1, EndedTyped
  <2>2. \/ e.state = spool[c].state
        \/ spool[c].state = "PLAY" /\ e.state = "NEXT"
    <3>1. /\ spool[c].state # "PLAY" => e = spool[c]
          /\ spool[c].state = "PLAY" => e.state \in {"PLAY", "NEXT"}
      BY <1>1, EndedTyped
    <3> HIDE DEF e
    <3> QED BY <3>1
  <2> HIDE DEF e
  <2>3. e.auto_pause \in BOOLEAN
    BY <2>1 DEF Typed, Entry
  <2> QED BY <2>1, <2>2, <2>3
<1>3. spool[c].auto_pause => spool[c].state = "SKIP"
  BY DEF PlayInv, AutoPauseSkip
<1>4. \A f \in Flows : status' = status =>
        /\ status[f] # "none" => status'[f] # "none"
        /\ status'[f] = "pending" => status[f] = "pending"
  OBVIOUS
<1> HIDE DEF e
<1>5. CASE UpdateFinish(c)
  <2>1. /\ e.state \in {"NEXT", "SKIP"} /\ Destroy(c)
        /\ nplaying' = IF e.auto_pause THEN nplaying ELSE nplaying - 1
    BY <1>5 DEF UpdateFinish, e
  <2>2. Weight(spool[c]) = IF e.auto_pause THEN 0 ELSE 1
    BY <1>2, <1>3, <2>1 DEF Weight, Audible
  <2>3. spool[c].state # "NULL" /\ nplaying' = nplaying - Weight(spool[c])
    BY <1>1, <1>2, <2>1, <2>2
  <2> QED BY <2>1, <2>3, EntryGone
<1>6. CASE UpdateNext(c)
  <2> DEFINE a == Advanced(Turned(e))
             p == Played(a)
             ended == IF e.auto_pause THEN nplaying ELSE nplaying - 1
             played == IF a.auto_pause THEN ended + 1 - 1 ELSE ended + 1
  <2>1. /\ e.state \in {"NEXT", "SKIP"} /\ ~PastListEnd(Turned(e))
        /\ spool' = [spool EXCEPT ![c] = Filled(p)]
        /\ nplaying' = IF RunsDry(p) THEN played - 1 ELSE played
        /\ status' = status
    BY <1>6 DEF UpdateNext, e
  <2>2. /\ Typed(a) /\ a.curr_sound \in 0..(Len(a.snd) - 1) /\ a.id # 0
        /\ a.auto_pause = e.auto_pause /\ a.snd = e.snd /\ a.name = e.name
    BY <1>2, <2>1, NextTyped
  <2> HIDE DEF a
  <2>3. /\ Typed(p) /\ p.state = IF e.auto_pause THEN "PAUSE" ELSE "PLAY"
        /\ p.auto_pause = FALSE /\ p.snd = e.snd /\ p.name = e.name
    BY <2>2, PlayedTyped
  <2>4. p.state \in {"PAUSE", "PLAY"}
    BY <2>3
  <2>5. RunsDry(p) => p.state = "PLAY"
    BY DEF RunsDry
  <2> HIDE DEF p
  <2>6. /\ Filled(p).state = IF RunsDry(p) THEN "WAIT" ELSE p.state
        /\ Filled(p).auto_pause = FALSE
        /\ Filled(p).snd = spool[c].snd /\ Filled(p).name = spool[c].name
    BY <1>2, <2>3, <2>4, FilledTyped
  <2>7. Weight(spool[c]) = IF e.auto_pause THEN 0 ELSE 1
    BY <1>2, <1>3, <2>1 DEF Weight, Audible
  <2>8. Weight(Filled(p)) = IF e.auto_pause \/ RunsDry(p) THEN 0 ELSE 1
    BY <2>3, <2>5, <2>6 DEF Weight, Audible
  <2>9. nplaying' = nplaying + Weight(Filled(p)) - Weight(spool[c])
    <3>1. CASE e.auto_pause
      BY <1>1, <2>1, <2>2, <2>3, <2>5, <2>7, <2>8, <3>1
    <3>2. CASE ~e.auto_pause
      BY <1>1, <2>1, <2>2, <2>3, <2>5, <2>7, <2>8, <3>2
    <3> QED BY <3>1, <3>2
  <2>10. spool[c].state # "NULL" /\ spool[c].state # "WAIT"
    BY <1>2, <2>1
  <2> QED BY <1>4, <2>1, <2>6, <2>9, <2>10, EntryChange
<1>7. CASE UpdateCrash(c)
  BY <1>7, StillCounts DEF UpdateCrash
<1>8. CASE UpdateFill(c)
  <2>1. /\ e.state = "PLAY"
        /\ spool' = [spool EXCEPT ![c] = Filled(e)]
        /\ nplaying' = IF RunsDry(e) THEN nplaying - 1 ELSE nplaying
        /\ status' = status
    BY <1>8 DEF UpdateFill, e
  <2>2. /\ Filled(e).state = IF RunsDry(e) THEN "WAIT" ELSE "PLAY"
        /\ Filled(e).auto_pause = e.auto_pause
        /\ Filled(e).snd = spool[c].snd /\ Filled(e).name = spool[c].name
    BY <1>2, <2>1, FilledTyped
  <2>3. spool[c].state = "PLAY" /\ ~e.auto_pause
    BY <1>2, <1>3, <2>1
  <2>4. /\ Weight(spool[c]) = 1
        /\ Weight(Filled(e)) = IF RunsDry(e) THEN 0 ELSE 1
    BY <2>2, <2>3 DEF Weight, Audible
  <2>5. nplaying' = nplaying + Weight(Filled(e)) - Weight(spool[c])
    BY <1>1, <2>1, <2>4
  <2> QED BY <1>4, <2>1, <2>2, <2>3, <2>5, EntryChange
<1>9. CASE UpdatePass(c)
  BY <1>9, EntrySame DEF UpdatePass, counters
<1> QED BY <1>5, <1>6, <1>7, <1>8, <1>9

(* Taking an entry away: what it counted is taken back.                    *)
LEMMA RemoveCounts ==
    ASSUME TypeOK, TypeOK', PlayInv, NEW c \in Cells, Remove(c),
           spool[c].state \in Stoppable
    PROVE  PlayInv'
<1>1. /\ Destroy(c)
      /\ nplaying' = IF spool[c].state = "PLAY" THEN nplaying - 1 ELSE nplaying
  BY DEF Remove
<1>2. Weight(spool[c]) = IF spool[c].state = "PLAY" THEN 1 ELSE 0
  BY DEF Weight, Audible, Stoppable
<1>3. spool[c].state # "NULL" /\ nplaying' = nplaying - Weight(spool[c])
  BY <1>1, <1>2 DEF TypeOK, Stoppable
<1> QED BY <1>1, <1>3, EntryGone

(* The modify command never touches what is counted.                       *)
LEMMA SetCounts ==
    ASSUME TypeOK, TypeOK', PlayInv, NEW c \in Cells,
           cmd.op = "modify" /\ spool_set(c)
    PROVE  PlayInv'
<1>1. Typed(spool[c])
  BY EntryGet
<1> DEFINE v == cmd.arg[2]
<1>2. v \in Nat
  BY DEF TypeOK, CmdOK
<1> HIDE DEF v
<1>3. UNCHANGED <<status, nplaying>>
  BY DEF spool_set, counters
<1>4. \/ spool' = [spool EXCEPT ![c].curr_count = v,
                                ![c].count[spool[c].curr_sound + 1] = v]
      \/ spool' = [spool EXCEPT ![c].list_count = v]
      \/ spool' = [spool EXCEPT ![c].priority = v]
  BY DEF spool_set, v
<1> DEFINE Kept(u) == /\ u.state = spool[c].state
                      /\ u.auto_pause = spool[c].auto_pause
                      /\ u.snd = spool[c].snd /\ u.name = spool[c].name
<1>5. PICK u : Kept(u) /\ spool' = [spool EXCEPT ![c] = u]
  <2>1. CASE spool' = [spool EXCEPT ![c].curr_count = v,
                                    ![c].count[spool[c].curr_sound + 1] = v]
    <3> DEFINE u == [spool[c] EXCEPT !.curr_count = v,
                                     !.count[spool[c].curr_sound + 1] = v]
    <3>1. Kept(u)
      BY <1>1, <1>2, SetCountTyped
    <3>2. spool' = [spool EXCEPT ![c] = u]
      BY <2>1
    <3> HIDE DEF u
    <3> QED BY <3>1, <3>2
  <2>2. CASE spool' = [spool EXCEPT ![c].list_count = v]
    <3> DEFINE u == [spool[c] EXCEPT !.list_count = v]
    <3>1. Kept(u)
      BY <1>1, <1>2, SetTyped
    <3>2. spool' = [spool EXCEPT ![c] = u]
      BY <2>2
    <3> HIDE DEF u
    <3> QED BY <3>1, <3>2
  <2>3. CASE spool' = [spool EXCEPT ![c].priority = v]
    <3> DEFINE u == [spool[c] EXCEPT !.priority = v]
    <3>1. Kept(u)
      BY <1>1, <1>2, SetTyped
    <3>2. spool' = [spool EXCEPT ![c] = u]
      BY <2>3
    <3> HIDE DEF u
    <3> QED BY <3>1, <3>2
  <2> QED BY <1>4, <2>1, <2>2, <2>3
<1>6. \A d \in Cells : /\ spool'[d].state = spool[d].state
                       /\ spool'[d].auto_pause = spool[d].auto_pause
                       /\ spool'[d].snd = spool[d].snd
                       /\ spool'[d].name = spool[d].name
  BY <1>5 DEF TypeOK
<1>7. NplayingCounts'
  <2>1. \A d \in Cells : Audible(spool'[d]) <=> Audible(spool[d])
    BY <1>6 DEF Audible
  <2> QED BY <1>3, <2>1, CountSame DEF PlayInv
<1>8. AutoPauseSkip'
  BY <1>6 DEF PlayInv, AutoPauseSkip
<1>9. FlowsHeld'
  <2>1. Held(spool', status')
    BY <1>3, <1>6, HeldIff, HeldSame DEF PlayInv
  <2> QED BY <2>1, HeldIffPrime
<1> QED BY <1>7, <1>8, <1>9 DEF PlayInv

(* A step of a command's walk.                                             *)
LEMMA ApplyCounts ==
    ASSUME TypeOK, TypeOK', PlayInv, NEW c \in Cells, Apply(c)
    PROVE  PlayInv'
<1>1. Typed(spool[c]) /\ nplaying \in Int
  BY EntryGet DEF TypeOK
<1>2. spool[c].auto_pause => spool[c].state = "SKIP"
  BY DEF PlayInv, AutoPauseSkip
<1>3. CASE Ignore
  BY <1>3, StillCounts
<1>4. CASE Remove(c) /\ spool[c].state \in Stoppable
  BY <1>4, RemoveCounts
<1>5. ASSUME NEW st \in States, spool[c].state \in {"PLAY", "PAUSE"},
             spool' = [spool EXCEPT ![c].state = st], st \in {"PLAY", "PAUSE"},
             nplaying' = nplaying + (IF st = "PLAY" THEN 1 ELSE 0)
                                  - (IF spool[c].state = "PLAY" THEN 1 ELSE 0),
             status' = status
      PROVE  PlayInv'
  <2> DEFINE u == [spool[c] EXCEPT !.state = st]
  <2>1. spool' = [spool EXCEPT ![c] = u]
    BY <1>5
  <2>2. /\ u.state = st /\ u.auto_pause = spool[c].auto_pause
        /\ u.snd = spool[c].snd /\ u.name = spool[c].name
    BY <1>1, <1>5, StateTyped
  <2> HIDE DEF u
  <2>3. /\ Weight(u) = IF st = "PLAY" THEN 1 ELSE 0
        /\ Weight(spool[c]) = IF spool[c].state = "PLAY" THEN 1 ELSE 0
    BY <1>5, <2>2 DEF Weight, Audible
  <2>4. spool[c].state \notin {"NULL", "WAIT"} /\ ~u.auto_pause
    BY <1>2, <1>5, <2>2
  <2> QED BY <1>5, <2>1, <2>2, <2>3, <2>4, EntryChange
<1>6. CASE cmd.op = "stop" /\ spool_stop(c)
  BY <1>3, <1>4, <1>6 DEF spool_stop
<1>7. CASE cmd.op = "pause" /\ spool_pause(c)
  <2>1. CASE ~Ignore
    <3>1. /\ spool[c].state = "PLAY"
          /\ spool' = [spool EXCEPT ![c].state = "PAUSE"]
          /\ nplaying' = nplaying - 1 /\ status' = status
      BY <1>7, <2>1 DEF spool_pause
    <3>2. nplaying' = nplaying + (IF "PAUSE" = "PLAY" THEN 1 ELSE 0)
                               - (IF spool[c].state = "PLAY" THEN 1 ELSE 0)
      BY <1>1, <3>1
    <3> QED BY <1>5, <3>1, <3>2 DEF States
  <2> QED BY <1>3, <2>1
<1>8. CASE cmd.op = "continue" /\ spool_continue(c)
  <2>1. CASE ~Ignore
    <3>1. /\ spool[c].state = "PAUSE"
          /\ spool' = [spool EXCEPT ![c].state = "PLAY"]
          /\ nplaying' = nplaying + 1 /\ status' = status
      BY <1>8, <2>1 DEF spool_continue
    <3>2. nplaying' = nplaying + (IF "PLAY" = "PLAY" THEN 1 ELSE 0)
                               - (IF spool[c].state = "PLAY" THEN 1 ELSE 0)
      BY <1>1, <3>1
    <3> QED BY <1>5, <3>1, <3>2 DEF States
  <2> QED BY <1>3, <2>1
<1>9. CASE cmd.op = "done" /\ spool_done(c)
  <2>1. CASE /\ spool[c].state = "PLAY"
             /\ spool' = [spool EXCEPT ![c].si = "eof"]
             /\ UNCHANGED <<status, nplaying>>
    <3> DEFINE u == [spool[c] EXCEPT !.si = "eof"]
    <3>1. spool' = [spool EXCEPT ![c] = u]
      BY <2>1
    <3>2. /\ u.state = spool[c].state /\ u.auto_pause = spool[c].auto_pause
          /\ u.snd = spool[c].snd /\ u.name = spool[c].name
      BY <1>1, DoneTyped
    <3> HIDE DEF u
    <3>3. /\ Weight(u) = Weight(spool[c]) /\ Weight(u) \in Int
          /\ u.auto_pause => u.state = "SKIP"
      BY <1>2, <3>2 DEF Weight, Audible
    <3>4. nplaying' = nplaying + Weight(u) - Weight(spool[c])
      BY <1>1, <2>1, <3>3
    <3> QED BY <2>1, <3>1, <3>2, <3>3, <3>4, EntryChange
  <2> QED BY <1>3, <1>4, <1>9, <2>1 DEF spool_done, counters
<1>10. CASE cmd.op = "skip" /\ spool_skip(c)
  <2>1. CASE ~Ignore
    <3> DEFINE n == cmd.arg
               b == spool[c].state = "PAUSE"
               u == [spool[c] EXCEPT !.state = "SKIP", !.skip_count = n,
                                     !.auto_pause = b]
    <3>1. /\ spool[c].state \in {"PLAY", "PAUSE"}
          /\ spool' = [spool EXCEPT ![c] = u]
          /\ UNCHANGED <<status, nplaying>>
      BY <1>10, <2>1 DEF spool_skip
    <3>2. n \in Int /\ b \in BOOLEAN
      BY <1>10 DEF TypeOK, CmdOK
    <3>3. b <=> spool[c].state = "PAUSE"
      OBVIOUS
    <3> HIDE DEF n, b
    <3>4. /\ u.state = "SKIP" /\ u.auto_pause = b
          /\ u.snd = spool[c].snd /\ u.name = spool[c].name
      <4> DEFINE e == spool[c]
      <4>1. e \in Entry /\ u = [e EXCEPT !.state = "SKIP", !.skip_count = n,
                                         !.auto_pause = b]
        BY <1>1 DEF Typed
      <4>2. e = spool[c]
        OBVIOUS
      <4> HIDE DEF e, u
      <4>3. /\ u.state = "SKIP" /\ u.auto_pause = b
            /\ u.snd = e.snd /\ u.name = e.name
        BY <4>1 DEF Entry
      <4> QED BY <4>2, <4>3
    <3> HIDE DEF u
    <3>5. Weight(u) = Weight(spool[c]) /\ Weight(u) \in Int
      BY <3>1, <3>3, <3>4 DEF Weight, Audible
    <3>6. nplaying' = nplaying + Weight(u) - Weight(spool[c])
      BY <1>1, <3>1, <3>5
    <3> QED BY <3>1, <3>4, <3>6, EntryChange
  <2> QED BY <1>3, <2>1
<1>11. CASE cmd.op = "modify" /\ spool_set(c)
  BY <1>11, SetCounts
<1>12. CASE cmd.op = "ready" /\ spool_ready(c)
  <2>1. CASE ~Ignore
    <3>1. /\ spool[c].state = "WAIT" /\ AllReady(status, spool[c].snd)
          /\ spool' = [spool EXCEPT ![c] = Played(spool[c])]
          /\ nplaying' = nplaying + 1
          /\ status' = status
      BY <1>12, <2>1 DEF spool_ready
    <3>2. /\ spool[c].id # 0 /\ spool[c].curr_sound \in 0..(Len(spool[c].snd) - 1)
          /\ ~spool[c].auto_pause
      BY <1>1, <1>2, <3>1 DEF Typed, EntryOK
    <3> DEFINE u == Played(spool[c])
    <3>3. /\ u.state = "PLAY" /\ u.auto_pause = FALSE
          /\ u.snd = spool[c].snd /\ u.name = spool[c].name
      BY <1>1, <3>2, PlayedTyped
    <3>4. spool' = [spool EXCEPT ![c] = u]
      BY <3>1
    <3> HIDE DEF u
    <3>5. Weight(u) = 1 /\ Weight(spool[c]) = 0
      BY <3>1, <3>3 DEF Weight, Audible
    <3>6. nplaying' = nplaying + Weight(u) - Weight(spool[c])
      BY <1>1, <3>1, <3>5
    <3>7. \A f \in Flows : Has(spool[c], f) => status'[f] = "ready"
      BY <3>1 DEF AllReady, Has
    <3> QED BY <3>1, <3>3, <3>4, <3>6, <3>7, EntryChange
  <2> QED BY <1>3, <2>1
<1> QED
  BY <1>6, <1>7, <1>8, <1>9, <1>10, <1>11, <1>12 DEF Apply

(* Flow data: the entry plays from the first data on, and again when it    *)
(* had run dry; in between nothing is counted.                             *)
LEMMA PutCounts == TypeOK /\ TypeOK' /\ PlayInv /\ Put => PlayInv'
<1> SUFFICES ASSUME TypeOK, TypeOK', PlayInv, NEW c \in Cells,
                    spool[c].state # "NULL", IsFlow(spool[c]),
                    \/ PutFirst(c) \/ PutUnmapped(c) \/ PutMore(c) \/ PutCrash(c)
             PROVE  PlayInv'
  BY DEF Put, Live
<1> DEFINE f == Curr(spool[c])
<1>1. /\ Typed(spool[c]) /\ nplaying \in Int /\ spool[c].id # 0
      /\ spool[c].curr_sound \in 0..(Len(spool[c].snd) - 1)
  BY EntryGet DEF TypeOK, Typed, EntryOK
<1>2. f \in Flows /\ Has(spool[c], f)
  <2>1. f \in Sounds
    BY <1>1, CurrTyped
  <2>2. spool[c].curr_sound + 1 \in 1..Len(spool[c].snd)
    BY <1>1 DEF Typed, Entry
  <2> QED BY <2>1, <2>2 DEF IsFlow, Flows, Has, Curr
<1>3. Owns(spool, status, c, f)
  BY <1>2, HeldIff DEF PlayInv, Held, Alive
<1>4. spool[c].auto_pause => spool[c].state = "SKIP"
  BY DEF PlayInv, AutoPauseSkip
<1>5. \A g \in Flows : Has(spool[c], g) => g = f
  <2>1. Len(spool[c].snd) = 1
    BY <1>3 DEF Owns
  <2> QED BY <1>1, <2>1 DEF Has, Curr
<1> DEFINE e == Feed(spool[c])
<1>6. /\ Typed(e) /\ e.state = spool[c].state /\ e.auto_pause = spool[c].auto_pause
      /\ e.snd = spool[c].snd /\ e.name = spool[c].name /\ e.id # 0
      /\ e.curr_sound \in 0..(Len(e.snd) - 1)
  BY <1>1, FeedTyped
<1>7. CASE PutCrash(c)
  BY <1>7, StillCounts DEF PutCrash
<1>8. CASE PutFirst(c)
  <2>1. /\ status[f] = "pending" /\ status' = [status EXCEPT ![f] = "ready"]
        /\ spool' = [spool EXCEPT ![c] = Played(e)]
        /\ nplaying' = nplaying + 1
    BY <1>8 DEF PutFirst
  <2>2. spool[c].state = "WAIT"
    BY <1>3, <2>1 DEF Owns
  <2> HIDE DEF e, f
  <2>3. /\ Played(e).state = "PLAY" /\ Played(e).auto_pause = FALSE
        /\ Played(e).snd = spool[c].snd /\ Played(e).name = spool[c].name
    BY <1>4, <1>6, <2>2, PlayedTyped
  <2>4. Weight(Played(e)) = 1 /\ Weight(spool[c]) = 0
    BY <2>2, <2>3 DEF Weight, Audible
  <2>5. nplaying' = nplaying + Weight(Played(e)) - Weight(spool[c])
    BY <1>1, <2>1, <2>4
  <2>6. \A g \in Flows : status'[g] = IF g = f THEN "ready" ELSE status[g]
    BY <2>1 DEF TypeOK, Flows
  <2>7. /\ \A g \in Flows : status[g] # "none" => status'[g] # "none"
        /\ \A g \in Flows : status'[g] = "pending" => status[g] = "pending"
        /\ \A g \in Flows : Has(spool[c], g) => status'[g] # "pending"
    BY <1>5, <2>6
  <2> QED BY <2>1, <2>3, <2>5, <2>7, EntryChange
<1>9. CASE PutUnmapped(c)
  <2>1. Remove(c) /\ spool[c].state = "WAIT"
    BY <1>3, <1>9 DEF PutUnmapped, Owns
  <2> QED BY <2>1, RemoveCounts DEF Stoppable
<1>10. CASE PutMore(c)
  <2> DEFINE st == IF e.state = "WAIT" THEN "PLAY" ELSE e.state
             u == [e EXCEPT !.state = st]
  <2>1. spool' = [spool EXCEPT ![c] = u]
    BY <1>10, Zenon DEF PutMore
  <2>2. /\ nplaying' = IF spool[c].state = "WAIT" THEN nplaying + 1 ELSE nplaying
        /\ status[f] = "ready" /\ status' = status
    BY <1>10 DEF PutMore
  <2> HIDE DEF e, f
  <2>3. st \in States
    BY <1>6 DEF Typed, Entry, States
  <2>4. st = IF spool[c].state = "WAIT" THEN "PLAY" ELSE spool[c].state
    BY <1>6
  <2> HIDE DEF st
  <2>5. /\ u.state = st /\ u.auto_pause = spool[c].auto_pause
        /\ u.snd = spool[c].snd /\ u.name = spool[c].name
    BY <1>6, <2>3, StateTyped
  <2> HIDE DEF u
  <2>6. /\ Weight(spool[c]) \in Int
        /\ Weight(u) = IF spool[c].state = "WAIT" THEN 1 ELSE Weight(spool[c])
        /\ spool[c].state = "WAIT" => Weight(spool[c]) = 0
    BY <2>4, <2>5 DEF Weight, Audible
  <2>7. nplaying' = nplaying + Weight(u) - Weight(spool[c])
    BY <1>1, <2>2, <2>6
  <2>8. u.auto_pause => u.state = "SKIP"
    BY <1>4, <2>4, <2>5
  <2>9. \A g \in Flows : Has(spool[c], g) => status'[g] # "pending"
    BY <1>5, <2>2
  <2> QED BY <2>1, <2>2, <2>5, <2>7, <2>8, <2>9, EntryChange
<1> QED BY <1>7, <1>8, <1>9, <1>10

(* The flows of a request after its sounds have been looked up: they were  *)
(* nobody's, and now they are pending.  Those of other entries stay.       *)
LEMMA LookedUpFlows ==
    ASSUME TypeOK, Held(spool, status), NEW rq \in Requests, FreshFlows(rq),
           NEW c \in Cells, NEW old,
           (old = spool[c] /\ spool[c].state # "NULL") \/ old = NullEntry
    PROVE  LET st == AfterLookup(rq, old) IN
           /\ \A d \in Alive(spool) \ {c}, f \in Flows :
                 Has(spool[d], f) => st[f] = status[f] /\ ~Has(rq, f)
           /\ \A f \in Flows : Has(rq, f) =>
                 st[f] = "pending" /\ Len(rq.snd) = 1 /\ rq.name = NoName
<1> DEFINE st == AfterLookup(rq, old)
<1>1. \A f \in Flows : Has(old, f) => old = spool[c] /\ spool[c].state # "NULL"
  BY DEF Has, NullEntry
<1>2. \A f \in Flows : Has(rq, f) => /\ status[f] = "none" /\ Len(rq.snd) = 1
                                     /\ rq.name = NoName /\ rq.snd[1] = f
  BY FlowAssumption, RequestAssumption DEF FreshFlows, Has
<1>3. \A d \in Alive(spool), f \in Flows : Has(spool[d], f) => status[f] # "none"
  BY DEF Held, Owns
<1>4. \A f \in Flows : f \in Sounds
  BY DEF Flows
<1>5. ASSUME NEW d \in Alive(spool) \ {c}, NEW f \in Flows, Has(spool[d], f)
      PROVE  st[f] = status[f] /\ ~Has(rq, f)
  <2>1. ~Has(old, f)
    BY <1>1, <1>5 DEF Held, Alive
  <2>2. LookedUp(rq.snd)[f] = status[f]
    BY <1>3, <1>4, <1>5 DEF LookedUp
  <2> QED BY <1>2, <1>3, <1>4, <1>5, <2>1, <2>2 DEF AfterLookup, Cleaned
<1>6. ASSUME NEW f \in Flows, Has(rq, f)
      PROVE  st[f] = "pending"
  <2>1. ~Has(old, f)
    BY <1>1, <1>2, <1>3, <1>6 DEF Alive
  <2>2. ~Missing(f)
    BY FilesFlows DEF Missing
  <2>3. 1 \in 1..Len(rq.snd) /\ rq.snd[1] = f /\ \A j \in 1..1 : ~Missing(rq.snd[j])
    BY <1>2, <1>6, <2>2
  <2>4. LookedUp(rq.snd)[f] = "pending"
    BY <1>2, <1>4, <1>6, <2>3 DEF LookedUp
  <2> QED BY <1>4, <2>1, <2>4 DEF AfterLookup, Cleaned
<1> HIDE DEF st
<1> QED BY <1>2, <1>5, <1>6 DEF st

(* The new entry of a request, or none, in the place of an unused cell or  *)
(* of a playing entry.                                                     *)
LEMMA EnterCounts ==
    ASSUME TypeOK, TypeOK', PlayInv, NEW rq \in Requests, FreshFlows(rq),
           NEW c \in Cells, NEW old, NEW ord, NEW rest,
           \/ old = spool[c] /\ spool[c].state = "PLAY"
           \/ old = NullEntry /\ spool[c].state = "NULL",
           Enter(rq, c, old, ord, rest)
    PROVE  PlayInv'
<1> DEFINE st == AfterLookup(rq, old)
<1>1. PICK i \in NewIds(Gone(c)) :
        /\ EnterWait(rq, c, old, i) \/ EnterPlay(rq, c, old, i)
           \/ EnterFail(rq, c, old, i)
        /\ status' = st
  BY DEF Enter
<1>2. i \in Ids /\ nplaying \in Int
  BY DEF NewIds, TypeOK
<1> DEFINE e == NewEntry(rq, i)
<1>3. /\ Typed(e) /\ e.id # 0 /\ e.curr_sound \in 0..(Len(e.snd) - 1)
      /\ e.auto_pause = FALSE /\ e.snd = rq.snd /\ e.name = rq.name
  BY <1>2, NewEntryTyped
<1>4. Evicted(old) = nplaying - Weight(spool[c])
  BY <1>2, NullTyped DEF Evicted, Weight, Audible
<1>5. /\ \A d \in Alive(spool) \ {c}, f \in Flows :
            Has(spool[d], f) => st[f] = status[f] /\ ~Has(rq, f)
      /\ \A f \in Flows : Has(rq, f) =>
            st[f] = "pending" /\ Len(rq.snd) = 1 /\ rq.name = NoName
  BY HeldIff, LookedUpFlows DEF PlayInv
<1> HIDE DEF e, st
<1>6. PICK u : /\ spool' = [spool EXCEPT ![c] = u]
               /\ nplaying' = Evicted(old) + Weight(u)
               /\ u.auto_pause = FALSE
               /\ \/ u.state = "NULL"
                  \/ u.snd = rq.snd /\ u.name = rq.name /\ u.state = "WAIT"
                  \/ u.snd = rq.snd /\ u.name = rq.name /\ AllReady(st, rq.snd)
  <2>1. CASE EnterWait(rq, c, old, i)
    <3> DEFINE u == [e EXCEPT !.state = "WAIT"]
    <3>1. spool' = [spool EXCEPT ![c] = u] /\ nplaying' = Evicted(old)
      BY <2>1 DEF EnterWait, e
    <3>2. /\ u.state = "WAIT" /\ u.snd = rq.snd /\ u.name = rq.name
          /\ u.auto_pause = FALSE
      BY <1>3 DEF Typed, Entry
    <3> HIDE DEF u
    <3>3. Weight(u) = 0 /\ Weight(spool[c]) \in Int
      BY <3>2 DEF Weight, Audible
    <3>4. nplaying' = Evicted(old) + Weight(u)
      BY <1>2, <1>4, <3>1, <3>3
    <3> QED BY <3>1, <3>2, <3>4
  <2>2. CASE EnterPlay(rq, c, old, i)
    <3> DEFINE u == Played(e)
    <3>1. /\ spool' = [spool EXCEPT ![c] = u] /\ nplaying' = Evicted(old) + 1
          /\ AllReady(st, rq.snd)
      BY <2>2 DEF EnterPlay, e, st
    <3>2. /\ u.state = "PLAY" /\ u.snd = rq.snd /\ u.name = rq.name
          /\ u.auto_pause = FALSE
      BY <1>3, PlayedTyped
    <3> HIDE DEF u
    <3>3. Weight(u) = 1
      BY <3>2 DEF Weight, Audible
    <3> QED BY <3>1, <3>2, <3>3
  <2>3. CASE EnterFail(rq, c, old, i)
    <3>1. spool' = [spool EXCEPT ![c] = NullEntry] /\ nplaying' = Evicted(old)
      BY <2>3 DEF EnterFail, Gone
    <3>2. Weight(NullEntry) = 0 /\ Weight(spool[c]) \in Int
      BY NullTyped DEF Weight, Audible
    <3>3. nplaying' = Evicted(old) + Weight(NullEntry)
      BY <1>2, <1>4, <3>1, <3>2
    <3> QED BY <3>1, <3>3, NullTyped
  <2> QED BY <1>1, <2>1, <2>2, <2>3
<1>7. NplayingCounts'
  <2>1. Weight(u) \in Int /\ Weight(spool[c]) \in Int
    BY DEF Weight
  <2>2. nplaying' = nplaying + Weight(u) - Weight(spool[c])
    BY <1>2, <1>4, <1>6, <2>1
  <2> QED BY <1>6, <2>2, CountChange DEF PlayInv
<1>8. /\ spool'[c] = u
      /\ \A d \in Cells \ {c} : spool'[d] = spool[d]
  BY <1>6 DEF TypeOK
<1>9. AutoPauseSkip'
  BY <1>6, <1>8 DEF PlayInv, AutoPauseSkip
<1>10. Held(spool, status)
  BY HeldIff DEF PlayInv
<1>11. ASSUME NEW d \in Alive(spool'), d # c
       PROVE  d \in Alive(spool) \ {c} /\ spool'[d] = spool[d]
  BY <1>8, <1>11 DEF Alive
<1>12. \A f \in Flows : c \in Alive(spool') /\ Has(spool'[c], f) =>
         /\ Has(rq, f) /\ u.snd = rq.snd /\ u.name = rq.name
         /\ status'[f] = "pending" /\ u.state = "WAIT"
  <2> SUFFICES ASSUME NEW f \in Flows, c \in Alive(spool'), Has(spool'[c], f)
               PROVE  /\ Has(rq, f) /\ u.snd = rq.snd /\ u.name = rq.name
                      /\ status'[f] = "pending" /\ u.state = "WAIT"
    OBVIOUS
  <2>1. u.state # "NULL" /\ Has(u, f)
    BY <1>8 DEF Alive
  <2>2. Has(rq, f) /\ u.snd = rq.snd /\ u.name = rq.name
    BY <1>6, <2>1 DEF Has
  <2>3. st[f] = "pending"
    BY <1>5, <2>2
  <2>4. ~AllReady(st, rq.snd)
    BY <2>2, <2>3 DEF AllReady, Has
  <2> QED BY <1>1, <1>6, <2>1, <2>2, <2>3, <2>4
<1>13. ASSUME NEW d \in Alive(spool'), NEW f \in Flows, Has(spool'[d], f)
       PROVE  Owns(spool', status', d, f)
  <2>1. CASE d = c
    BY <1>5, <1>8, <1>12, <1>13, <2>1 DEF Owns
  <2>2. CASE d # c
    <3>1. d \in Alive(spool) \ {c} /\ spool'[d] = spool[d]
      BY <1>11, <2>2
    <3>2. Owns(spool, status, d, f) /\ status'[f] = status[f]
      BY <1>1, <1>5, <1>10, <1>13, <3>1 DEF Held
    <3> QED BY <3>1, <3>2 DEF Owns
  <2> QED BY <2>1, <2>2
<1>14. ASSUME NEW d \in Alive(spool'), NEW f \in Flows, Has(spool'[d], f),
              NEW x \in Alive(spool'), Has(spool'[x], f)
       PROVE  x = d
  <2>1. CASE d # c /\ x # c
    BY <1>10, <1>11, <1>14, <2>1 DEF Held
  <2>2. CASE d = c /\ x # c
    <3>1. Has(rq, f) /\ x \in Alive(spool) \ {c} /\ Has(spool[x], f)
      BY <1>11, <1>12, <1>14, <2>2
    <3> QED BY <1>5, <3>1
  <2>3. CASE d # c /\ x = c
    <3>1. Has(rq, f) /\ d \in Alive(spool) \ {c} /\ Has(spool[d], f)
      BY <1>11, <1>12, <1>14, <2>3
    <3> QED BY <1>5, <3>1
  <2> QED BY <2>1, <2>2, <2>3
<1>15. FlowsHeld'
  BY <1>13, <1>14, HeldIffPrime DEF Held
<1> QED BY <1>7, <1>9, <1>15 DEF PlayInv

(* What is in neither of two sequences is not in both in a row.            *)
LEMMA ConcatElement ==
    ASSUME NEW S, NEW a \in Seq(S), NEW b \in Seq(S), NEW f,
           \A i \in 1..Len(a) : a[i] # f,
           \A i \in 1..Len(b) : b[i] # f
    PROVE  \A i \in 1..Len(a \o b) : (a \o b)[i] # f
<1> TAKE i \in 1..Len(a \o b)
<1>1. /\ Len(a) \in Nat /\ Len(b) \in Nat /\ Len(a \o b) = Len(a) + Len(b)
  OBVIOUS
<1>2. i \in 1..(Len(a) + Len(b))
  BY <1>1
<1>3. (a \o b)[i] = IF i <= Len(a) THEN a[i] ELSE b[i - Len(a)]
  BY <1>2, ConcatProperties
<1>4. CASE i <= Len(a)
  BY <1>1, <1>2, <1>3, <1>4
<1>5. CASE i > Len(a)
  <2>1. i - Len(a) \in 1..Len(b)
    BY <1>1, <1>2, <1>5
  <2> QED BY <1>1, <1>2, <1>3, <1>5, <2>1
<1> QED BY <1>1, <1>2, <1>4, <1>5

(* A list that sounds are added to holds no flow, and gets none.           *)
LEMMA MergeCounts ==
    ASSUME TypeOK, TypeOK', PlayInv, NEW rq \in Requests, FreshFlows(rq), PlayMerge(rq)
    PROVE  PlayInv'
<1>1. PICK c \in Cells :
        /\ spool[c].state # "NULL" /\ spool[c].name = rq.name /\ rq.name # NoName
        /\ spool' = [spool EXCEPT ![c].snd = @ \o rq.snd,
                                  ![c].count = @ \o rq.count]
        /\ status' = LookedUp(rq.snd)
        /\ nplaying' = nplaying
  BY DEF PlayMerge, Named, Live, counters
<1> DEFINE d == spool[c]
           sn == d.snd \o rq.snd
           co == d.count \o rq.count
           u == [d EXCEPT !.snd = sn, !.count = co]
<1>2. spool' = [spool EXCEPT ![c] = u]
  BY <1>1
<1>3. d \in Entry /\ rq.snd \in Seq(Sounds)
  BY EntryGet, RequestAssumption DEF Typed
<1>4. Held(spool, status)
  BY HeldIff DEF PlayInv
<1>5. \A f \in Flows : ~Has(d, f)
  BY <1>1, <1>4 DEF Held, Alive, Owns
<1>6. \A f \in Flows : ~Has(rq, f)
  BY <1>1, FlowAssumption DEF Has
<1>7. d = spool[c]
  OBVIOUS
<1> HIDE DEF d
<1>8. \A f \in Flows : \A i \in 1..Len(sn) : sn[i] # f
  <2> TAKE f \in Flows
  <2> DEFINE a == d.snd
             b == rq.snd
  <2>1. a \in Seq(Sounds) /\ b \in Seq(Sounds)
    BY <1>3 DEF Entry
  <2>2. /\ \A i \in 1..Len(a) : a[i] # f
        /\ \A i \in 1..Len(b) : b[i] # f
    BY <1>5, <1>6 DEF Has
  <2> HIDE DEF a, b
  <2>3. \A i \in 1..Len(a \o b) : (a \o b)[i] # f
    BY <2>1, <2>2, ConcatElement
  <2> QED BY <2>3 DEF a, b
<1> HIDE DEF sn, co
<1>9. u.state = d.state /\ u.auto_pause = d.auto_pause /\ u.snd = sn
  BY <1>3 DEF Entry
<1> HIDE DEF u
<1>10. /\ spool'[c] = u
       /\ \A x \in Cells \ {c} : spool'[x] = spool[x]
  BY <1>2 DEF TypeOK
<1>11. NplayingCounts'
  <2>1. \A x \in Cells : Audible(spool'[x]) <=> Audible(spool[x])
    BY <1>7, <1>9, <1>10 DEF Audible
  <2> QED BY <1>1, <2>1, CountSame DEF PlayInv
<1>12. AutoPauseSkip'
  BY <1>7, <1>9, <1>10 DEF PlayInv, AutoPauseSkip
<1>13. \A f \in Flows : ~Has(spool'[c], f)
  BY <1>8, <1>9, <1>10 DEF Has
<1>14. \A f \in Flows : status'[f] = status[f]
  <2>1. \A f \in Flows : f \in Sounds
    BY DEF Flows
  <2> QED BY <1>1, <1>6, <2>1 DEF LookedUp, Has
<1>15. ASSUME NEW x \in Alive(spool'), NEW f \in Flows, Has(spool'[x], f)
       PROVE  x \in Alive(spool) /\ spool'[x] = spool[x] /\ Has(spool[x], f)
  BY <1>10, <1>13, <1>15 DEF Alive
<1>16. Held(spool', status')
  BY <1>4, <1>14, <1>15 DEF Held, Owns
<1>17. FlowsHeld'
  BY <1>16, HeldIffPrime
<1> QED BY <1>11, <1>12, <1>17 DEF PlayInv

(* Every outcome of rplayd_play.                                           *)
LEMMA PlayCounts == TypeOK /\ TypeOK' /\ PlayInv /\ Play => PlayInv'
<1> SUFFICES ASSUME TypeOK, TypeOK', PlayInv, NEW rq \in Requests, FreshFlows(rq),
                    \/ PlayMerge(rq) \/ PlayMergeCrash(rq)
                    \/ PlayNew(rq) \/ PlayReplace(rq)
             PROVE  PlayInv'
  BY DEF Play
<1>1. CASE PlayMerge(rq)
  BY <1>1, MergeCounts
<1>2. CASE PlayMergeCrash(rq)
  BY <1>2, StillCounts DEF PlayMergeCrash
<1>3. CASE PlayNew(rq)
  <2>1. PICK c \in Cells : /\ spool[c].state = "NULL"
                           /\ Enter(rq, c, NullEntry, <<c>> \o order, order)
    BY <1>3 DEF PlayNew, Live
  <2> QED BY <2>1, EnterCounts
<1>4. CASE PlayReplace(rq)
  <2>1. PICK k \in 1..Len(order), c \in Cells :
          spool[c].state = "PLAY" /\ Enter(rq, c, spool[c], order, Without(k))
    BY <1>4 DEF PlayReplace, Lowest
  <2> QED BY <2>1, EnterCounts
<1> QED BY <1>1, <1>2, <1>3, <1>4

(* Every step keeps the counter, the flows and auto_pause in order.        *)
LEMMA NextCounts == TypeOK /\ TypeOK' /\ PlayInv /\ [Next]_vars => PlayInv'
<1> SUFFICES ASSUME TypeOK, TypeOK', PlayInv, [Next]_vars PROVE PlayInv'
  OBVIOUS
<1>1. CASE Loop
  <2>1. PICK c \in Cells : Apply(c) \/ ReadyCrash(c) \/ Ignore
    BY <1>1 DEF Loop
  <2> QED BY <2>1, ApplyCounts, StillCounts DEF ReadyCrash
<1> QED
  BY <1>1, StillCounts, UpdateCounts, TickCounts, PlayCounts, PutCounts, ResetCounts
  DEF Next, MainLoop, Client

(* spool_nplaying is the number of playing entries, for every number of    *)
(* entries and whatever clients, servers and the timer do.  doit may rely  *)
(* on it: the timer runs as long as a sound plays and no longer.           *)
THEOREM CountsCorrect == Spec => []NplayingCounts
<1>1. Init => TypeOK /\ PlayInv
  BY InitTyped, InitCounts
<1>2. TypeOK /\ PlayInv /\ [Next]_vars => (TypeOK /\ PlayInv)'
  BY NextTypes, NextCounts
<1>3. PlayInv => NplayingCounts
  BY DEF PlayInv
<1> QED BY <1>1, <1>2, <1>3, PTL DEF Spec

(* A flow belongs to one entry from its request to its end, and the entry  *)
(* waits until the first data has come.                                    *)
THEOREM FlowsCorrect == Spec => []FlowsHeld
<1>1. Init => TypeOK /\ PlayInv
  BY InitTyped, InitCounts
<1>2. TypeOK /\ PlayInv /\ [Next]_vars => (TypeOK /\ PlayInv)'
  BY NextTypes, NextCounts
<1>3. PlayInv => FlowsHeld
  BY DEF PlayInv
<1> QED BY <1>1, <1>2, <1>3, PTL DEF Spec

-----------------------------------------------------------------------------
(* What the notify clients are told.  Every step of the daemon does one of *)
(* four things to the entries, or is a reset.                              *)

(* An entry that a `play' event has been sent for.                         *)
Told(e) == e.state # "NULL" /\ (e.state # "WAIT" \/ e.si # "null")

(* What an entry contributes to spool_npaused.                             *)
Pauses(e) == IF e.state = "PAUSE" THEN 1 ELSE 0

(* A paused entry that is being skipped stays silent.                      *)
PauseKept(d, e) ==
    d.state = "SKIP" /\ d.auto_pause => e.state \in {"SKIP", "PAUSE", "NULL"}

(* An entry goes on, perhaps with a `play' event.                          *)
GoesOn(c, e) ==
    /\ spool' = [spool EXCEPT ![c] = e]
    /\ spool[c].state # "NULL" /\ e.state # "NULL" /\ e.id = spool[c].id
    /\ PauseKept(spool[c], e)
    /\ npaused' = npaused + Pauses(e) - Pauses(spool[c])
    /\ Told(spool[c]) => Told(e)
    /\ \/ known' = known /\ (Told(e) => Told(spool[c]))
       \/ known' = known \cup {e.id} /\ Told(e)

(* An entry leaves with a `done' event.                                    *)
Leaves(c) ==
    /\ spool' = [spool EXCEPT ![c] = NullEntry] /\ spool[c].state # "NULL"
    /\ npaused' = npaused - Pauses(spool[c])
    /\ known' = known \ {spool[c].id}

(* A request gets an unused cell or one of a playing entry, and an id that *)
(* no other entry has; or it fails.                                        *)
Enters(c, e) ==
    /\ spool' = [spool EXCEPT ![c] = e] /\ spool[c].state \in {"NULL", "PLAY"}
    /\ e.state # "PAUSE" /\ npaused' = npaused
    /\ e.state # "NULL" => e.id \notin Used(Gone(c))
    /\ known' = (IF spool[c].state = "NULL" THEN known ELSE known \ {spool[c].id})
                \cup (IF Told(e) THEN {e.id} ELSE {})

(* No event, and nothing an event would have to tell.                      *)
Stays ==
    /\ npaused' = npaused /\ known' = known
    /\ \A c \in Cells :
        /\ spool'[c].id = spool[c].id /\ Told(spool'[c]) = Told(spool[c])
        /\ spool'[c].state = "NULL" <=> spool[c].state = "NULL"
        /\ spool'[c].state = "PAUSE" <=> spool[c].state = "PAUSE"
        /\ spool[c].state = "SKIP" => spool'[c].state = "SKIP"

(* What a step of the daemon other than a reset is.                        *)
Tells ==
    \/ \E c \in Cells : \E e : GoesOn(c, e) \/ Enters(c, e)
    \/ \E c \in Cells : Leaves(c)
    \/ Stays

(* Nothing happens to the spool.                                           *)
LEMMA StaysStill ==
    ASSUME UNCHANGED <<spool, npaused, known>>
    PROVE  Stays
BY DEF Stays

(* The handler.                                                            *)
LEMMA TickStays == ASSUME TypeOK, Tick PROVE Stays
<1>1. \A c \in Cells : spool'[c] = TickEntry(spool[c])
  BY DEF Tick
<1>2. \A c \in Cells :
        /\ spool[c].state # "PLAY" => spool'[c] = spool[c]
        /\ spool[c].state = "PLAY" => spool'[c].state \in {"PLAY", "NEXT"}
        /\ spool'[c].id = spool[c].id /\ spool'[c].si = spool[c].si
  BY <1>1, EntryGet, TickTyped
<1>3. npaused' = npaused /\ known' = known
  BY DEF Tick, counters
<1>4. \A c \in Cells : Told(spool'[c]) = Told(spool[c])
  BY <1>2 DEF Told
<1> QED BY <1>2, <1>3, <1>4 DEF Stays

(* Steps that leave the entries alone.                                     *)
LEMMA StillStays ==
    ASSUME \/ Top \/ Wake \/ Command \/ Crash \/ Ignore \/ UNCHANGED vars
           \/ \E s \in Sounds : SoundFound(s) \/ SoundLost(s)
    PROVE  Stays
<1>1. UNCHANGED <<spool, npaused, known>>
  BY DEF Top, Wake, Command, Crash, Ignore, SoundFound, SoundLost, Walk, counters, vars
<1> QED BY <1>1, StaysStill

(* spool_update: the next sound is announced, and so is the end of a list. *)
LEMMA UpdateTells ==
    ASSUME TypeOK, PlayInv, Update
    PROVE  Tells
<1> SUFFICES ASSUME NEW c \in Cells,
                    \/ UpdateFinish(c) \/ UpdateNext(c) \/ UpdateCrash(c)
                    \/ UpdateFill(c) \/ UpdatePass(c)
             PROVE  Tells
  BY DEF Update
<1>1. Typed(spool[c]) /\ npaused \in Int
  BY EntryGet DEF TypeOK
<1>2. PICK e : e = Ended(spool[c])
  OBVIOUS
<1>3. /\ Typed(e) /\ e.id = spool[c].id /\ e.si = spool[c].si
      /\ e.auto_pause = spool[c].auto_pause /\ e.curr_buffer = spool[c].curr_buffer
      /\ spool[c].state # "PLAY" => e = spool[c]
      /\ spool[c].state = "PLAY" => e.state \in {"PLAY", "NEXT"}
      /\ e.state = "PLAY" => spool[c].curr_buffer # 0 \/ spool[c].si # "null"
  BY <1>1, <1>2, EndedTyped
<1>4. CASE UpdateFinish(c)
  <2>1. /\ e.state \in {"NEXT", "SKIP"} /\ spool' = [spool EXCEPT ![c] = NullEntry]
        /\ known' = known \ {e.id} /\ npaused' = npaused
    BY <1>2, <1>4 DEF UpdateFinish, Destroy
  <2>2. Pauses(spool[c]) = 0 /\ spool[c].state # "NULL"
    BY <1>3, <2>1 DEF Pauses
  <2>3. npaused' = npaused - Pauses(spool[c])
    BY <1>1, <2>1, <2>2
  <2> QED BY <1>3, <2>1, <2>2, <2>3 DEF Leaves, Tells
<1>5. CASE UpdateNext(c)
  <2>1. PICK a : a = Advanced(Turned(e))
    OBVIOUS
  <2>2. PICK p : p = Played(a)
    OBVIOUS
  <2>3. PICK f : f = Filled(p)
    OBVIOUS
  <2>4. /\ e.state \in {"NEXT", "SKIP"} /\ ~PastListEnd(Turned(e))
        /\ spool' = [spool EXCEPT ![c] = f]
        /\ npaused' = IF a.auto_pause THEN npaused + 1 ELSE npaused
        /\ known' = known \cup {e.id}
    BY <1>2, <1>5, <2>1, <2>2, <2>3 DEF UpdateNext
  <2>5. /\ Typed(a) /\ a.curr_sound \in 0..(Len(a.snd) - 1) /\ a.id # 0
        /\ a.auto_pause = e.auto_pause /\ a.id = e.id
    BY <1>3, <2>1, <2>4, NextTyped
  <2>6. /\ Typed(p) /\ p.state = IF e.auto_pause THEN "PAUSE" ELSE "PLAY"
        /\ p.id = e.id /\ p.si = "open"
    BY <2>2, <2>5, PlayedTyped
  <2>7. p.state \in {"PAUSE", "PLAY"} /\ (RunsDry(p) => p.state = "PLAY")
    BY <2>6 DEF RunsDry
  <2>8. /\ f.state = IF RunsDry(p) THEN "WAIT" ELSE p.state
        /\ f.id = e.id /\ (RunsDry(p) => f.si = "open")
    BY <2>3, <2>6, <2>7, FilledTyped
  <2>9. Told(f) /\ f.state # "NULL" /\ f.state \in {"WAIT", "PAUSE", "PLAY"}
    BY <2>7, <2>8 DEF Told
  <2>10. (f.state = "PAUSE") <=> a.auto_pause
    BY <2>5, <2>6, <2>7, <2>8
  <2>11. spool[c].state \in {"PLAY", "NEXT", "SKIP"} /\ Pauses(spool[c]) = 0
    BY <1>3, <2>4 DEF Pauses
  <2>12. npaused' = npaused + Pauses(f) - Pauses(spool[c])
    BY <1>1, <2>4, <2>10, <2>11 DEF Pauses
  <2>13. PauseKept(spool[c], f)
    BY <1>3, <2>5, <2>10 DEF PauseKept
  <2>14. GoesOn(c, f)
    BY <1>3, <2>4, <2>8, <2>9, <2>11, <2>12, <2>13 DEF GoesOn
  <2> QED BY <2>14 DEF Tells
<1>6. CASE UpdateCrash(c)
  BY <1>6, StillStays DEF UpdateCrash, Tells
<1>7. CASE UpdateFill(c)
  <2>1. PICK f : f = Filled(e)
    OBVIOUS
  <2>2. /\ e.state = "PLAY" /\ spool' = [spool EXCEPT ![c] = f]
        /\ npaused' = npaused /\ known' = known
    BY <1>2, <1>7, <2>1 DEF UpdateFill
  <2>3. /\ f.state = IF RunsDry(e) THEN "WAIT" ELSE "PLAY"
        /\ f.id = e.id /\ (RunsDry(e) => f.si = e.si)
    BY <1>3, <2>1, <2>2, FilledTyped
  <2>4. RunsDry(e) => e.si # "null"
    BY <1>3, <2>2 DEF RunsDry, Drained
  <2>5. Told(f) /\ f.state \in {"WAIT", "PLAY"}
    BY <2>3, <2>4 DEF Told
  <2>6. spool[c].state = "PLAY" /\ Told(spool[c])
    BY <1>3, <2>2 DEF Told
  <2>7. npaused' = npaused + Pauses(f) - Pauses(spool[c])
    BY <1>1, <2>2, <2>5, <2>6 DEF Pauses
  <2>8. GoesOn(c, f)
    BY <1>3, <2>2, <2>3, <2>5, <2>6, <2>7 DEF GoesOn, PauseKept
  <2> QED BY <2>8 DEF Tells
<1>8. CASE UpdatePass(c)
  BY <1>8, StaysStill DEF UpdatePass, counters, Tells
<1> QED BY <1>4, <1>5, <1>6, <1>7, <1>8

(* Taking an entry away.                                                   *)
LEMMA RemoveTells ==
    ASSUME TypeOK, NEW c \in Cells, Remove(c), spool[c].state \in Stoppable
    PROVE  Tells
<1>1. /\ spool' = [spool EXCEPT ![c] = NullEntry] /\ known' = known \ {spool[c].id}
      /\ npaused' = IF spool[c].state = "PAUSE" THEN npaused - 1 ELSE npaused
  BY DEF Remove, Destroy
<1>2. spool[c].state # "NULL" /\ npaused' = npaused - Pauses(spool[c])
  BY <1>1 DEF TypeOK, Stoppable, Pauses
<1> QED BY <1>1, <1>2 DEF Leaves, Tells

(* An entry that changes without an event.                                 *)
LEMMA SilentlyOn ==
    ASSUME TypeOK, NEW c \in Cells, NEW e, spool' = [spool EXCEPT ![c] = e],
           spool[c].state # "NULL", e.state # "NULL", e.id = spool[c].id, e.si = spool[c].si,
           spool[c].state = "SKIP" => e.state = "SKIP",
           Told(e) <=> Told(spool[c]), known' = known,
           npaused' = npaused + Pauses(e) - Pauses(spool[c])
    PROVE  Tells
BY DEF GoesOn, PauseKept, Tells

(* The modify command changes nothing that is told.                        *)
LEMMA SetTells ==
    ASSUME TypeOK, NEW c \in Cells, cmd.op = "modify" /\ spool_set(c)
    PROVE  Tells
<1>1. Typed(spool[c])
  BY EntryGet
<1>2. PICK v : v = cmd.arg[2]
  OBVIOUS
<1>3. v \in Nat
  BY <1>2 DEF TypeOK, CmdOK
<1>4. UNCHANGED <<npaused, known>>
  BY DEF spool_set, counters
<1>5. PICK u : /\ spool' = [spool EXCEPT ![c] = u]
               /\ u.state = spool[c].state /\ u.id = spool[c].id /\ u.si = spool[c].si
  <2>1. CASE spool' = [spool EXCEPT ![c].curr_count = v,
                                    ![c].count[spool[c].curr_sound + 1] = v]
    <3>1. PICK u : u = [spool[c] EXCEPT !.curr_count = v, !.count[spool[c].curr_sound + 1] = v]
      OBVIOUS
    <3>2. u.state = spool[c].state /\ u.id = spool[c].id /\ u.si = spool[c].si
      BY <1>1, <1>3, <3>1, SetCountTyped
    <3> QED BY <2>1, <3>1, <3>2
  <2>2. CASE spool' = [spool EXCEPT ![c].list_count = v]
    <3>1. PICK u : u = [spool[c] EXCEPT !.list_count = v]
      OBVIOUS
    <3>2. u.state = spool[c].state /\ u.id = spool[c].id /\ u.si = spool[c].si
      BY <1>1, <1>3, <3>1, SetTyped
    <3> QED BY <2>2, <3>1, <3>2
  <2>3. CASE spool' = [spool EXCEPT ![c].priority = v]
    <3>1. PICK u : u = [spool[c] EXCEPT !.priority = v]
      OBVIOUS
    <3>2. u.state = spool[c].state /\ u.id = spool[c].id /\ u.si = spool[c].si
      BY <1>1, <1>3, <3>1, SetTyped
    <3> QED BY <2>3, <3>1, <3>2
  <2> QED BY <1>2, <2>1, <2>2, <2>3 DEF spool_set
<1>6. \A d \in Cells : /\ spool'[d].state = spool[d].state /\ spool'[d].id = spool[d].id
                       /\ spool'[d].si = spool[d].si
  BY <1>5 DEF TypeOK
<1> QED BY <1>4, <1>6 DEF Stays, Told, Tells

(* A waiting entry is played and announced.                                *)
LEMMA PlayTells ==
    ASSUME TypeOK, NEW c \in Cells, NEW e, Typed(e), e.id # 0, e.id = spool[c].id,
           e.curr_sound \in 0..(Len(e.snd) - 1), ~e.auto_pause,
           spool[c].state = "WAIT", spool' = [spool EXCEPT ![c] = Played(e)],
           npaused' = npaused, known' = known \cup {spool[c].id}
    PROVE  Tells
<1>1. PICK u : u = Played(e)
  OBVIOUS
<1>2. u.state = "PLAY" /\ u.id = spool[c].id
  BY <1>1, PlayedTyped
<1>3. Told(u) /\ Pauses(u) = 0 /\ Pauses(spool[c]) = 0 /\ npaused \in Int
  BY <1>2 DEF Told, Pauses, TypeOK
<1>4. npaused' = npaused + Pauses(u) - Pauses(spool[c])
  BY <1>3
<1>5. GoesOn(c, u)
  BY <1>1, <1>2, <1>3, <1>4 DEF GoesOn, PauseKept
<1> QED BY <1>5 DEF Tells

(* A step of a command's walk.                                             *)
LEMMA ApplyTells ==
    ASSUME TypeOK, PlayInv, NEW c \in Cells, Apply(c)
    PROVE  Tells
<1>1. Typed(spool[c]) /\ npaused \in Int
  BY EntryGet DEF TypeOK
<1>2. spool[c].auto_pause => spool[c].state = "SKIP"
  BY DEF PlayInv, AutoPauseSkip
<1>3. CASE Ignore
  BY <1>3, StillStays DEF Tells
<1>4. CASE Remove(c) /\ spool[c].state \in Stoppable
  BY <1>4, RemoveTells
<1>5. ASSUME NEW st \in {"PLAY", "PAUSE"}, spool[c].state \in {"PLAY", "PAUSE"},
             spool' = [spool EXCEPT ![c].state = st],
             npaused' = npaused + (IF st = "PAUSE" THEN 1 ELSE 0)
                                - (IF spool[c].state = "PAUSE" THEN 1 ELSE 0),
             known' = known
      PROVE  Tells
  <2>1. PICK u : u = [spool[c] EXCEPT !.state = st]
    OBVIOUS
  <2>2. spool' = [spool EXCEPT ![c] = u]
    BY <1>5, <2>1
  <2>3. u.state = st /\ u.id = spool[c].id /\ u.si = spool[c].si
    <3>1. st \in States
      BY DEF States
    <3> QED BY <1>1, <1>5, <2>1, <3>1, StateTyped
  <2>4. Told(u) /\ Told(spool[c])
    BY <1>5, <2>3 DEF Told
  <2>5. npaused' = npaused + Pauses(u) - Pauses(spool[c])
    BY <1>5, <2>3 DEF Pauses
  <2> QED BY <1>5, <2>2, <2>3, <2>4, <2>5, SilentlyOn
<1>6. CASE cmd.op = "stop" /\ spool_stop(c)
  BY <1>3, <1>4, <1>6 DEF spool_stop
<1>7. CASE cmd.op = "pause" /\ spool_pause(c)
  <2>1. CASE ~Ignore
    <3>1. /\ spool[c].state = "PLAY" /\ spool' = [spool EXCEPT ![c].state = "PAUSE"]
          /\ npaused' = npaused + 1 /\ known' = known
      BY <1>7, <2>1 DEF spool_pause
    <3>2. npaused' = npaused + (IF "PAUSE" = "PAUSE" THEN 1 ELSE 0)
                             - (IF spool[c].state = "PAUSE" THEN 1 ELSE 0)
      BY <1>1, <3>1
    <3> QED BY <1>5, <3>1, <3>2
  <2> QED BY <1>3, <2>1
<1>8. CASE cmd.op = "continue" /\ spool_continue(c)
  <2>1. CASE ~Ignore
    <3>1. /\ spool[c].state = "PAUSE" /\ spool' = [spool EXCEPT ![c].state = "PLAY"]
          /\ npaused' = npaused - 1 /\ known' = known
      BY <1>8, <2>1 DEF spool_continue
    <3>2. npaused' = npaused + (IF "PLAY" = "PAUSE" THEN 1 ELSE 0)
                             - (IF spool[c].state = "PAUSE" THEN 1 ELSE 0)
      BY <1>1, <3>1
    <3> QED BY <1>5, <3>1, <3>2
  <2> QED BY <1>3, <2>1
<1>9. CASE cmd.op = "done" /\ spool_done(c)
  <2>1. CASE /\ spool[c].state = "PLAY" /\ spool' = [spool EXCEPT ![c].si = "eof"]
             /\ UNCHANGED <<npaused, known>>
    <3>1. PICK u : u = [spool[c] EXCEPT !.si = "eof"]
      OBVIOUS
    <3>2. spool' = [spool EXCEPT ![c] = u]
      BY <2>1, <3>1
    <3>3. u.state = spool[c].state /\ u.id = spool[c].id
      BY <1>1, <3>1, DoneTyped
    <3>4. Told(u) /\ Told(spool[c]) /\ Pauses(u) = 0 /\ Pauses(spool[c]) = 0
      BY <2>1, <3>3 DEF Told, Pauses
    <3>5. npaused' = npaused + Pauses(u) - Pauses(spool[c])
      BY <1>1, <2>1, <3>4
    <3>6. GoesOn(c, u)
      BY <2>1, <3>2, <3>3, <3>4, <3>5 DEF GoesOn, PauseKept
    <3> QED BY <3>6 DEF Tells
  <2> QED BY <1>3, <1>4, <1>9, <2>1 DEF spool_done, counters
<1>10. CASE cmd.op = "skip" /\ spool_skip(c)
  <2>1. CASE ~Ignore
    <3>1. PICK n, b : n = cmd.arg /\ b = (spool[c].state = "PAUSE")
      OBVIOUS
    <3>2. PICK u : u = [spool[c] EXCEPT !.state = "SKIP", !.skip_count = n, !.auto_pause = b]
      OBVIOUS
    <3>3. /\ spool[c].state \in {"PLAY", "PAUSE"}
          /\ spool' = [spool EXCEPT ![c] = u]
          /\ npaused' = Unpaused(spool[c]) /\ known' = known
      BY <1>10, <2>1, <3>1, <3>2 DEF spool_skip
    <3>4. n \in Int /\ b \in BOOLEAN
      BY <1>10, <3>1 DEF TypeOK, CmdOK
    <3>5. PICK d : d = spool[c]
      OBVIOUS
    <3>6. DOMAIN u = DOMAIN d /\ u.state = "SKIP" /\ u.id = d.id
      BY <1>1, <3>2, <3>5 DEF Typed, Entry
    <3>7. Told(u) /\ Told(spool[c]) /\ Pauses(u) = 0
      BY <3>3, <3>6 DEF Told, Pauses
    <3>8. npaused' = npaused + Pauses(u) - Pauses(spool[c])
      BY <1>1, <3>3, <3>7 DEF Pauses, Unpaused
    <3>9. GoesOn(c, u)
      BY <3>3, <3>5, <3>6, <3>7, <3>8 DEF GoesOn, PauseKept
    <3> QED BY <3>9 DEF Tells
  <2> QED BY <1>3, <2>1
<1>11. CASE cmd.op = "modify" /\ spool_set(c)
  BY <1>11, SetTells
<1>12. CASE cmd.op = "ready" /\ spool_ready(c)
  <2>1. CASE ~Ignore
    <3>1. /\ spool[c].state = "WAIT" /\ spool' = [spool EXCEPT ![c] = Played(spool[c])]
          /\ npaused' = npaused /\ known' = known \cup {spool[c].id}
      BY <1>12, <2>1 DEF spool_ready
    <3>2. /\ spool[c].id # 0 /\ spool[c].curr_sound \in 0..(Len(spool[c].snd) - 1)
          /\ ~spool[c].auto_pause
      BY <1>1, <1>2, <3>1 DEF Typed, EntryOK
    <3> QED BY <1>1, <3>1, <3>2, PlayTells
  <2> QED BY <1>3, <2>1
<1> QED
  BY <1>6, <1>7, <1>8, <1>9, <1>10, <1>11, <1>12 DEF Apply

(* Flow data: the entry is announced with the first data.                  *)
LEMMA PutTells ==
    ASSUME TypeOK, PlayInv, Put
    PROVE  Tells
<1> SUFFICES ASSUME NEW c \in Cells, spool[c].state # "NULL", IsFlow(spool[c]),
                    \/ PutFirst(c) \/ PutUnmapped(c) \/ PutMore(c) \/ PutCrash(c)
             PROVE  Tells
  BY DEF Put, Live
<1>1. /\ Typed(spool[c]) /\ npaused \in Int /\ spool[c].id # 0
      /\ spool[c].curr_sound \in 0..(Len(spool[c].snd) - 1)
  <2>1. Typed(spool[c]) /\ npaused \in Int
    BY EntryGet DEF TypeOK
  <2> QED BY <2>1 DEF Typed, EntryOK
<1>2. PICK f : f = Curr(spool[c])
  OBVIOUS
<1>3. f \in Flows /\ Has(spool[c], f)
  <2>1. f \in Sounds
    BY <1>1, <1>2, CurrTyped
  <2>2. spool[c].curr_sound + 1 \in 1..Len(spool[c].snd)
    <3>1. Len(spool[c].snd) \in Nat
      BY <1>1 DEF Typed, Entry
    <3> QED BY <1>1, <3>1
  <2> QED BY <1>2, <2>1, <2>2 DEF IsFlow, Flows, Has, Curr
<1>4. Owns(spool, status, c, f)
  BY <1>3, HeldIff DEF PlayInv, Held, Alive
<1>5. spool[c].auto_pause => spool[c].state = "SKIP"
  BY DEF PlayInv, AutoPauseSkip
<1>6. PICK e : e = Feed(spool[c])
  OBVIOUS
<1>7. /\ Typed(e) /\ e.state = spool[c].state /\ e.auto_pause = spool[c].auto_pause
      /\ e.id = spool[c].id /\ e.si = spool[c].si /\ e.snd = spool[c].snd
      /\ e.curr_sound = spool[c].curr_sound
  BY <1>1, <1>6, FeedTyped
<1>8. CASE PutCrash(c)
  BY <1>8, StillStays DEF PutCrash, Tells
<1>9. CASE PutFirst(c)
  <2>1. /\ status[f] = "pending" /\ spool' = [spool EXCEPT ![c] = Played(e)]
        /\ npaused' = npaused /\ known' = known \cup {spool[c].id}
    BY <1>2, <1>6, <1>9 DEF PutFirst
  <2>2. spool[c].state = "WAIT"
    BY <1>4, <2>1 DEF Owns
  <2>3. e.curr_sound \in 0..(Len(e.snd) - 1) /\ ~e.auto_pause /\ e.id # 0
    BY <1>1, <1>5, <1>7, <2>2
  <2> QED BY <1>7, <2>1, <2>2, <2>3, PlayTells
<1>10. CASE PutUnmapped(c)
  <2>1. Remove(c) /\ spool[c].state = "WAIT"
    BY <1>2, <1>4, <1>10 DEF PutUnmapped, Owns
  <2> QED BY <2>1, RemoveTells DEF Stoppable
<1>11. CASE PutMore(c)
  <2>1. PICK st : st = IF e.state = "WAIT" THEN "PLAY" ELSE e.state
    OBVIOUS
  <2>2. PICK u : u = [e EXCEPT !.state = st]
    OBVIOUS
  <2>3. spool' = [spool EXCEPT ![c] = u]
    <3>1. spool' = [spool EXCEPT ![c] =
                      [Feed(spool[c]) EXCEPT !.state = IF @ = "WAIT" THEN "PLAY" ELSE @]]
      BY <1>11, Zenon DEF PutMore
    <3> QED BY <1>6, <2>1, <2>2, <3>1
  <2>4. spool[c].si \in {"open", "eof"} /\ npaused' = npaused /\ known' = known
    BY <1>11 DEF PutMore
  <2>5. st \in States
    BY <1>7, <2>1 DEF Typed, Entry, States
  <2>6. u.state = st /\ u.id = spool[c].id /\ u.si = spool[c].si
    BY <1>7, <2>2, <2>5, StateTyped
  <2>7. Told(u) /\ Told(spool[c])
    BY <1>7, <2>1, <2>4, <2>6 DEF Told
  <2>8. npaused' = npaused + Pauses(u) - Pauses(spool[c])
    BY <1>1, <1>7, <2>1, <2>4, <2>6 DEF Pauses
  <2>9. spool[c].state # "NULL" /\ u.state # "NULL" /\ (spool[c].state = "SKIP" => u.state = "SKIP")
    BY <1>7, <2>1, <2>6, <2>7 DEF Told
  <2> QED BY <2>3, <2>4, <2>6, <2>7, <2>8, <2>9, SilentlyOn
<1> QED BY <1>8, <1>9, <1>10, <1>11

(* The new entry of a request, or none.                                    *)
LEMMA EnterTells ==
    ASSUME TypeOK, NEW rq \in Requests, NEW c \in Cells, NEW old, NEW ord, NEW rest,
           \/ old = spool[c] /\ spool[c].state = "PLAY"
           \/ old = NullEntry /\ spool[c].state = "NULL",
           Enter(rq, c, old, ord, rest)
    PROVE  Tells
<1>1. PICK i \in NewIds(Gone(c)) :
        /\ EnterWait(rq, c, old, i) \/ EnterPlay(rq, c, old, i) \/ EnterFail(rq, c, old, i)
        /\ npaused' = npaused
  BY DEF Enter
<1>2. i \in Ids /\ i \notin Used(Gone(c))
  BY DEF NewIds
<1>3. PICK e : e = NewEntry(rq, i)
  OBVIOUS
<1>4. /\ Typed(e) /\ e.id = i /\ e.id # 0 /\ e.curr_sound \in 0..(Len(e.snd) - 1)
      /\ e.auto_pause = FALSE /\ e.si = "null"
  BY <1>2, <1>3, NewEntryTyped
<1>5. Silent(old) = IF spool[c].state = "NULL" THEN known ELSE known \ {spool[c].id}
  BY NullTyped DEF Silent
<1>6. CASE EnterWait(rq, c, old, i)
  <2>1. PICK u : u = [e EXCEPT !.state = "WAIT"]
    OBVIOUS
  <2>2. spool' = [spool EXCEPT ![c] = u] /\ known' = Silent(old)
    BY <1>3, <1>6, <2>1 DEF EnterWait
  <2>3. u.state = "WAIT" /\ u.si = "null" /\ u.id = i
    BY <1>4, <2>1 DEF Typed, Entry
  <2>4. ~Told(u)
    BY <2>3 DEF Told
  <2>5. Enters(c, u)
    BY <1>1, <1>2, <1>5, <2>2, <2>3, <2>4 DEF Enters
  <2> QED BY <2>5 DEF Tells
<1>7. CASE EnterPlay(rq, c, old, i)
  <2>1. PICK u : u = Played(e)
    OBVIOUS
  <2>2. spool' = [spool EXCEPT ![c] = u] /\ known' = Silent(old) \cup {i}
    BY <1>3, <1>7, <2>1 DEF EnterPlay
  <2>3. u.state = "PLAY" /\ u.id = i
    BY <1>4, <2>1, PlayedTyped
  <2>4. Told(u)
    BY <2>3 DEF Told
  <2>5. Enters(c, u)
    BY <1>1, <1>2, <1>5, <2>2, <2>3, <2>4 DEF Enters
  <2> QED BY <2>5 DEF Tells
<1>8. CASE EnterFail(rq, c, old, i)
  <2>1. PICK u : u = NullEntry
    OBVIOUS
  <2>2. spool' = [spool EXCEPT ![c] = u] /\ known' = Silent(old)
    BY <1>8, <2>1 DEF EnterFail, Gone
  <2>3. u.state = "NULL" /\ ~Told(u)
    BY <2>1, NullTyped DEF Told
  <2>5. Enters(c, u)
    BY <1>1, <1>5, <2>2, <2>3 DEF Enters
  <2> QED BY <2>5 DEF Tells
<1> QED BY <1>1, <1>6, <1>7, <1>8

(* Every outcome of rplayd_play.                                           *)
LEMMA PlaysTell ==
    ASSUME TypeOK, Play
    PROVE  Tells
<1> SUFFICES ASSUME NEW rq \in Requests,
                    \/ PlayMerge(rq) \/ PlayMergeCrash(rq)
                    \/ PlayNew(rq) \/ PlayReplace(rq)
             PROVE  Tells
  BY DEF Play
<1>1. CASE PlayMerge(rq)
  <2>1. PICK c \in Cells :
          /\ spool' = [spool EXCEPT ![c].snd = @ \o rq.snd, ![c].count = @ \o rq.count]
          /\ npaused' = npaused /\ known' = known
    BY <1>1 DEF PlayMerge, Named, Live, counters
  <2>2. PICK sn, co : sn = spool[c].snd \o rq.snd /\ co = spool[c].count \o rq.count
    OBVIOUS
  <2>3. PICK d, u : d = spool[c] /\ u = [d EXCEPT !.snd = sn, !.count = co]
    OBVIOUS
  <2>4. spool' = [spool EXCEPT ![c] = u]
    BY <2>1, <2>2, <2>3
  <2>5. d \in Entry
    BY <2>3, EntryGet DEF Typed
  <2>6. u.state = d.state /\ u.id = d.id /\ u.si = d.si
    BY <2>3, <2>5 DEF Entry
  <2>7. \A x \in Cells : /\ spool'[x].state = spool[x].state /\ spool'[x].id = spool[x].id
                         /\ spool'[x].si = spool[x].si
    BY <2>3, <2>4, <2>6 DEF TypeOK
  <2> QED BY <2>1, <2>7 DEF Stays, Told, Tells
<1>2. CASE PlayMergeCrash(rq)
  BY <1>2, StillStays DEF PlayMergeCrash, Tells
<1>3. CASE PlayNew(rq)
  <2>1. PICK c \in Cells : /\ spool[c].state = "NULL"
                           /\ Enter(rq, c, NullEntry, <<c>> \o order, order)
    BY <1>3 DEF PlayNew, Live
  <2> QED BY <2>1, EnterTells
<1>4. CASE PlayReplace(rq)
  <2>1. PICK k \in 1..Len(order), c \in Cells :
          spool[c].state = "PLAY" /\ Enter(rq, c, spool[c], order, Without(k))
    BY <1>4 DEF PlayReplace, Lowest
  <2> QED BY <2>1, EnterTells
<1> QED BY <1>1, <1>2, <1>3, <1>4

(* Every step of the daemon.                                               *)
LEMMA StepTells ==
    ASSUME TypeOK, PlayInv, [Next]_vars
    PROVE  Tells \/ Reset
<1>1. CASE Loop
  <2>1. PICK c \in Cells : Apply(c) \/ ReadyCrash(c) \/ Ignore
    BY <1>1 DEF Loop
  <2> QED BY <2>1, ApplyTells, StillStays DEF ReadyCrash, Tells
<1>2. CASE \/ Top \/ Wake \/ Command \/ UNCHANGED vars
           \/ \E s \in Sounds : SoundFound(s) \/ SoundLost(s)
  BY <1>2, StillStays DEF Tells
<1>3. CASE Tick
  BY <1>3, TickStays DEF Tells
<1> QED
  BY <1>1, <1>2, <1>3, UpdateTells, PlaysTell, PutTells DEF Next, MainLoop, Client

-----------------------------------------------------------------------------
(* What follows from it.                                                   *)

(* spool_npaused, when one entry changes.                                  *)
LEMMA PausedChange ==
    ASSUME TypeOK, NpausedCounts, NEW c \in Cells, NEW e,
           spool' = [spool EXCEPT ![c] = e],
           npaused' = npaused + Pauses(e) - Pauses(spool[c])
    PROVE  NpausedCounts'
<1>1. PICK A, B : /\ A = {d \in Cells : spool[d].state = "PAUSE"}
                  /\ B = {d \in Cells : spool'[d].state = "PAUSE"}
  OBVIOUS
<1>2. /\ spool'[c] = e
      /\ \A d \in Cells \ {c} : spool'[d] = spool[d]
  BY DEF TypeOK
<1>3. /\ \A d \in Cells \ {c} : d \in A <=> d \in B
      /\ A \in SUBSET Cells /\ B \in SUBSET Cells
  BY <1>1, <1>2
<1>4. /\ Pauses(e) = IF c \in B THEN 1 ELSE 0
      /\ Pauses(spool[c]) = IF c \in A THEN 1 ELSE 0
  BY <1>1, <1>2 DEF Pauses
<1>5. npaused = Cardinality(A)
  BY <1>1 DEF NpausedCounts
<1>6. npaused' = Cardinality(B)
  BY <1>3, <1>4, <1>5, CardinalityChange
<1> QED BY <1>1, <1>6 DEF NpausedCounts

(* The counter follows the entries, but for a reset.                       *)
LEMMA TellsPaused ==
    ASSUME TypeOK, NpausedCounts, Tells
    PROVE  NpausedCounts'
<1>0. npaused \in Int
  BY DEF TypeOK
<1>1. ASSUME NEW c \in Cells, NEW e, GoesOn(c, e) PROVE NpausedCounts'
  BY <1>1, PausedChange DEF GoesOn
<1>2. ASSUME NEW c \in Cells, NEW e, Enters(c, e) PROVE NpausedCounts'
  <2>1. Pauses(e) = 0 /\ Pauses(spool[c]) = 0
    BY <1>2 DEF Enters, Pauses
  <2>2. npaused' = npaused + Pauses(e) - Pauses(spool[c])
    BY <1>0, <1>2, <2>1 DEF Enters
  <2> QED BY <1>2, <2>2, PausedChange DEF Enters
<1>3. ASSUME NEW c \in Cells, Leaves(c) PROVE NpausedCounts'
  <2>1. Pauses(NullEntry) = 0 /\ Pauses(spool[c]) \in Int
    BY NullTyped DEF Pauses
  <2>2. npaused' = npaused + Pauses(NullEntry) - Pauses(spool[c])
    BY <1>0, <1>3, <2>1 DEF Leaves
  <2> QED BY <1>3, <2>2, PausedChange DEF Leaves
<1>4. CASE Stays
  <2>1. {c \in Cells : spool'[c].state = "PAUSE"} = {c \in Cells : spool[c].state = "PAUSE"}
    BY <1>4 DEF Stays
  <2> QED BY <1>4, <2>1 DEF Stays, NpausedCounts
<1> QED BY <1>1, <1>2, <1>3, <1>4 DEF Tells

(* spool_npaused is the number of paused entries, for every number of      *)
(* entries and whatever clients and the timer do, until a reset, which     *)
(* forgets to zero it.                                                     *)
THEOREM PausedCorrect == "reset" \notin Env => (Spec => []NpausedCounts)
<1> SUFFICES ASSUME "reset" \notin Env PROVE Spec => []NpausedCounts
  OBVIOUS
<1>1. Init => TypeOK /\ PlayInv /\ NpausedCounts
  <2> SUFFICES ASSUME Init PROVE NpausedCounts
    BY InitTyped, InitCounts
  <2>1. {c \in Cells : spool[c].state = "PAUSE"} = {}
    BY NullTyped DEF Init
  <2> QED BY <2>1, FS_EmptySet DEF Init, NpausedCounts
<1>2. TypeOK /\ PlayInv /\ NpausedCounts /\ [Next]_vars => (TypeOK /\ PlayInv /\ NpausedCounts)'
  BY NextTypes, NextCounts, StepTells, TellsPaused DEF Reset
<1> QED BY <1>1, <1>2, PTL DEF Spec

(* Two entries never have the same id, although ids wrap around.           *)
DistinctIds == \A c, d \in Live : spool[c].id = spool[d].id => c = d

(* ClientsKnow, element by element.                                        *)
Known(k, sp) == \A x : x \in k <=> \E c \in Cells : Told(sp[c]) /\ sp[c].id = x

(* DistinctIds of the spool sp.                                            *)
Distinct(sp) == \A c, d \in Cells :
    sp[c].state # "NULL" /\ sp[d].state # "NULL" /\ sp[c].id = sp[d].id => c = d

(* The invariants are these, before a step and after it.                   *)
LEMMA KnowIff ==
    /\ ClientsKnow <=> Known(known, spool)
    /\ ClientsKnow' <=> Known(known', spool')
    /\ DistinctIds <=> Distinct(spool)
    /\ DistinctIds' <=> Distinct(spool')
<1>1. /\ ClientsKnow <=> Known(known, spool)
      /\ ClientsKnow' <=> Known(known', spool')
  BY DEF ClientsKnow, Known, Live, Told
<1>2. /\ DistinctIds <=> Distinct(spool)
      /\ DistinctIds' <=> Distinct(spool')
  BY DEF DistinctIds, Distinct, Live
<1> QED BY <1>1, <1>2

(* The clients know of the entries that have been played and are there.    *)
LEMMA TellsKnown ==
    ASSUME TypeOK, DistinctIds, ClientsKnow, Tells
    PROVE  DistinctIds' /\ ClientsKnow'
<1>0. Known(known, spool) /\ Distinct(spool)
  BY KnowIff
<1> SUFFICES Known(known', spool') /\ Distinct(spool')
  BY KnowIff
<1>a. ASSUME NEW c \in Cells, NEW e, spool' = [spool EXCEPT ![c] = e]
      PROVE  spool'[c] = e /\ \A d \in Cells : d # c => spool'[d] = spool[d]
  BY <1>a DEF TypeOK
<1>b. \A d \in Cells : Told(spool[d]) => spool[d].state # "NULL"
  BY DEF Told
<1>1. ASSUME NEW c \in Cells, NEW e, GoesOn(c, e) PROVE Known(known', spool') /\ Distinct(spool')
  <2>1. /\ spool'[c] = e /\ (\A d \in Cells : d # c => spool'[d] = spool[d])
        /\ spool[c].state # "NULL" /\ e.state # "NULL" /\ e.id = spool[c].id
        /\ Told(spool[c]) => Told(e)
        /\ \/ known' = known /\ (Told(e) => Told(spool[c]))
           \/ known' = known \cup {e.id} /\ Told(e)
    BY <1>1, <1>a DEF GoesOn
  <2>2. Distinct(spool')
    BY <1>0, <2>1 DEF Distinct
  <2>3. Known(known', spool')
    BY <1>0, <2>1 DEF Known
  <2> QED BY <2>2, <2>3
<1>2. ASSUME NEW c \in Cells, NEW e, Enters(c, e) PROVE Known(known', spool') /\ Distinct(spool')
  <2>1. /\ spool'[c] = e /\ (\A d \in Cells : d # c => spool'[d] = spool[d])
        /\ known' = (IF spool[c].state = "NULL" THEN known ELSE known \ {spool[c].id})
                    \cup (IF Told(e) THEN {e.id} ELSE {})
    BY <1>2, <1>a DEF Enters
  <2>2. e.state # "NULL" => \A d \in Cells : d # c /\ spool[d].state # "NULL" => spool[d].id # e.id
    <3> SUFFICES ASSUME e.state # "NULL", NEW d \in Cells, d # c, spool[d].state # "NULL"
                 PROVE  spool[d].id # e.id
      OBVIOUS
    <3>1. e.id \notin Used(Gone(c))
      BY <1>2 DEF Enters
    <3>2. Gone(c)[d] = spool[d]
      BY DEF Gone, TypeOK
    <3> QED BY <3>1, <3>2 DEF Used
  <2>3. Distinct(spool')
    BY <1>0, <2>1, <2>2 DEF Distinct
  <2>4. Known(known', spool')
    <3>1. ASSUME NEW x PROVE x \in known' <=> \/ Told(e) /\ e.id = x
                                              \/ \E d \in Cells : d # c /\ Told(spool[d]) /\ spool[d].id = x
      BY <1>0, <1>b, <2>1 DEF Known, Distinct
    <3> QED BY <2>1, <3>1 DEF Known
  <2> QED BY <2>3, <2>4
<1>3. ASSUME NEW c \in Cells, Leaves(c) PROVE Known(known', spool') /\ Distinct(spool')
  <2>1. PICK e : e = NullEntry
    OBVIOUS
  <2>2. /\ spool'[c] = e /\ (\A d \in Cells : d # c => spool'[d] = spool[d])
        /\ spool[c].state # "NULL" /\ known' = known \ {spool[c].id}
    BY <1>3, <1>a, <2>1 DEF Leaves
  <2>3. e.state = "NULL" /\ ~Told(e)
    BY <2>1, NullTyped DEF Told
  <2>4. Distinct(spool')
    BY <1>0, <2>2, <2>3 DEF Distinct
  <2>5. Known(known', spool')
    BY <1>0, <1>b, <2>2, <2>3 DEF Known, Distinct
  <2> QED BY <2>4, <2>5
<1>4. CASE Stays
  <2>1. \A c \in Cells : /\ spool'[c].id = spool[c].id /\ (Told(spool'[c]) <=> Told(spool[c]))
                         /\ spool'[c].state = "NULL" <=> spool[c].state = "NULL"
    BY <1>4 DEF Stays
  <2> QED BY <1>0, <1>4, <2>1 DEF Stays, Known, Distinct
<1> QED BY <1>1, <1>2, <1>3, <1>4 DEF Tells

(* The notify clients know which entries have been played and are still    *)
(* there: no entry leaves without a `done' event, and none plays           *)
(* unannounced, for every number of entries and of ids.                    *)
THEOREM ClientsInformed == Spec => []ClientsKnow
<1> DEFINE K == TypeOK /\ PlayInv /\ DistinctIds /\ ClientsKnow
<1>1. Init => K
  <2> SUFFICES ASSUME Init PROVE DistinctIds /\ ClientsKnow
    BY InitTyped, InitCounts
  <2>1. known = {} /\ \A c \in Cells : spool[c].state = "NULL"
    BY NullTyped DEF Init
  <2> QED BY <2>1 DEF DistinctIds, ClientsKnow, Live
<1>2. K /\ [Next]_vars => K'
  <2> SUFFICES ASSUME K, [Next]_vars PROVE DistinctIds' /\ ClientsKnow'
    BY NextTypes, NextCounts
  <2>1. CASE Reset
    <3>1. known' = {} /\ \A c \in Cells : spool'[c].state = "NULL"
      BY <2>1, NullTyped DEF Reset
    <3> QED BY <3>1 DEF DistinctIds, ClientsKnow, Live
  <2> QED BY <2>1, StepTells, TellsKnown
<1> QED BY <1>1, <1>2, PTL DEF Spec

(* A paused entry that is skipped plays nothing until it is continued: a   *)
(* property of every step, whatever commands come in between.              *)
THEOREM SkipsQuietly == Spec => SkipKeepsPause
<1>1. Init => TypeOK /\ PlayInv
  BY InitTyped, InitCounts
<1>2. TypeOK /\ PlayInv /\ [Next]_vars => (TypeOK /\ PlayInv)'
  BY NextTypes, NextCounts
<1>3. TypeOK /\ PlayInv /\ [Next]_vars =>
        [\A c \in Cells : spool[c].state = "SKIP" /\ spool[c].auto_pause =>
            spool'[c].state \in {"SKIP", "PAUSE", "NULL"}]_vars
  <2> SUFFICES ASSUME TypeOK, PlayInv, [Next]_vars, NEW c \in Cells,
                      spool[c].state = "SKIP", spool[c].auto_pause
               PROVE  spool'[c].state \in {"SKIP", "PAUSE", "NULL"}
    OBVIOUS
  <2>1. CASE Reset
    BY <2>1, NullTyped DEF Reset
  <2>2. CASE Stays
    BY <2>2 DEF Stays
  <2>3. ASSUME NEW d \in Cells, NEW e, spool' = [spool EXCEPT ![d] = e],
               PauseKept(spool[d], e) \/ spool[d].state # "SKIP" \/ e.state = "NULL"
        PROVE  spool'[c].state \in {"SKIP", "PAUSE", "NULL"}
    BY <2>3 DEF PauseKept, TypeOK
  <2>4. ASSUME NEW d \in Cells, NEW e, GoesOn(d, e) \/ Enters(d, e)
        PROVE  spool'[c].state \in {"SKIP", "PAUSE", "NULL"}
    BY <2>3, <2>4 DEF GoesOn, Enters
  <2>5. ASSUME NEW d \in Cells, Leaves(d)
        PROVE  spool'[c].state \in {"SKIP", "PAUSE", "NULL"}
    BY <2>3, <2>5, NullTyped DEF Leaves
  <2> QED BY <2>1, <2>2, <2>4, <2>5, StepTells DEF Tells
<1> QED BY <1>1, <1>2, <1>3, PTL DEF Spec, SkipKeepsPause

-----------------------------------------------------------------------------
(* The daemon survives.                                                    *)

(* Where it does: every sound is here and can be opened, no client sends   *)
(* flow data after the end, and a skip overshoots the list by at most one. *)
Tame == /\ "open_fails" \notin Env /\ "late_put" \notin Env
        /\ \A s \in Files : Info[s].where = "local"
        /\ \A n \in SkipCounts : n <= 2

FilesReady == \A s \in Files : status[s] = "ready"
ShortSkips == /\ \A c \in Cells : spool[c].skip_count <= 2
              /\ cmd.op = "skip" => cmd.arg <= 2

SafeInv == NoCrash /\ FilesReady /\ ShortSkips

(* No operator on one entry makes a skip longer.                           *)
LEMMA SkipKept ==
    ASSUME NEW e, Typed(e)
    PROVE  /\ Ended(e).skip_count = e.skip_count
           /\ Feed(e).skip_count = e.skip_count
           /\ TickEntry(e).skip_count = e.skip_count
           /\ Played(e).skip_count = e.skip_count
           /\ Filled(e).skip_count = e.skip_count
<1>1. Ended(e).skip_count = e.skip_count
  BY DEF Typed, Entry, Ended
<1>2. Feed(e).skip_count = e.skip_count
  BY DEF Typed, Entry, Feed
<1>3. TickEntry(e).skip_count = e.skip_count
  BY DEF Typed, Entry, TickEntry, Consumed
<1>4. Played(e).skip_count = e.skip_count
  BY DEF Typed, Entry, Played, Opened
<1>5. Filled(e).skip_count = e.skip_count
  <2>1. CASE WantsFill(e) /\ FillSize(e) # 0
    <3>1. PICK l, b, m, f : Filled(e) = [e EXCEPT !.left = l, !.curr_buffer = b,
                                                  !.next_buffer = m, !.si = f]
      BY <2>1 DEF Filled
    <3> QED BY <3>1 DEF Typed, Entry
  <2>2. CASE ~(WantsFill(e) /\ FillSize(e) # 0)
    <3>1. Filled(e) \in {e, [e EXCEPT !.si = "null"], [e EXCEPT !.state = "WAIT"]}
      BY <2>2 DEF Filled
    <3> QED BY <3>1 DEF Typed, Entry
  <2> QED BY <2>1, <2>2
<1> QED BY <1>1, <1>2, <1>3, <1>4, <1>5

(* A skip by at most two never leaves curr_sound behind the list, and the  *)
(* next sound has no longer skip.                                          *)
LEMMA TurnStays ==
    ASSUME NEW e, Typed(e), e.state \in {"NEXT", "SKIP"}, e.skip_count <= 2
    PROVE  ~PastListEnd(Turned(e)) /\ Advanced(Turned(e)).skip_count <= 2
<1>1. PICK d : d = Closed(e)
  OBVIOUS
<1>2. /\ d \in Entry /\ d.curr_sound = e.curr_sound /\ d.snd = e.snd
      /\ d.skip_count = e.skip_count
  BY <1>1 DEF Typed, Entry, Closed
<1>3. /\ Len(d.snd) \in Nat /\ d.curr_sound \in 0..(Len(d.snd) - 1) /\ d.skip_count \in Int
      /\ d.skip_count <= 2 /\ d.curr_count \in Nat
  <2>1. Len(d.snd) \in Nat /\ d.skip_count \in Int /\ d.curr_count \in Nat
    BY <1>2 DEF Entry
  <2>2. e.curr_sound \in 0..(Len(e.snd) - 1)
    BY DEF Typed, EntryOK
  <2> QED BY <1>2, <2>1, <2>2
<1>4. PICK t : t = Turned(e)
  OBVIOUS
<1>5. t = IF e.state = "SKIP" THEN Skipped(d) ELSE d
  BY <1>1, <1>4 DEF Turned
<1>6. /\ t \in Entry /\ t.snd = d.snd /\ t.skip_count <= 2
      /\ t.curr_sound \in Int /\ t.curr_sound <= Len(d.snd) - 1
  <2>1. CASE t = d
    BY <1>2, <1>3, <2>1
  <2>2. CASE t = Skipped(d) /\ d.skip_count = 0
    <3>1. PICK n : n = d.curr_count + 1
      OBVIOUS
    <3>2. n \in Nat /\ t = [d EXCEPT !.curr_count = n]
      BY <1>3, <2>2, <3>1 DEF Skipped
    <3>3. /\ t \in Entry /\ t.snd = d.snd /\ t.skip_count = d.skip_count
          /\ t.curr_sound = d.curr_sound
      BY <1>2, <3>2 DEF Entry
    <3> QED BY <1>3, <3>3
  <2>3. CASE t = Skipped(d) /\ d.skip_count # 0
    <3>1. PICK k : k = IF d.skip_count < 0 /\ d.second THEN d.skip_count + 1 ELSE d.skip_count
      OBVIOUS
    <3>2. k \in Int /\ k <= 2
      BY <1>3, <3>1
    <3>3. PICK m : m = Clamped(d, d.curr_sound + k - 1)
      OBVIOUS
    <3>4. m \in Int /\ m <= Len(d.snd) - 1
      BY <1>3, <3>2, <3>3 DEF Clamped
    <3>5. PICK one : one = 1
      OBVIOUS
    <3>6. t = [d EXCEPT !.curr_count = one, !.skip_count = k, !.curr_sound = m]
      BY <2>3, <3>1, <3>3, <3>5 DEF Skipped
    <3> QED BY <1>2, <3>2, <3>4, <3>5, <3>6 DEF Entry
  <2> QED BY <1>5, <2>1, <2>2, <2>3
<1>7. ~PastListEnd(t)
  BY <1>3, <1>6 DEF PastListEnd
<1>8. Advanced(t).skip_count <= 2
  <2>1. CASE t.curr_count > 1
    <3>1. PICK n : n = t.curr_count - 1
      OBVIOUS
    <3>2. Advanced(t) = [t EXCEPT !.curr_count = n]
      BY <2>1, <3>1 DEF Advanced
    <3> QED BY <1>6, <3>2 DEF Entry
  <2>2. CASE ~(t.curr_count > 1) /\ t.curr_count = 0
    BY <1>6, <2>2 DEF Advanced
  <2>3. CASE ~(t.curr_count > 1) /\ t.curr_count # 0 /\ AtListEnd(t)
    <3>1. PICK n, m, z : Advanced(t) = [t EXCEPT !.list_count = n, !.curr_sound = z, !.curr_count = m]
      BY <2>3 DEF Advanced
    <3> QED BY <1>6, <3>1 DEF Entry
  <2>4. CASE ~(t.curr_count > 1) /\ t.curr_count # 0 /\ ~AtListEnd(t)
    <3>1. PICK k : k = IF t.state = "SKIP" THEN 0 ELSE t.skip_count
      OBVIOUS
    <3>2. PICK i, m : Advanced(t) = [t EXCEPT !.curr_sound = i, !.curr_count = m, !.skip_count = k]
      BY <2>4, <3>1 DEF Advanced
    <3>3. k <= 2
      BY <1>6, <3>1
    <3> QED BY <1>6, <3>2, <3>3 DEF Entry
  <2> QED BY <2>1, <2>2, <2>3, <2>4
<1> QED BY <1>4, <1>7, <1>8

(* No step takes a sound away that is ready.                               *)
LEMMA ReadyKept ==
    ASSUME Tame, TypeOK, PlayInv, FilesReady, [Next]_vars
    PROVE  FilesReady'
<1>1. \A s \in Files : s \in Sounds /\ s \notin Flows
  BY DEF Files, Flows
<1>2. ASSUME NEW st, FilesReady, NEW e, st = Cleaned(status, e) PROVE \A s \in Files : st[s] = "ready"
  BY <1>1, <1>2 DEF Cleaned, FilesReady
<1>3. \A snd : \A s \in Files : LookedUp(snd)[s] = "ready"
  BY <1>1 DEF LookedUp, FilesReady
<1>4. \A rq, e : \A s \in Files : AfterLookup(rq, e)[s] = "ready"
  BY <1>1, <1>3 DEF AfterLookup, Cleaned
<1>5. CASE status' = status
  BY <1>5 DEF FilesReady
<1>6. ASSUME NEW c \in Cells, Destroy(c) PROVE FilesReady'
  BY <1>1, <1>6 DEF Destroy, Cleaned, FilesReady
<1>7. CASE Update
  BY <1>5, <1>6, <1>7 DEF Update, UpdateFinish, UpdateNext, UpdateCrash, UpdateFill, UpdatePass, Crash
<1>8. CASE Loop
  BY <1>5, <1>6, <1>8 DEF Loop, Apply, ReadyCrash, Crash, Ignore, spool_stop, spool_pause,
       spool_continue, spool_done, spool_skip, spool_set, spool_ready, Remove
<1>9. CASE Play
  <2>1. PICK rq \in Requests : \/ PlayMerge(rq) \/ PlayMergeCrash(rq)
                               \/ PlayNew(rq) \/ PlayReplace(rq)
    BY <1>9 DEF Play
  <2>2. \/ status' = LookedUp(rq.snd) \/ status' = status
        \/ \E e : status' = AfterLookup(rq, e)
    BY <2>1 DEF PlayMerge, PlayMergeCrash, Crash, PlayNew, PlayReplace, Enter
  <2> QED BY <1>3, <1>4, <1>5, <2>2 DEF FilesReady
<1>10. CASE Put
  <2>1. PICK c \in Cells : \/ PutFirst(c) \/ PutUnmapped(c) \/ PutMore(c) \/ PutCrash(c)
    BY <1>10 DEF Put, Live
  <2>2. CASE PutFirst(c)
    <3>1. PICK f : status' = [status EXCEPT ![f] = "ready"]
      BY <2>2 DEF PutFirst
    <3> QED BY <1>1, <3>1 DEF FilesReady, TypeOK
  <2>3. CASE PutUnmapped(c)
    BY <1>6, <2>3 DEF PutUnmapped, Remove
  <2>4. CASE PutMore(c) \/ PutCrash(c)
    BY <1>5, <2>4 DEF PutMore, PutCrash, Crash
  <2> QED BY <2>1, <2>2, <2>3, <2>4
<1>11. CASE \E s \in Sounds : SoundFound(s) \/ SoundLost(s)
  BY <1>11 DEF SoundFound, SoundLost, FilesReady
<1>12. CASE Reset
  BY <1>1, <1>12 DEF Reset, InitStatus, FilesReady, Tame
<1>13. CASE Top \/ Wake \/ Command \/ Tick \/ UNCHANGED vars
  BY <1>5, <1>13 DEF Top, Wake, Command, Tick, vars
<1> QED BY <1>7, <1>8, <1>9, <1>10, <1>11, <1>12, <1>13 DEF Next, MainLoop, Client

(* What opens an entry finds its sound.                                    *)
LEMMA Opens ==
    ASSUME Tame, FilesReady, NEW e, Typed(e), e.curr_sound \in 0..(Len(e.snd) - 1)
    PROVE  ~MayFailToOpen(e)
<1>1. Curr(e) \in Sounds
  BY DEF Typed, Entry, Curr
<1>2. ~IsFlow(e) => Curr(e) \in Files
  BY <1>1, InfoAssumption DEF IsFlow, Files
<1> QED BY <1>2 DEF MayFailToOpen, Tame, FilesReady

(* No step follows a NULL or freed pointer.                                *)
LEMMA NeverCrashes ==
    ASSUME Tame, TypeOK, PlayInv, SafeInv, [Next]_vars
    PROVE  NoCrash'
<1>0. FilesReady /\ pc # "crashed" /\ \A c \in Cells : spool[c].skip_count <= 2
  BY DEF SafeInv, NoCrash, ShortSkips
<1>1. \A c \in Cells : Typed(spool[c])
  BY EntryGet
<1>2. ASSUME NEW c \in Cells, UpdateCrash(c) PROVE FALSE
  <2>1. PICK e : e = Ended(spool[c])
    OBVIOUS
  <2>2. /\ e.state \in {"NEXT", "SKIP"}
        /\ ~PastListEnd(Turned(e)) => MayFailToOpen(Advanced(Turned(e)))
    BY <1>2, <2>1 DEF UpdateCrash
  <2>3. Typed(e) /\ e.skip_count <= 2
    BY <1>0, <1>1, <2>1, EndedTyped, SkipKept
  <2>4. ~PastListEnd(Turned(e))
    BY <2>2, <2>3, TurnStays
  <2> QED BY <1>0, <2>2, <2>3, <2>4, NextTyped, Opens
<1>3. ASSUME NEW c \in Cells, ReadyCrash(c) PROVE FALSE
  <2>1. spool[c].state = "WAIT" /\ MayFailToOpen(spool[c])
    BY <1>3 DEF ReadyCrash
  <2>2. spool[c].curr_sound \in 0..(Len(spool[c].snd) - 1)
    BY <1>1, <2>1 DEF Typed, EntryOK
  <2> QED BY <1>0, <1>1, <2>1, <2>2, Opens
<1>4. ASSUME NEW rq \in Requests, PlayMergeCrash(rq) PROVE FALSE
  <2>1. PICK i \in 1..Len(rq.snd) : Missing(rq.snd[i])
    BY <1>4 DEF PlayMergeCrash, AllFound
  <2> QED BY <1>0, <2>1 DEF Missing, FilesReady
<1>5. ASSUME NEW c \in Cells, PutCrash(c) PROVE FALSE
  BY <1>5 DEF PutCrash, Tame
<1>6. CASE Update
  <2>1. PICK c \in Cells : UpdateFinish(c) \/ UpdateNext(c) \/ UpdateFill(c) \/ UpdatePass(c)
    BY <1>2, <1>6 DEF Update
  <2>2. Step
    BY <2>1 DEF UpdateFinish, UpdateNext, UpdateFill, UpdatePass
  <2> QED BY <2>2 DEF Step, NoCrash
<1>7. CASE Loop
  BY <1>3, <1>7 DEF Loop, Stepped, NoCrash
<1>8. CASE Play
  <2>1. pc' = pc
    BY <1>4, <1>8 DEF Play, PlayMerge, PlayNew, PlayReplace, Enter
  <2> QED BY <1>0, <2>1 DEF NoCrash
<1>9. CASE Put
  <2>1. pc' = pc
    BY <1>5, <1>9 DEF Put, Live
  <2> QED BY <1>0, <2>1 DEF NoCrash
<1>10. CASE Command \/ \E s \in Sounds : SoundFound(s) \/ SoundLost(s)
  BY <1>10 DEF Command, SoundFound, SoundLost, Walk, NoCrash
<1>11. CASE Top \/ Wake \/ Tick \/ Reset \/ UNCHANGED vars
  BY <1>0, <1>11 DEF Top, Wake, Tick, Reset, vars, NoCrash
<1> QED BY <1>6, <1>7, <1>8, <1>9, <1>10, <1>11 DEF Next, MainLoop, Client

(* No command asks for a longer skip.                                      *)
LEMMA CommandsShort ==
    ASSUME Tame, ShortSkips, [Next]_vars
    PROVE  (cmd.op = "skip" => cmd.arg <= 2)'
<1>0. (cmd' = cmd \/ cmd' = NoCmd) => (cmd.op = "skip" => cmd.arg <= 2)'
  BY DEF ShortSkips, NoCmd
<1>1. CASE Update
  BY <1>0, <1>1 DEF Update, UpdateFinish, UpdateNext, UpdateCrash, UpdateFill, UpdatePass, Step, Crash
<1>2. CASE Loop
  BY <1>0, <1>2 DEF Loop, Stepped, ReadyCrash, Crash
<1>3. CASE Play
  BY <1>0, <1>3 DEF Play, PlayMerge, PlayMergeCrash, PlayNew, PlayReplace, Enter, Crash
<1>4. CASE Put
  BY <1>0, <1>4 DEF Put, PutCrash, Crash
<1>5. CASE Command
  <2>1. ASSUME NEW t, NEW op, op # "skip", Walk([op |-> op, target |-> t, arg |-> 0])
        PROVE  (cmd.op = "skip" => cmd.arg <= 2)'
    BY <1>0, <2>1 DEF Walk
  <2>2. ASSUME NEW t, NEW n \in SkipCounts, Walk([op |-> "skip", target |-> t, arg |-> n])
        PROVE  (cmd.op = "skip" => cmd.arg <= 2)'
    BY <1>0, <2>2 DEF Walk, Tame
  <2>3. ASSUME NEW t, NEW ch, Walk([op |-> "modify", target |-> t, arg |-> ch])
        PROVE  (cmd.op = "skip" => cmd.arg <= 2)'
    BY <1>0, <2>3 DEF Walk
  <2> QED BY <1>5, <2>1, <2>2, <2>3 DEF Command
<1>6. CASE \E s \in Sounds : SoundFound(s) \/ SoundLost(s)
  BY <1>0, <1>6 DEF SoundFound, SoundLost, Walk
<1>7. CASE Top \/ Wake \/ Tick \/ Reset \/ UNCHANGED vars
  BY <1>0, <1>7 DEF Top, Wake, Tick, Reset, vars
<1> QED BY <1>1, <1>2, <1>3, <1>4, <1>5, <1>6, <1>7 DEF Next, MainLoop, Client

(* No step makes the skip of an entry longer.                              *)
LEMMA SkipsShort ==
    ASSUME Tame, TypeOK, PlayInv, SafeInv, [Next]_vars
    PROVE  (\A c \in Cells : spool[c].skip_count <= 2)'
<1> DEFINE S == \A c \in Cells : spool'[c].skip_count <= 2
<1> SUFFICES S
  OBVIOUS
<1>0. /\ \A c \in Cells : spool[c].skip_count <= 2
      /\ cmd.op = "skip" => cmd.arg <= 2
  BY DEF SafeInv, ShortSkips
<1>a. ASSUME NEW c \in Cells, NEW e, spool' = [spool EXCEPT ![c] = e], e.skip_count <= 2
      PROVE  S
  BY <1>0, <1>a DEF TypeOK
<1>b. CASE spool' = spool
  BY <1>0, <1>b
<1>c. NullEntry.skip_count <= 2
  BY DEF NullEntry
<1>d. ASSUME NEW c \in Cells, Destroy(c) PROVE S
  <2>1. PICK e : e = NullEntry
    OBVIOUS
  <2> QED BY <1>a, <1>c, <1>d, <2>1 DEF Destroy
<1>e. \A c \in Cells : Typed(spool[c])
  BY EntryGet
<1>f. \A rq, i : NewEntry(rq, i).skip_count <= 2
  BY DEF NewEntry, NullEntry
<1>1. CASE Update
  <2>1. PICK c \in Cells : \/ UpdateFinish(c) \/ UpdateNext(c) \/ UpdateCrash(c)
                          \/ UpdateFill(c) \/ UpdatePass(c)
    BY <1>1 DEF Update
  <2>2. PICK e : e = Ended(spool[c])
    OBVIOUS
  <2>3. Typed(e) /\ e.skip_count <= 2
    BY <1>0, <1>e, <2>2, EndedTyped, SkipKept
  <2>4. CASE UpdateNext(c)
    <3>1. PICK a : a = Advanced(Turned(e))
      OBVIOUS
    <3>2. /\ e.state \in {"NEXT", "SKIP"} /\ ~Finished(Turned(e)) /\ ~PastListEnd(Turned(e))
          /\ spool' = [spool EXCEPT ![c] = Filled(Played(a))]
      BY <2>2, <2>4, <3>1 DEF UpdateNext
    <3>3. a.skip_count <= 2
      BY <2>3, <3>1, <3>2, TurnStays
    <3>4. Typed(a) /\ Typed(Played(a))
      BY <2>3, <3>1, <3>2, NextTyped, PlayedTyped
    <3>5. Filled(Played(a)).skip_count <= 2
      BY <3>3, <3>4, SkipKept
    <3> QED BY <1>a, <3>2, <3>5
  <2>5. CASE UpdateFill(c)
    BY <1>a, <2>2, <2>3, <2>5, SkipKept DEF UpdateFill
  <2> QED BY <1>b, <1>d, <2>1, <2>4, <2>5 DEF UpdateFinish, UpdateCrash, UpdatePass, Crash
<1>2. CASE Loop
  <2>1. PICK c \in Cells : Apply(c) \/ ReadyCrash(c) \/ Ignore
    BY <1>2 DEF Loop
  <2>2. ASSUME NEW e, spool[c] \in Entry, spool' = [spool EXCEPT ![c] = e],
               e.skip_count = spool[c].skip_count
        PROVE  S
    BY <1>0, <1>a, <2>2
  <2>3. spool[c] \in Entry
    BY <1>e DEF Typed
  <2>4. CASE Ignore \/ ReadyCrash(c)
    BY <1>b, <2>4 DEF Ignore, ReadyCrash, Crash
  <2>5. CASE spool_stop(c)
    BY <1>b, <1>d, <2>5 DEF spool_stop, Remove, Ignore
  <2>6. CASE spool_pause(c)
    BY <1>b, <2>2, <2>3, <2>6 DEF spool_pause, Ignore, Entry
  <2>7. CASE spool_continue(c)
    BY <1>b, <2>2, <2>3, <2>7 DEF spool_continue, Ignore, Entry
  <2>8. CASE spool_done(c)
    BY <1>b, <1>d, <2>2, <2>3, <2>8 DEF spool_done, Remove, Ignore, Entry
  <2>9. CASE spool_skip(c) /\ cmd.op = "skip"
    <3>1. CASE Ignore
      BY <2>4, <3>1
    <3>2. CASE ~Ignore
      <4>1. PICK b : b = (spool[c].state = "PAUSE")
        OBVIOUS
      <4>2. PICK e : e = [spool[c] EXCEPT !.state = "SKIP", !.skip_count = cmd.arg, !.auto_pause = b]
        OBVIOUS
      <4>3. spool' = [spool EXCEPT ![c] = e]
        BY <2>9, <3>2, <4>1, <4>2 DEF spool_skip, TypeOK
      <4>4. e.skip_count <= 2
        BY <1>0, <2>3, <2>9, <4>2 DEF Entry
      <4> QED BY <1>a, <4>3, <4>4
    <3> QED BY <3>1, <3>2
  <2>10. CASE spool_set(c)
    <3>1. CASE cmd.arg[1] = "count"
      <4>1. PICK v, n : v = cmd.arg[2] /\ n = [spool[c].count EXCEPT ![spool[c].curr_sound + 1] = v]
        OBVIOUS
      <4>2. PICK e : e = [spool[c] EXCEPT !.curr_count = v, !.count = n]
        OBVIOUS
      <4>3. spool' = [spool EXCEPT ![c] = e]
        BY <2>3, <2>10, <3>1, <4>1, <4>2 DEF spool_set, Entry, TypeOK
      <4>4. e.skip_count = spool[c].skip_count
        BY <2>3, <4>2 DEF Entry
      <4> QED BY <2>2, <2>3, <4>3, <4>4
    <3>2. CASE cmd.arg[1] # "count"
      <4>1. PICK v, p, m : v = cmd.arg[2] /\ p = [spool[c] EXCEPT !.priority = v]
                           /\ m = [spool[c] EXCEPT !.list_count = v]
        OBVIOUS
      <4>2. spool' = [spool EXCEPT ![c] = p] \/ spool' = [spool EXCEPT ![c] = m]
        BY <2>10, <3>2, <4>1 DEF spool_set
      <4>3. p.skip_count = spool[c].skip_count /\ m.skip_count = spool[c].skip_count
        BY <2>3, <4>1 DEF Entry
      <4> QED BY <2>2, <2>3, <4>2, <4>3
    <3> QED BY <3>1, <3>2
  <2>11. CASE spool_ready(c)
    BY <1>a, <1>b, <1>0, <1>e, <2>11, SkipKept DEF spool_ready, Ignore
  <2> QED BY <2>1, <2>4, <2>5, <2>6, <2>7, <2>8, <2>9, <2>10, <2>11 DEF Apply
<1>3. CASE Play
  <2>1. PICK rq \in Requests : \/ PlayMerge(rq) \/ PlayMergeCrash(rq)
                               \/ PlayNew(rq) \/ PlayReplace(rq)
    BY <1>3 DEF Play
  <2>2. CASE PlayMerge(rq)
    <3>1. PICK c \in Named(rq) : spool' = [spool EXCEPT ![c].snd = @ \o rq.snd,
                                                        ![c].count = @ \o rq.count]
      BY <2>2 DEF PlayMerge
    <3>2. c \in Cells /\ spool[c] \in Entry
      BY <1>e DEF Named, Live, Typed
    <3>3. PICK s, n : s = spool[c].snd \o rq.snd /\ n = spool[c].count \o rq.count
      OBVIOUS
    <3>4. PICK e : e = [spool[c] EXCEPT !.snd = s, !.count = n]
      OBVIOUS
    <3>5. spool' = [spool EXCEPT ![c] = e]
      BY <3>1, <3>2, <3>3, <3>4 DEF TypeOK
    <3>6. e.skip_count = spool[c].skip_count
      BY <3>2, <3>4 DEF Entry
    <3> QED BY <1>0, <1>a, <3>2, <3>5, <3>6
  <2>3. ASSUME NEW c \in Cells, NEW old, NEW ord, NEW rest, Enter(rq, c, old, ord, rest)
        PROVE  S
    <3>1. PICK i \in NewIds(Gone(c)) : \/ EnterWait(rq, c, old, i) \/ EnterPlay(rq, c, old, i)
                                       \/ EnterFail(rq, c, old, i)
      BY <2>3 DEF Enter
    <3>2. PICK n : n = NewEntry(rq, i)
      OBVIOUS
    <3>3. Typed(n) /\ n.skip_count <= 2
      <4>1. i \in Ids
        BY DEF NewIds
      <4>2. Typed(NewEntry(rq, i))
        BY <4>1, NewEntryTyped
      <4> QED BY <1>f, <3>2, <4>2
    <3>4. CASE EnterWait(rq, c, old, i)
      <4>1. PICK e : e = [n EXCEPT !.state = "WAIT"]
        OBVIOUS
      <4>2. e.skip_count <= 2
        BY <3>3, <4>1 DEF Typed, Entry
      <4> QED BY <1>a, <3>2, <3>4, <4>1, <4>2 DEF EnterWait
    <3>5. CASE EnterPlay(rq, c, old, i)
      <4>1. Played(n).skip_count <= 2
        BY <3>3, SkipKept
      <4> QED BY <1>a, <3>2, <3>5, <4>1 DEF EnterPlay
    <3>6. CASE EnterFail(rq, c, old, i)
      <4>1. PICK e : e = NullEntry
        OBVIOUS
      <4> QED BY <1>a, <1>c, <3>6, <4>1 DEF EnterFail, Gone
    <3> QED BY <3>1, <3>4, <3>5, <3>6
  <2>4. CASE PlayNew(rq) \/ PlayReplace(rq)
    BY <2>3, <2>4 DEF PlayNew, PlayReplace
  <2> QED BY <1>b, <2>1, <2>2, <2>4 DEF PlayMergeCrash, Crash
<1>4. CASE Put
  <2>1. PICK c \in Cells : \/ PutFirst(c) \/ PutUnmapped(c) \/ PutMore(c) \/ PutCrash(c)
    BY <1>4 DEF Put, Live
  <2>2. PICK f : f = Feed(spool[c])
    OBVIOUS
  <2>3. Typed(f) /\ f.skip_count <= 2
    BY <1>0, <1>e, <2>2, FeedTyped, SkipKept
  <2>4. CASE PutFirst(c)
    BY <1>a, <2>2, <2>3, <2>4, SkipKept DEF PutFirst
  <2>5. CASE PutMore(c)
    <3>1. PICK s : s = IF f.state = "WAIT" THEN "PLAY" ELSE f.state
      OBVIOUS
    <3>2. PICK e : e = [f EXCEPT !.state = s]
      OBVIOUS
    <3>3. spool' = [spool EXCEPT ![c] = e]
      BY <2>2, <2>3, <2>5, <3>1, <3>2 DEF PutMore, Typed, Entry
    <3>4. e.skip_count = f.skip_count
      BY <2>3, <3>2 DEF Typed, Entry
    <3> QED BY <1>a, <2>3, <3>3, <3>4
  <2> QED BY <1>b, <1>d, <2>1, <2>4, <2>5 DEF PutUnmapped, PutCrash, Remove, Crash
<1>5. CASE Tick
  BY <1>0, <1>5, <1>e, SkipKept DEF Tick
<1>6. CASE Reset
  BY <1>6, <1>c DEF Reset
<1>7. CASE Top \/ Wake \/ Command \/ (\E s \in Sounds : SoundFound(s) \/ SoundLost(s)) \/ UNCHANGED vars
  BY <1>b, <1>7 DEF Top, Wake, Command, SoundFound, SoundLost, Walk, vars
<1> QED BY <1>1, <1>2, <1>3, <1>4, <1>5, <1>6, <1>7 DEF Next, MainLoop, Client

(* Where every sound is here and can be opened, no data follows the end of *)
(* a flow and no skip overshoots its list by more than one, rplayd follows *)
(* no NULL and no freed pointer in the spool: whatever the interleaving of *)
(* the commands, the timer handler and the walks over the list.            *)
THEOREM NoListCrashes == Tame => (Spec => []NoCrash)
<1> SUFFICES ASSUME Tame PROVE Spec => []NoCrash
  OBVIOUS
<1> DEFINE K == TypeOK /\ PlayInv /\ SafeInv
<1>1. Init => K
  <2> SUFFICES ASSUME Init PROVE SafeInv
    BY InitTyped, InitCounts
  <2>1. NoCrash
    BY DEF Init, NoCrash
  <2>2. FilesReady
    BY DEF Init, InitStatus, FilesReady, Tame, Files
  <2>3. \A c \in Cells : spool[c].skip_count = 0
    BY DEF Init, NullEntry
  <2>4. ShortSkips
    BY <2>3 DEF Init, NoCmd, ShortSkips
  <2> QED BY <2>1, <2>2, <2>4 DEF SafeInv
<1>2. K /\ [Next]_vars => K'
  <2> SUFFICES ASSUME K, [Next]_vars PROVE SafeInv'
    BY NextTypes, NextCounts
  <2>1. NoCrash'
    BY NeverCrashes
  <2>2. FilesReady'
    BY ReadyKept DEF SafeInv
  <2>3. (cmd.op = "skip" => cmd.arg <= 2)'
    BY CommandsShort DEF SafeInv
  <2>4. (\A c \in Cells : spool[c].skip_count <= 2)'
    BY SkipsShort
  <2> QED BY <2>1, <2>2, <2>3, <2>4 DEF SafeInv, ShortSkips
<1>3. K => NoCrash
  BY DEF SafeInv
<1> QED BY <1>1, <1>2, <1>3, PTL DEF Spec

=============================================================================
