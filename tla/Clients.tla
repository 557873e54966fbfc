------------------------------ MODULE Clients ------------------------------
(***************************************************************************)
(* The clients of rplayd: the connections and their event queues           *)
(* (rplayd/connection.c), the RPTP commands (rplayd/command.c), the replies*)
(* and notifications they cause, and the audio monitor.                    *)
(*                                                                         *)
(* A client connection is a queue of events; only its head is worked on.   *)
(* An action is what connection_update and event_update do for one ready   *)
(* connection, a command and everything it sends included, or one change   *)
(* of a spool entry.  Texts are abstract: a reply (+ or -), a notification *)
(* (?), the answer to a wait.  A line is read, and a buffer is written, in *)
(* one piece.  Entries hold one sound; Spool has them in full.             *)
(*                                                                         *)
(* Whether a host has the access a command asks for is a free choice each  *)
(* time: rplay.hosts may change at any moment.                             *)
(*                                                                         *)
(* A definition D_Word next to D is D with a plausible mistake in it.  No  *)
(* definition uses it: each is put in the place of D to see that the       *)
(* properties notice.                                                      *)
(***************************************************************************)
EXTENDS Integers, Sequences, FiniteSets, SequencesExt

CONSTANTS
    Hosts,            \* clients that may connect
    SPOOL_MAX_ID,     \* ids of spool entries are 1..SPOOL_MAX_ID
    RPTP_MAX_CONNECTIONS,
    EventLists,       \* lists of events given to wait and set, see do_events
    Words,            \* the commands each client gives, see Line
    BufferTexts,      \* texts that fit into one buffer
    KeptBuffers,      \* "help", "servers", "hosts": buffers kept for all
    MaxEvents         \* bound: nobody is notified behind a longer queue

ASSUME HostAssumption == IsFiniteSet(Hosts) /\ Cardinality(Hosts) > 1
ASSUME IdAssumption == SPOOL_MAX_ID \in Nat \ {0}
ASSUME LimitAssumption == /\ RPTP_MAX_CONNECTIONS \in Nat /\ BufferTexts \in Nat \ {0}
                          /\ MaxEvents \in Nat

Ids == 1..SPOOL_MAX_ID
NoList == [clear |-> FALSE, add |-> {}, drop |-> {}, id |-> 0]

VARIABLES
    conn,             \* the client connections, see NoConn
    spool,            \* spool[i]: state of the entry with id i, or none
    last_id,          \* the static id of spool_id
    prev,             \* prev_play and prev_pause of connection_notify
    kept,             \* kept[b]: texts appended to the kept buffer b
    need_to_reset,
    monitor_count,
    ring,             \* monitor_buffers is allocated
    monitor_update

monitor == <<monitor_count, ring, monitor_update>>
vars == <<conn, spool, last_id, prev, kept, need_to_reset, monitor>>

-----------------------------------------------------------------------------
(* Events.                                                                 *)

Kinds == {"play", "pause", "continue", "stop", "done", "skip", "modify",
          "volume", "state"}
AboutEntry == Kinds \ {"volume", "state"}
NOTIFY_SPOOL == AboutEntry
ASSUME EventAssumption == EventLists \subseteq
    [clear : BOOLEAN, add : SUBSET Kinds, drop : SUBSET Kinds, id : Nat]

EventTypes == {"READ_COMMAND", "WRITE", "WRITE_SOUND", "NOTIFY", "WRITE_TIMEOUT",
               "WAIT_MONITOR", "WRITE_MONITOR"}

NotKept == ""

(* id and wait (wait_mask) belong to NOTIFY; own: the entry waited for is  *)
(* the client's own.  The rest belongs to WRITE: n texts are in its buffer,*)
(* has tells which of the ones of interest; keep: which kept buffer it is;  *)
(* more: another buffer follows.                                           *)
Event(t) == [type |-> t, id |-> 0, wait |-> {}, own |-> FALSE,
             n |-> 0, has |-> {}, keep |-> NotKept, more |-> FALSE]
Texts == {"reply", "wrong"}
Write(text) == [Event("WRITE") EXCEPT !.n = 1, !.has = {text} \cap Texts]
WaitFor(kinds, i, own) ==
    [Event("NOTIFY") EXCEPT !.wait = kinds, !.id = i, !.own = own]

(* mask and id: notify_mask and notify_id.  answered, blank: history, was  *)
(* the last command answered, and was it a line of blanks?                 *)
NoConn == [open |-> FALSE, q |-> <<>>, mask |-> {}, id |-> 0, monitor |-> FALSE,
           answered |-> TRUE, blank |-> FALSE]

(* event_insert and event_replace.                                         *)
event_insert(c, e) == [c EXCEPT !.q = Append(@, e)]
event_replace(c, e) == [c EXCEPT !.q = <<e>> \o (IF @ = <<>> THEN @ ELSE Tail(@))]

(* event_first of a reply: connection_reply.                               *)
connection_reply(c) ==
    [c EXCEPT !.q = <<Write("reply")>> \o @, !.answered = TRUE]
(* A reply that is inserted behind what is queued.                         *)
InsertReply(c, e) == [event_insert(c, e) EXCEPT !.answered = TRUE]

(* event_insert_before: in front of the first event that reads.            *)
Reads(e) == e.type = "READ_COMMAND"
event_insert_before(c, e) ==
    LET k == CHOOSE n \in 1..(Len(c.q) + 1) :
                 /\ n <= Len(c.q) => Reads(c.q[n])
                 /\ \A m \in 1..(n - 1) : ~Reads(c.q[m])
    IN [c EXCEPT !.q = InsertAt(@, k, e)]

(* event_delete with replace: an empty queue gets its next event.          *)
event_delete_NoRefill(c) == [c EXCEPT !.q = Tail(@)]
event_delete(c) ==
    LET rest == Tail(c.q)
        next == IF c.mask # {} THEN Event("NOTIFY") ELSE Event("READ_COMMAND")
    IN [c EXCEPT !.q = IF rest = <<>> THEN <<next>> ELSE rest, !.blank = FALSE]

-----------------------------------------------------------------------------
(* connection_notify.                                                      *)

HeadOf(c) == IF c.q = <<>> THEN Event("NONE") ELSE Head(c.q)

(* Is c to be told of k, about entry i?                                    *)
Wants(c, k, i) ==
    /\ c.open /\ (k \in c.mask \/ k \in HeadOf(c).wait)
    /\ k \in AboutEntry => c.id \in {0, i} \/ HeadOf(c).id = i

(* What connection_notify changes: the connections, its static variables   *)
(* and the kept buffer.                                                    *)
State(cn) == [conn |-> cn, prev |-> prev, kept |-> kept]

(* One text for h: appended to a last event that writes and has room, else *)
(* in a new event in the place of a NOTIFY, or before what reads.  A text  *)
(* in the kept buffer stays there.                                         *)
Full(m, e) == (IF e.keep # NotKept THEN 1 + m.kept[e.keep] ELSE e.n) >= BufferTexts
AddText(n, h, text) ==
    LET c == n.conn[h]
        e == Last(c.q)
    IN IF c.q # <<>> /\ e.type = "WRITE" /\ ~Full(n, e)
       THEN [n EXCEPT !.conn[h].q[Len(c.q)] =
                          [e EXCEPT !.n = @ + 1, !.has = @ \cup ({text} \cap Texts)],
                      !.kept = IF e.keep # NotKept
                               THEN [n.kept EXCEPT ![e.keep] = @ + 1] ELSE n.kept]
       ELSE [n EXCEPT !.conn[h] =
                IF HeadOf(c).type = "NOTIFY"
                THEN event_replace(c, Write(text))
                ELSE event_insert_before(c, Write(text))]

(* The answer to a wait, and whether it is about the entry waited for.     *)
Answer(c, k, i) ==
    IF k = "done" /\ HeadOf(c).id \notin {0, i} THEN "wrong" ELSE "answer"

Notified(n, h, k, i) ==
    LET c == n.conn[h]
        n1 == IF k \in HeadOf(c).wait
              THEN [AddText(n, h, Answer(c, k, i)) EXCEPT
                       !.conn[h].answered = TRUE]
              ELSE n
    IN IF k \in c.mask THEN AddText(n1, h, "note") ELSE n1

Note(k, i) == [kind |-> k, id |-> i]
Tell(n, h, k, i) == IF Wants(n.conn[h], k, i) THEN Notified(n, h, k, i) ELSE n
Told(n, k, i, only) ==
    LET hs == SetToSeq(only)
        told[j \in 0..Len(hs)] == IF j = 0 THEN n ELSE Tell(told[j - 1], hs[j], k, i)
    IN told[Len(hs)]

(* now is the server's state, which a STATE notification reports at the    *)
(* end when it has changed, or when only one connection is notified.       *)
StateTold(n, note, now, only) ==
    IF note.kind # "state" /\ (n.prev # now \/ only # Hosts)
    THEN [Told(n, "state", 0, only) EXCEPT !.prev = now]
    ELSE n
connection_notify(n, note, now, only) ==
    StateTold(Told(n, note.kind, note.id, only), note, now, only)

Notes(n, notes, now, only) ==
    LET sent[j \in 0..Len(notes)] ==
            IF j = 0 THEN n ELSE connection_notify(sent[j - 1], notes[j], now, only)
    IN sent[Len(notes)]

(* spool_nplaying and spool_npaused.  prev_volume is not a variable: every *)
(* change of the volume is notified at once, as new.                       *)
Playing(sp) == Cardinality({i \in Ids : sp[i] \in {"PLAY", "SKIP"}})
Paused(sp) == Cardinality({i \in Ids : sp[i] = "PAUSE"})
Now(sp) == <<Playing(sp), Paused(sp)>>
New == <<-1, -1>>

(* Bound: everything that notifies waits until the queues are short.       *)
Room == \A h \in Hosts : Len(conn[h].q) <= MaxEvents

(* The step makes what connection_notify changes into n.                   *)
Leaves(n) == conn' = n.conn /\ prev' = n.prev /\ kept' = n.kept

(* The step of a handler that sends notes to all and leaves sp.            *)
Send(cn, sp, notes) ==
    Room /\ Leaves(Notes(State(cn), notes, Now(sp), Hosts)) /\ spool' = sp

(* A volume notification; the volume may be a new one.                     *)
VolumeNote(n, fresh) ==
    Notes(IF fresh THEN [n EXCEPT !.prev = New] ELSE n,
          <<Note("volume", 0)>>, Now(spool), Hosts)

-----------------------------------------------------------------------------
(* Connections.                                                            *)

(* connection_client_open: the greeting is the answer to the connection.   *)
connection_client_open(h) ==
    /\ ~conn[h].open
    /\ Cardinality({x \in Hosts : conn[x].open}) + 1 # RPTP_MAX_CONNECTIONS
    /\ conn' = [conn EXCEPT ![h] =
                   [NoConn EXCEPT !.open = TRUE, !.q = <<Write("reply")>>]]
    /\ UNCHANGED <<spool, last_id, prev, kept, monitor_count, ring, monitor_update, need_to_reset>>

(* connection_close.                                                       *)
Close(h) ==
    /\ conn' = [conn EXCEPT ![h] = NoConn]
    /\ monitor_count' = IF conn[h].monitor THEN monitor_count - 1 ELSE monitor_count

(* The client goes away: a read or a write fails.  What a monitor client   *)
(* sends closes it too.                                                    *)
Hangup(h) ==
    /\ conn[h].open /\ conn[h].q # <<>>
    /\ Close(h)
    /\ UNCHANGED <<spool, last_id, prev, kept, ring, monitor_update, need_to_reset>>

(* connection_check_timeout and connection_timeout of an idle client.      *)
connection_timeout(h) ==
    /\ conn[h].open
    /\ HeadOf(conn[h]).type \notin {"NOTIFY", "WAIT_MONITOR", "WRITE_TIMEOUT"}
    /\ conn' = [conn EXCEPT ![h] = event_replace(@, Event("WRITE_TIMEOUT"))]
    /\ UNCHANGED <<spool, last_id, prev, kept, monitor_count, ring, monitor_update, need_to_reset>>

(* The write events of connection_update and event_update.                 *)
Written(h) ==
    /\ \/ /\ HeadOf(conn[h]).type = "WRITE" /\ Head(conn[h].q).more
          /\ conn' = [conn EXCEPT ![h].q[1] = Write("rest")]
          /\ UNCHANGED monitor_count
       \/ /\ HeadOf(conn[h]).type = "WRITE" /\ ~Head(conn[h].q).more
          /\ conn' = [conn EXCEPT ![h] = event_delete(@)]
          /\ UNCHANGED monitor_count
       \/ /\ HeadOf(conn[h]).type = "WRITE_SOUND"
          /\ conn' = [conn EXCEPT ![h] = event_delete(@)]
          /\ UNCHANGED monitor_count
       \/ /\ HeadOf(conn[h]).type = "WRITE_TIMEOUT"
          /\ Close(h)
    /\ UNCHANGED <<spool, last_id, prev, kept, ring, monitor_update, need_to_reset>>

(* A monitor buffer is written; connection_monitor_pause when the next one *)
(* is still being filled.                                                  *)
MonitorWritten(h) ==
    /\ HeadOf(conn[h]).type = "WRITE_MONITOR"
    /\ \/ conn' = [conn EXCEPT ![h].q[1].type = "WAIT_MONITOR"]
       \/ UNCHANGED conn
    /\ UNCHANGED <<spool, last_id, prev, kept, monitor_count, ring, monitor_update, need_to_reset>>

-----------------------------------------------------------------------------
(* Lines.  The event that read the line is deleted without a replacement   *)
(* before the command runs; a NOTIFY has become a READ_COMMAND by then.    *)

CanRead(h) == conn[h].open /\ HeadOf(conn[h]).type \in {"READ_COMMAND", "NOTIFY"}
Took(h) == [conn[h] EXCEPT !.q = Tail(@), !.answered = FALSE, !.blank = FALSE]
With(h, c) == [conn EXCEPT ![h] = c]
Only == <<spool, last_id, prev, kept, monitor_count, ring, monitor_update, need_to_reset>>

(* The beginning of a line ends a wait.                                    *)
PartialLine(h) ==
    /\ CanRead(h) /\ HeadOf(conn[h]).type = "NOTIFY"
    /\ conn' = With(h, [event_replace(conn[h], Event("READ_COMMAND")) EXCEPT
                            !.answered = TRUE])
    /\ UNCHANGED Only

(* A line of no characters.                                                *)
EmptyLine(h) ==
    /\ CanRead(h)
    /\ conn' = With(h, [event_delete(conn[h]) EXCEPT !.answered = TRUE])
    /\ UNCHANGED Only

(* A line of blanks is no command: command returns 0.                      *)
BlankLine(h) ==
    /\ CanRead(h)
    /\ conn' = With(h, [Took(h) EXCEPT !.answered = TRUE, !.blank = TRUE])
    /\ UNCHANGED Only

-----------------------------------------------------------------------------
(* Commands that only reply.  An error of any other command is the same.   *)

Reply(h) ==
    /\ CanRead(h)
    /\ conn' = With(h, connection_reply(Took(h)))
    /\ UNCHANGED Only

command_unknown(h) == Reply(h)
command_find(h) == Reply(h)
command_access(h) == Reply(h)
command_info(h) == Reply(h)
command_version(h) == Reply(h)
command_application(h) == Reply(h)

command_quit(h) ==
    /\ CanRead(h) /\ Close(h)
    /\ UNCHANGED <<spool, last_id, prev, kept, ring, monitor_update, need_to_reset>>

(* A text that is one buffer for everybody.                                *)
ReplyKept(h, b) ==
    /\ CanRead(h) /\ b \in KeptBuffers
    /\ conn' = With(h, InsertReply(Took(h),
          [Write("reply") EXCEPT !.n = 1 + kept[b], !.keep = b]))
    /\ UNCHANGED Only
command_help(h) == ReplyKept(h, "help")

(* The buffers of a listing: a line for each, the first and last line being*)
(* taken for one.                                                          *)
Listing(lines) == [Write("reply") EXCEPT !.n = IF lines < BufferTexts THEN lines + 1
                                              ELSE BufferTexts,
                                         !.more = lines >= BufferTexts]
connection_list_create == Listing(Cardinality({h \in Hosts : conn[h].open}))
spool_list_create == Listing(Cardinality({i \in Ids : spool[i] # "none"}))
sound_list_create == {Listing(0), Listing(BufferTexts)}

command_list(h) ==
    \/ /\ CanRead(h)
       /\ \E e \in sound_list_create \cup {connection_list_create, spool_list_create} :
             conn' = With(h, InsertReply(Took(h), e))
       /\ UNCHANGED Only
    \/ \E b \in KeptBuffers \ {"help"} : ReplyKept(h, b)
    \/ Reply(h)

rplayd_status == Write("reply")
command_status(h) ==
    /\ CanRead(h)
    /\ conn' = With(h, InsertReply(Took(h), rplayd_status))
    /\ UNCHANGED Only

(* A reset is only noted; the reply is queued, and lost with the rest.     *)
command_reset(h) ==
    /\ CanRead(h)
    /\ conn' = With(h, connection_reply(Took(h)))
    /\ need_to_reset' = TRUE
    /\ UNCHANGED <<spool, last_id, prev, kept, monitor>>

command_get(h) ==
    /\ CanRead(h)
    /\ conn' = With(h, event_insert(connection_reply(Took(h)), Event("WRITE_SOUND")))
    /\ UNCHANGED Only

(* The OBSOLETE volume.  Without a current volume, a relative one is       *)
(* answered twice.                                                         *)
command_volume(h) ==
    /\ CanRead(h)
    /\ \/ Reply(h) /\ Room
       \/ /\ Room
          /\ \E fresh \in BOOLEAN, c \in {Took(h), connection_reply(Took(h))} :
               Leaves(VolumeNote(State(With(h, connection_reply(c))), fresh))
          /\ UNCHANGED <<spool, last_id, monitor_count, ring, monitor_update, need_to_reset>>
       \/ /\ conn' = With(h, connection_reply(connection_reply(Took(h))))
          /\ UNCHANGED Only

-----------------------------------------------------------------------------
(* The spool, with the notifications of its operations.                    *)

(* spool_id: the next id that is not in use.                               *)
spool_id ==
    LET after(n) == ((last_id + n - 1) % SPOOL_MAX_ID) + 1
        free == {n \in 1..SPOOL_MAX_ID : spool[after(n)] = "none"}
    IN after(CHOOSE n \in free : \A m \in free : n <= m)
HasFree == \E i \in Ids : spool[i] = "none"

Set(i, st) == [spool EXCEPT ![i] = st]

(* spool_play of a new entry, or its wait for a sound that is not ready.   *)
(* cn: the connections before it; then(cn): with what follows it.          *)
rplayd_play(cn, then(_)) ==
    /\ HasFree /\ Room /\ last_id' = spool_id
    /\ \E st \in {"PLAY", "WAIT"} :
         LET sp == Set(spool_id, st)
             n == Notes(State(cn), IF st = "PLAY" THEN <<Note("play", spool_id)>> ELSE <<>>,
                        Now(sp), Hosts)
         IN /\ spool' = sp /\ prev' = n.prev /\ kept' = n.kept
            /\ conn' = then(n.conn)
    /\ UNCHANGED <<monitor_count, ring, monitor_update, need_to_reset>>

Notice_NoDone(i, st) ==
    CASE st = "stop" -> <<Note("stop", i)>>
      [] st = "end" -> <<Note("done", i)>>
      [] st = "PAUSE" -> <<Note("pause", i)>>
      [] st = "PLAY" -> <<Note("continue", i)>>
      [] st \in {"SKIP", "SKIP_PAUSED"} -> <<Note("skip", i)>>
Notice(i, st) ==
    CASE st = "stop" -> <<Note("stop", i), Note("done", i)>>
      [] st = "end" -> <<Note("done", i)>>
      [] st = "PAUSE" -> <<Note("pause", i)>>
      [] st = "PLAY" -> <<Note("continue", i)>>
      [] st \in {"SKIP", "SKIP_PAUSED"} -> <<Note("skip", i)>>

(* What spool_stop, spool_done, spool_pause, spool_continue and spool_skip *)
(* make of an entry; nothing in the states they ignore.                    *)
Becomes(op, st) ==
    CASE op = "stop" /\ st \in {"PLAY", "PAUSE", "WAIT"} -> "stop"
      [] op = "done" /\ st \in {"PLAY", "PAUSE", "WAIT"} -> "end"
      [] op = "pause" /\ st = "PLAY" -> "PAUSE"
      [] op = "continue" /\ st = "PAUSE" -> "PLAY"
      [] op = "skip" /\ st = "PLAY" -> "SKIP"
      [] op = "skip" /\ st = "PAUSE" -> "SKIP_PAUSED"
      [] OTHER -> st
Gone(st) == IF st \in {"stop", "end"} THEN "none" ELSE st

Operate(cn, op, i, then(_)) ==
    LET st == Becomes(op, spool[i])
        sp == Set(i, Gone(st))
        n == Notes(State(cn), IF st = spool[i] THEN <<>> ELSE Notice(i, st),
                   Now(sp), Hosts)
    IN /\ Room /\ spool[i] # "none"
       /\ spool' = sp /\ prev' = n.prev /\ kept' = n.kept /\ conn' = then(n.conn)
       /\ UNCHANGED <<last_id, monitor_count, ring, monitor_update, need_to_reset>>

Untouched(cn) == cn
Replied_Forgets(h, cn) == cn
Replied(h, cn) == [cn EXCEPT ![h] = connection_reply(@)]

(* do_execute refuses: a host without access, an attribute that rplay_set  *)
(* does not take.                                                          *)
RefuseAttribute(h) == Reply(h)
(* In the old style: no sound at all, or again rplay_set.                  *)
RefuseOldStyle(h) == Reply(h)

(* command_execute: play, stop, pause, continue and done.                  *)
command_execute(h) ==
    /\ CanRead(h)
    /\ LET then(cn) == Replied(h, cn)
       IN \/ RefuseAttribute(h) \/ RefuseOldStyle(h)
          \/ rplayd_play(With(h, Took(h)), then)
          \/ \E op \in {"stop", "pause", "continue", "done"}, i \in Ids :
                Operate(With(h, Took(h)), op, i, then)

command_skip(h) ==
    /\ CanRead(h)
    /\ LET then(cn) == Replied(h, cn)
       IN \E i \in Ids : Operate(With(h, Took(h)), "skip", i, then)

command_modify(h) ==
    /\ CanRead(h) /\ Room
    /\ \E i \in Ids :
         /\ spool[i] # "none"
         /\ LET n == Notes(State(With(h, Took(h))), <<Note("modify", i)>>,
                           Now(spool), Hosts)
            IN /\ conn' = Replied(h, n.conn) /\ prev' = n.prev /\ kept' = n.kept
    /\ UNCHANGED <<spool, last_id, monitor_count, ring, monitor_update, need_to_reset>>

(* rplayd_read: the same by datagram, without a reply.                     *)
rplayd_read ==
    \/ rplayd_play(conn, Untouched)
    \/ \E op \in {"stop", "pause", "continue", "done"}, i \in Ids :
          Operate(conn, op, i, Untouched)

(* spool_ready and spool_remove of the sound an entry waits for.           *)
SoundCame(i) ==
    /\ spool[i] = "WAIT"
    /\ \/ Send(conn, Set(i, "PLAY"), <<Note("play", i)>>)
       \/ Send(conn, Set(i, "none"), <<Note("done", i)>>)
    /\ UNCHANGED <<last_id, monitor_count, ring, monitor_update, need_to_reset>>

(* spool_update at the end of an entry's sound, and of a skipped entry,    *)
(* which may be over or play again, paused again if it was.                *)
EntryEnds(i) ==
    /\ \/ /\ spool[i] = "PLAY"
          /\ Send(conn, Set(i, "none"), <<Note("done", i)>>)
       \/ /\ spool[i] \in {"SKIP", "SKIP_PAUSED"} /\ Room
          /\ LET n == Notes(State(conn), <<Note("done", i)>>,
                            Now(Set(i, "none")), Hosts)
                 n1 == Notes(n, <<Note("play", i)>>, Now(Set(i, "PLAY")), Hosts)
                 n2 == IF spool[i] = "SKIP" THEN n1
                       ELSE Notes(n1, <<Note("pause", i)>>,
                                  Now(Set(i, "PAUSE")), Hosts)
             IN \/ /\ spool' = Set(i, "none")
                   /\ Leaves(n)
                \/ /\ spool' = Set(i, IF spool[i] = "SKIP" THEN "PLAY" ELSE "PAUSE")
                   /\ Leaves(n2)
    /\ UNCHANGED <<last_id, monitor_count, ring, monitor_update, need_to_reset>>

-----------------------------------------------------------------------------
(* wait, set and monitor.                                                  *)

(* do_events: add and drop are lists of events, clear a `none' among them, *)
(* and id a #id.                                                           *)
do_events(mask, ev) ==
    LET m == ((IF ev.clear THEN {} ELSE mask) \cup ev.add) \ ev.drop
    IN IF ev.id # 0 /\ m = {} THEN NOTIFY_SPOOL ELSE m

command_wait(h) ==
    /\ CanRead(h)
    /\ \/ /\ \/ conn' = With(h, event_insert(Took(h), WaitFor(Kinds, 0, FALSE)))
             \/ \E i \in Ids :
                  conn' = With(h, event_insert(Took(h), WaitFor({"done"}, i, FALSE)))
             \/ \E ev \in EventLists :
                  conn' = With(h, event_insert(Took(h),
                                    WaitFor(do_events({}, ev), ev.id, FALSE)))
          /\ UNCHANGED Only
       \/ LET then(cn) == [cn EXCEPT ![h] =
                              event_insert(@, WaitFor({"done"}, spool_id, TRUE))]
          IN rplayd_play(With(h, Took(h)), then)

(* set notify=: the reply, the state of every entry for this client, and a *)
(* NOTIFY event, in this order.                                            *)
Status(i) == IF spool[i] = "PLAY" THEN <<Note("play", i)>>
             ELSE IF spool[i] = "PAUSE" THEN <<Note("pause", i)>> ELSE <<>>
Shown(h, cn) ==
    LET shown[i \in 0..SPOOL_MAX_ID] ==
            IF i = 0 THEN State(cn) ELSE Notes(shown[i - 1], Status(i), Now(spool), {h})
    IN shown[SPOOL_MAX_ID]
Enabled(h, cn) ==
    LET n == Notes(Shown(h, cn), <<Note("volume", 0)>>, Now(spool), {h})
    IN [n EXCEPT !.conn[h] = event_insert(@, Event("NOTIFY"))]

(* command_set.  ev: notify=, vol: volume=, st: a new priority-threshold   *)
(* or audio-port; any of them may be missing.  After notify= the new       *)
(* volume is no news any more to the STATE notification.                   *)
command_set(h) ==
    /\ CanRead(h) /\ Room
    /\ \E ev \in EventLists \cup {NoList}, vol, fresh, st \in BOOLEAN :
         LET mask == do_events(conn[h].mask, ev)
             c == IF ev = NoList THEN Took(h)
                  ELSE [Took(h) EXCEPT !.mask = mask, !.id = ev.id]
             cn == With(h, InsertReply(c, Write("reply")))
             on == ev # NoList /\ mask # {}
             n == IF on THEN Enabled(h, cn) ELSE State(cn)
             n1 == IF vol THEN VolumeNote(n, fresh /\ ~on) ELSE n
             n2 == IF st THEN Notes(n1, <<Note("state", 0)>>, Now(spool), Hosts) ELSE n1
         IN Leaves(n2)
    /\ UNCHANGED <<spool, last_id, monitor_count, ring, monitor_update, need_to_reset>>

(* command_monitor and monitor_alloc.                                      *)
command_monitor_WaitFirst(h) ==
    /\ CanRead(h)
    /\ ring' = TRUE
    /\ monitor_update' = IF monitor_count = 0 THEN FALSE ELSE monitor_update
    /\ monitor_count' = monitor_count + 1
    /\ conn' = With(h, [InsertReply(event_insert(Took(h), Event("WAIT_MONITOR")),
                                    Write("reply")) EXCEPT !.monitor = TRUE])
    /\ UNCHANGED <<spool, last_id, prev, kept, need_to_reset>>
command_monitor(h) ==
    /\ CanRead(h)
    /\ ring' = TRUE
    /\ monitor_update' = IF monitor_count = 0 THEN FALSE ELSE monitor_update
    /\ monitor_count' = monitor_count + 1
    /\ conn' = With(h, [event_insert(connection_reply(Took(h)), Event("WAIT_MONITOR"))
                           EXCEPT !.monitor = TRUE])
    /\ UNCHANGED <<spool, last_id, prev, kept, need_to_reset>>

(* rplayd_write, in the timer handler: a monitor buffer is complete.       *)
rplayd_write ==
    /\ monitor_count > 0 /\ Playing(spool) > 0
    /\ monitor_update' = TRUE
    /\ UNCHANGED <<conn, spool, last_id, prev, kept, monitor_count, ring, need_to_reset>>

(* doit: connection_monitor_continue.                                      *)
connection_monitor_continue ==
    /\ monitor_count > 0 /\ monitor_update /\ Playing(spool) > 0
    /\ monitor_update' = FALSE
    /\ conn' = [h \in Hosts |-> [conn[h] EXCEPT !.q =
                  [k \in DOMAIN @ |-> IF @[k].type = "WAIT_MONITOR"
                                     THEN [@[k] EXCEPT !.type = "WRITE_MONITOR"] ELSE @[k]]]]
    /\ UNCHANGED <<spool, last_id, prev, kept, monitor_count, ring, need_to_reset>>

(* doit enters idle mode and frees the monitor buffers: monitor_cleanup.   *)
connection_idle ==
    \A h \in Hosts : conn[h].open =>
        \/ conn[h].q = <<>> \/ conn[h].monitor \/ HeadOf(conn[h]).type = "NOTIFY"
EnterIdle_Always ==
    /\ Playing(spool) = 0 /\ connection_idle /\ ring
    /\ ring' = FALSE
    /\ UNCHANGED <<conn, spool, last_id, prev, kept, monitor_count, monitor_update, need_to_reset>>
EnterIdle ==
    /\ Playing(spool) = 0 /\ connection_idle /\ ring /\ monitor_count = 0
    /\ ring' = FALSE
    /\ UNCHANGED <<conn, spool, last_id, prev, kept, monitor_count, monitor_update, need_to_reset>>

(* The top of doit: reset, with spool_init and connection_cleanup.  The    *)
(* static variables stay as they are.                                      *)
reset ==
    /\ need_to_reset /\ need_to_reset' = FALSE
    /\ spool' = [i \in Ids |-> "none"]
    /\ conn' = [h \in Hosts |-> NoConn]
    /\ monitor_count' = monitor_count - Cardinality({h \in Hosts : conn[h].monitor})
    /\ UNCHANGED <<last_id, prev, kept, ring, monitor_update>>

-----------------------------------------------------------------------------
Init ==
    /\ conn = [h \in Hosts |-> NoConn]
    /\ spool = [i \in Ids |-> "none"] /\ last_id = 0
    /\ prev = <<-1, -1>> /\ kept = [b \in KeptBuffers |-> 0]
    /\ need_to_reset = FALSE
    /\ monitor_count = 0 /\ ring = FALSE /\ monitor_update = FALSE

Says(h, word) == word \in Words[h]
Line(h) ==
    \/ PartialLine(h) \/ command_quit(h)
    \/ Says(h, "empty") /\ (EmptyLine(h) \/ BlankLine(h))
    \/ Says(h, "info") /\ \/ command_unknown(h) \/ command_find(h) \/ command_access(h)
                          \/ command_info(h) \/ command_version(h)
                          \/ command_application(h)
    \/ Says(h, "help") /\ command_help(h)
    \/ Says(h, "list") /\ (command_list(h) \/ command_status(h))
    \/ Says(h, "get") /\ command_get(h)
    \/ Says(h, "volume") /\ command_volume(h)
    \/ Says(h, "execute") /\ (command_execute(h) \/ command_skip(h) \/ command_modify(h))
    \/ Says(h, "wait") /\ command_wait(h)
    \/ Says(h, "set") /\ command_set(h)
    \/ Says(h, "monitor") /\ command_monitor(h)
    \/ Says(h, "reset") /\ command_reset(h)

Next ==
    \/ \E h \in Hosts :
          \/ connection_client_open(h) \/ Hangup(h) \/ connection_timeout(h)
          \/ Written(h) \/ MonitorWritten(h) \/ Line(h)
    \/ rplayd_read
    \/ \E i \in Ids : SoundCame(i) \/ EntryEnds(i)
    \/ rplayd_write \/ connection_monitor_continue \/ EnterIdle \/ reset

Spec == Init /\ [][Next]_vars

(* A client reads what it is sent: what can be written is written.         *)
FairSpec == Spec /\ \A h \in Hosts : WF_vars(Written(h))

-----------------------------------------------------------------------------
EventsOf(h) == Range(conn[h].q)

(* Types of the variables; a closed connection is as a new one.            *)
EVENT == [type : EventTypes, id : Nat, wait : SUBSET Kinds, own : BOOLEAN,
          n : Nat, has : SUBSET Texts, keep : KeptBuffers \cup {NotKept}, more : BOOLEAN]
CONNECTION == [open : BOOLEAN, q : Seq(EVENT), mask : SUBSET Kinds, id : Nat,
               monitor : BOOLEAN, answered : BOOLEAN, blank : BOOLEAN]
TypeOK ==
    /\ conn \in [Hosts -> CONNECTION]
    /\ \A h \in Hosts : conn[h].open \/ conn[h] = NoConn
    /\ spool \in [Ids -> {"none", "WAIT", "PLAY", "PAUSE", "SKIP", "SKIP_PAUSED"}]
    /\ last_id \in 0..SPOOL_MAX_ID /\ prev \in (-1..SPOOL_MAX_ID) \X (-1..SPOOL_MAX_ID)
    /\ kept \in [KeptBuffers -> 0..(BufferTexts - 1)] /\ need_to_reset \in BOOLEAN
    /\ monitor_count \in 0..Cardinality(Hosts)
    /\ ring \in BOOLEAN /\ monitor_update \in BOOLEAN

(* Every command is answered: its reply has been queued, or a wait for it  *)
(* is.  Not so with notification on: a note takes the place of a wait.     *)
Answered ==
    \A h \in Hosts : conn[h].open /\ conn[h].mask = {} /\ ~conn[h].answered =>
        \E e \in EventsOf(h) : e.type = "NOTIFY"

(* A connected client is always listened to or written to; only a line of  *)
(* blanks makes rplayd forget it.                                          *)
NeverDeaf ==
    \A h \in Hosts : conn[h].open /\ conn[h].q = <<>> => conn[h].blank

(* "wait play" of a client without notification waits only while its entry *)
(* is there: no done is missed.                                            *)
OwnEntryLives ==
    \A h \in Hosts : conn[h].mask = {} =>
        \A e \in EventsOf(h) : e.own => spool[e.id] # "none"

(* The monitor buffers, which the timer handler writes to while anybody    *)
(* monitors, are there exactly as long as somebody may need them.          *)
MonitorRing ==
    /\ monitor_count = Cardinality({h \in Hosts : conn[h].monitor})
    /\ monitor_count > 0 => ring
    /\ \A h \in Hosts : \A e \in EventsOf(h) :
          e.type \in {"WAIT_MONITOR", "WRITE_MONITOR"} => conn[h].monitor

(* A reply does not stay behind: whatever is queued before it goes, too.   *)
HasReply(h) == \E e \in EventsOf(h) : e.type = "WRITE" /\ "reply" \in e.has
RepliesArrive == \A h \in Hosts : HasReply(h) ~> ~HasReply(h)

(* RPTP.texi: "type set notify=all and you will receive notification for   *)
(* all server events".  Nothing stays behind an event that only waits.     *)
NotesArrive ==
    \A h \in Hosts : HeadOf(conn[h]).type = "NOTIFY" => Len(conn[h].q) = 1

(* RPTP.texi, wait id=#300: "+event=done id=#300".  The answer is about    *)
(* the entry that was waited for.                                          *)
RightAnswer ==
    \A h \in Hosts : \A e \in EventsOf(h) : "wrong" \notin e.has
=============================================================================
