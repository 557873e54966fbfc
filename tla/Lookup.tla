------------------------------- MODULE Lookup -------------------------------
(***************************************************************************)
(* How rplayd finds a sound it does not have: the server connections of    *)
(* rplayd/connection.c (find, get, forwarding to the next server of        *)
(* rplay.servers, reopening, timing out), the disk cache of rplayd/cache.c *)
(* the sounds land in, and the client `put' that shares it.                *)
(*                                                                         *)
(* A server connection is a queue of events; only its head is worked on.   *)
(* An action is what connection_update and event_update do for one ready   *)
(* connection.  The remote servers are external: each reply is a choice    *)
(* among the ones the RPTP protocol allows at that point.  A find or get   *)
(* line is written in one piece.                                           *)
(*                                                                         *)
(* A definition D_Word next to D is D with a plausible mistake in it.  No  *)
(* definition uses it: each is put in the place of D to see that the       *)
(* properties notice.                                                      *)
(***************************************************************************)
EXTENDS Integers, Sequences, FiniteSets, FiniteSetsExt

CONSTANTS
    NServers,     \* servers in rplay.servers
    Sounds,       \* names clients ask for; none of them is a local file
    Size,         \* the size of each sound
    CacheMax,     \* cache_max_size; 0 means no limit
    Attempts,     \* RPTP_CONNECT_ATTEMPTS
    MaxCount,     \* bound: value of sound_count
    MaxReopen,    \* bound: TIMEOUT replies the servers give
    Faults        \* the environment events explored, see FaultEvents

Servers == 1..NServers

NoSound == "none"

ASSUME ServerAssumption == NServers \in Nat \ {0}
ASSUME SizeAssumption == Size \in [Sounds -> Nat \ {0}] /\ CacheMax \in Nat
ASSUME BoundAssumption == /\ Attempts \in Nat \ {0}
                          /\ MaxCount \in Nat /\ MaxReopen \in Nat
(***************************************************************************)
(*   create_fails  cache_create fails: the disk is full;                   *)
(*   put_timeout   a client is idle for rptp_timeout in the middle of put; *)
(*   reset         SIGHUP or a reset command.                              *)
(***************************************************************************)
FaultEvents == {"create_fails", "put_timeout", "reset"}

ASSUME FaultAssumption == Faults \subseteq FaultEvents
ASSUME NameAssumption == NoSound \notin Sounds /\ IsFiniteSet(Sounds)

VARIABLES
    conn,         \* server connections by server; NoConn: none
    status,       \* SOUND.status; none: not in the sound table
    file,         \* size of the sound's file in the cache directory, 0: none
    count,        \* SOUND.count, the sound_count of its last lookup
    sound_count,
    play,         \* the spool entry for a sound: no, wait, play
    put,          \* a client's put of a sound: no; read, while it has its
                  \* EVENT_READ_SOUND; dead, when that event was replaced
    reopens,      \* TIMEOUT replies so far
    asked,        \* history: servers that were asked or tried for a sound
    daemon        \* running; exited (done) or crashed

vars == <<conn, status, file, count, sound_count, play, put, reopens, asked, daemon>>

-----------------------------------------------------------------------------
(* Events and connections.                                                 *)

Connecting == {"CONNECT", "READ_CONNECT_REPLY"}
Searching == {"WRITE_FIND", "READ_FIND_REPLY", "WRITE_GET", "READ_GET_REPLY",
              "READ_SOUND"}

Ev(t, s) == [type |-> t, snd |-> s]

(* nconnects of the CONNECT event is kept with the connection.  skewed:    *)
(* sound data nobody reads is in the way of the next reply.                *)
NoConn == [open |-> FALSE, q |-> <<>>, nconnects |-> 0, skewed |-> FALSE]
NewConn == [open |-> TRUE, q |-> <<Ev("CONNECT", NoSound)>>, nconnects |-> 0,
            skewed |-> FALSE]

(* connection_server_open followed by event_insert of the events evs.      *)
ServerOpen(cn, i, evs) ==
    LET c == IF cn[i].open THEN cn[i] ELSE NewConn
    IN [cn EXCEPT ![i] = [c EXCEPT !.q = @ \o evs]]

(* connection_server_reopen: a new socket in front of the same events.     *)
Reopened(cn, i, evs) ==
    [cn EXCEPT ![i] = [NewConn EXCEPT !.q = @ \o evs]]
Rest(i) == Tail(conn[i].q)
With(i, evs) == [conn EXCEPT ![i].q = evs]

SoundsOf(evs) == {evs[k].snd : k \in DOMAIN evs} \ {NoSound}

HeadIs(i, t) == daemon = "running" /\ conn[i].q # <<>> /\ Head(conn[i].q).type = t
Snd(i) == Head(conn[i].q).snd

-----------------------------------------------------------------------------
(* The sound table, the spool entries and the cache directory together.    *)

(* spool_remove and sound_delete(s, 1) of every sound in S.                *)
Drop_KeepsEntries(S) ==
    /\ status' = [s \in Sounds |-> IF s \in S THEN "none" ELSE status[s]]
    /\ file' = [s \in Sounds |-> IF s \in S THEN 0 ELSE file[s]]
    /\ count' = [s \in Sounds |-> IF s \in S THEN 0 ELSE count[s]]
    /\ asked' = [s \in Sounds |-> IF s \in S THEN {} ELSE asked[s]]
    /\ UNCHANGED play
Drop(S) ==
    /\ status' = [s \in Sounds |-> IF s \in S THEN "none" ELSE status[s]]
    /\ file' = [s \in Sounds |-> IF s \in S THEN 0 ELSE file[s]]
    /\ count' = [s \in Sounds |-> IF s \in S THEN 0 ELSE count[s]]
    /\ asked' = [s \in Sounds |-> IF s \in S THEN {} ELSE asked[s]]
    /\ play' = [s \in Sounds |-> IF s \in S THEN "no" ELSE play[s]]

(* The same, and s gets a file.                                            *)
DropAndHold(S, s, st) ==
    /\ status' = [t \in Sounds |-> IF t = s THEN st
                                  ELSE IF t \in S THEN "none" ELSE status[t]]
    /\ file' = [t \in Sounds |-> IF t = s THEN Size[s]
                                ELSE IF t \in S THEN 0 ELSE file[t]]
    /\ count' = [t \in Sounds |-> IF t \in S THEN 0 ELSE count[t]]
    /\ play' = [t \in Sounds |-> IF t \in S THEN "no" ELSE play[t]]
    /\ asked' = [t \in Sounds |-> IF t \in S THEN {} ELSE asked[t]]

cache_size == MapThenSumSet(LAMBDA s : file[s], Sounds)

(* cache_free.  The limit grows from sound_count/2 to sound_count; what    *)
(* has not been looked up since the limit is evicted at each.              *)
LimitAt[k \in Nat] ==
    IF k = 0 THEN sound_count \div 2
    ELSE LET l == LimitAt[k - 1]
             n == IF l \div 4 = 0 THEN 1 ELSE l \div 4
         IN IF l + n > sound_count THEN sound_count ELSE l + n
Limits == {LimitAt[k] : k \in 0..sound_count}

Evictable(l) ==
    {s \in Sounds : file[s] > 0 /\ status[s] = "READY" /\ count[s] < l}
Fits(size, gone) ==
    size + cache_size - MapThenSumSet(LAMBDA s : file[s], gone) <= CacheMax

(* What cache_free(size) removes, and whether it then has the room.        *)
Evicted(size) ==
    IF CacheMax = 0 \/ size > CacheMax \/ Fits(size, {}) THEN {}
    ELSE LET enough == {l \in Limits : Fits(size, Evictable(l))}
         IN IF enough = {} THEN Evictable(sound_count)
            ELSE Evictable(Min(enough))
HasRoom(size) ==
    CacheMax = 0 \/ (size <= CacheMax /\ Fits(size, Evicted(size)))

(* The count of a sound_lookup that finds or creates s.                    *)
Counted == sound_count < MaxCount /\ sound_count' = sound_count + 1

-----------------------------------------------------------------------------
(* Clients.                                                                *)

(* play s: sound_lookup(s, SOUND_FIND) and a spool entry.  A sound that is *)
(* not in the table is searched for, from the first server on.             *)
Play(s) ==
    /\ daemon = "running" /\ play[s] = "no" /\ Counted
    /\ count' = [count EXCEPT ![s] = sound_count']
    /\ \/ /\ status[s] = "none"
          /\ status' = [status EXCEPT ![s] = "SEARCH"]
          /\ conn' = ServerOpen(conn, 1, <<Ev("WRITE_FIND", s)>>)
          /\ asked' = [asked EXCEPT ![s] = {1}]
       \/ /\ status[s] # "none"
          /\ UNCHANGED <<status, conn, asked>>
    /\ play' = [play EXCEPT ![s] = IF status[s] = "READY" THEN "play" ELSE "wait"]
    /\ UNCHANGED <<file, put, reopens, daemon>>

(* The entry is over or is stopped; a search that is on goes on.           *)
EntryEnds(s) ==
    /\ daemon = "running" /\ play[s] # "no"
    /\ play' = [play EXCEPT ![s] = "no"]
    /\ UNCHANGED <<conn, status, file, count, sound_count, put, reopens, asked, daemon>>

(* put s: command_put of a file.  When cache_create fails, the file it has *)
(* opened may stay in the directory, unknown to the sound table.           *)
Put(s) ==
    /\ daemon = "running" /\ status[s] = "none"
    /\ \/ /\ ~HasRoom(Size[s])
          /\ Drop(Evicted(Size[s]))
          /\ UNCHANGED put
       \/ /\ HasRoom(Size[s])
          /\ DropAndHold(Evicted(Size[s]), s, "NOT_READY")
          /\ put' = [put EXCEPT ![s] = "read"]
       \/ /\ HasRoom(Size[s]) /\ "create_fails" \in Faults
          /\ DropAndHold(Evicted(Size[s]), s, "none")
          /\ UNCHANGED put
    /\ UNCHANGED <<conn, sound_count, reopens, daemon>>

(* sound_map, spool_ready and SOUND_READY of event_update.                 *)
BecomesReady(s) ==
    /\ status' = [status EXCEPT ![s] = "READY"]
    /\ play' = [play EXCEPT ![s] = IF @ = "wait" THEN "play" ELSE @]
    /\ asked' = [asked EXCEPT ![s] = {}]
PutDone(s) ==
    /\ daemon = "running" /\ put[s] = "read"
    /\ put' = [put EXCEPT ![s] = "no"]
    /\ BecomesReady(s)
    /\ UNCHANGED <<conn, file, count, sound_count, reopens, daemon>>

(* The client goes away in the middle: connection_close.                   *)
PutFails(s) ==
    /\ daemon = "running" /\ put[s] = "read"
    /\ put' = [put EXCEPT ![s] = "no"]
    /\ Drop({s})
    /\ UNCHANGED <<conn, sound_count, reopens, daemon>>

(* connection_timeout of that client: EVENT_READ_SOUND is replaced by      *)
(* EVENT_WRITE_TIMEOUT, and nothing is left that names the sound.          *)
PutTimesOut(s) ==
    /\ daemon = "running" /\ put[s] = "read" /\ "put_timeout" \in Faults
    /\ put' = [put EXCEPT ![s] = "dead"]
    /\ UNCHANGED <<conn, status, file, count, sound_count, play, reopens, asked, daemon>>

-----------------------------------------------------------------------------
(* Forwarding.                                                             *)

(* connection_server_forward and connection_close: every event goes to the *)
(* next server; behind the last one the sounds are given up.  Forwarding   *)
(* no events makes event_insert follow a NULL pointer.                     *)
ForwardAll(i, evs) ==
    /\ \/ /\ i < NServers /\ evs # <<>>
          /\ conn' = ServerOpen([conn EXCEPT ![i] = NoConn], i + 1, evs)
          /\ asked' = [s \in Sounds |-> IF s \in SoundsOf(evs)
                                        THEN asked[s] \cup {i + 1} ELSE asked[s]]
          /\ UNCHANGED <<status, file, count, play, daemon>>
       \/ /\ i < NServers /\ evs = <<>>
          /\ daemon' = "crashed"
          /\ UNCHANGED <<conn, asked, status, file, count, play>>
       \/ /\ i = NServers
          /\ conn' = [conn EXCEPT ![i] = NoConn]
          /\ Drop(SoundsOf(evs))
          /\ UNCHANGED daemon
    /\ UNCHANGED <<sound_count, put, reopens>>

(* connection_server_forward_sound of the head's sound, and event_delete.  *)
ForwardSound_GivesUp(i) ==
    /\ conn' = With(i, Rest(i))
    /\ Drop({Snd(i)})
    /\ UNCHANGED <<sound_count, put, reopens, daemon>>
ForwardSound_KeepsEvent(i) ==
    /\ \/ /\ i < NServers
          /\ conn' = ServerOpen(conn, i + 1, <<Ev("WRITE_FIND", Snd(i))>>)
          /\ asked' = [asked EXCEPT ![Snd(i)] = @ \cup {i + 1}]
          /\ UNCHANGED <<status, file, count, play>>
       \/ /\ i = NServers
          /\ conn' = With(i, Rest(i))
          /\ Drop({Snd(i)})
    /\ UNCHANGED <<sound_count, put, reopens, daemon>>
ForwardSound(i) ==
    /\ \/ /\ i < NServers
          /\ conn' = ServerOpen(With(i, Rest(i)), i + 1, <<Ev("WRITE_FIND", Snd(i))>>)
          /\ asked' = [asked EXCEPT ![Snd(i)] = @ \cup {i + 1}]
          /\ UNCHANGED <<status, file, count, play>>
       \/ /\ i = NServers
          /\ conn' = With(i, Rest(i))
          /\ Drop({Snd(i)})
    /\ UNCHANGED <<sound_count, put, reopens, daemon>>

(* The head is made a find again and goes to the next server with the rest. *)
FindElsewhere(i) == ForwardAll(i, <<Ev("WRITE_FIND", Snd(i))>> \o Rest(i))

(* The head becomes an event of type t; nothing else changes.              *)
Becomes(i, t) ==
    /\ conn' = With(i, <<Ev(t, Snd(i))>> \o Rest(i))
    /\ UNCHANGED <<status, file, count, sound_count, play, put, reopens, asked, daemon>>

(* The server says it timed us out: its reply is RPTP_TIMEOUT.             *)
TimedOut(i, t) ==
    /\ reopens < MaxReopen
    /\ reopens' = reopens + 1
    /\ conn' = Reopened(conn, i, <<Ev(t, Snd(i))>> \o Rest(i))
    /\ UNCHANGED <<status, file, count, sound_count, play, put, asked, daemon>>

(* done(1): the reply starts with none of the characters RPTP knows.       *)
UnknownReply(i) ==
    /\ conn[i].skewed
    /\ daemon' = "exited"
    /\ UNCHANGED <<conn, status, file, count, sound_count, play, put, reopens, asked>>

-----------------------------------------------------------------------------
(* event_update of a server connection, by the type of the head.           *)

ConnectDone(i) == HeadIs(i, "CONNECT") /\ Becomes(i, "READ_CONNECT_REPLY")

ConnectRetry(i) ==
    /\ HeadIs(i, "CONNECT") /\ conn[i].nconnects + 1 < Attempts
    /\ conn' = [conn EXCEPT ![i].nconnects = @ + 1]
    /\ UNCHANGED <<status, file, count, sound_count, play, put, reopens, asked, daemon>>

ConnectFails(i) == HeadIs(i, "CONNECT") /\ ForwardAll(i, Rest(i))

ConnectReply(i) ==
    /\ HeadIs(i, "READ_CONNECT_REPLY")
    /\ \/ /\ conn' = With(i, Rest(i))
          /\ UNCHANGED <<status, file, count, sound_count, play, put, reopens, asked, daemon>>
       \/ ForwardAll(i, Rest(i))

WriteFind(i) ==
    /\ HeadIs(i, "WRITE_FIND")
    /\ Becomes(i, "READ_FIND_REPLY") \/ ForwardAll(i, conn[i].q)

(* An OK reply gives the size.  cache_free either makes room or the sound  *)
(* is given up.                                                            *)
FindReplyOK(i) ==
    /\ HeadIs(i, "READ_FIND_REPLY")
    /\ LET size == Size[Snd(i)] IN
       \/ /\ ~HasRoom(size)
          /\ Drop(Evicted(size) \cup {Snd(i)})
          /\ conn' = With(i, Rest(i))
       \/ /\ HasRoom(size)
          /\ Drop(Evicted(size))
          /\ conn' = With(i, <<Ev("WRITE_GET", Snd(i))>> \o Rest(i))
    /\ UNCHANGED <<sound_count, put, reopens, daemon>>

FindReplyOther(i) ==
    /\ HeadIs(i, "READ_FIND_REPLY")
    /\ ForwardSound(i) \/ TimedOut(i, "WRITE_FIND") \/ UnknownReply(i)
          \/ FindElsewhere(i)

WriteGet(i) ==
    /\ HeadIs(i, "WRITE_GET")
    /\ Becomes(i, "READ_GET_REPLY") \/ FindElsewhere(i)

(* An OK reply to get: cache_create, then the data is read.  When there is *)
(* no file the data stays in the connection.                               *)
GetReplyOK(i) ==
    /\ HeadIs(i, "READ_GET_REPLY")
    /\ \/ /\ conn' = With(i, <<Ev("READ_SOUND", Snd(i))>> \o Rest(i))
          /\ status' = [status EXCEPT ![Snd(i)] = "NOT_READY"]
          /\ file' = [file EXCEPT ![Snd(i)] = Size[Snd(i)]]
          /\ UNCHANGED <<count, play, asked>>
       \/ /\ "create_fails" \in Faults
          /\ conn' = [With(i, Rest(i)) EXCEPT ![i].skewed = TRUE]
          /\ Drop({Snd(i)})
    /\ UNCHANGED <<sound_count, put, reopens, daemon>>

GetReplyOther(i) ==
    /\ HeadIs(i, "READ_GET_REPLY")
    /\ ForwardSound(i) \/ TimedOut(i, "WRITE_GET") \/ UnknownReply(i)
          \/ FindElsewhere(i)

(* All the data is there.                                                  *)
SoundRead(i) ==
    /\ HeadIs(i, "READ_SOUND")
    /\ conn' = With(i, Rest(i))
    /\ BecomesReady(Snd(i))
    /\ UNCHANGED <<file, count, sound_count, put, reopens, daemon>>

SoundReadFails(i) == HeadIs(i, "READ_SOUND") /\ FindElsewhere(i)

(* connection_check_timeout: the connection was idle for rptp_timeout.     *)
CheckTimeout(i) ==
    /\ daemon = "running" /\ conn[i].open
    /\ conn' = [conn EXCEPT ![i] = NoConn]
    /\ Drop(SoundsOf(conn[i].q))
    /\ UNCHANGED <<sound_count, put, reopens, daemon>>

(* reset: all connections are closed, the spool is emptied and the table   *)
(* is read again, the files of the cache included.                         *)
Reset ==
    /\ daemon = "running" /\ "reset" \in Faults
    /\ LET lost == {s \in Sounds : status[s] \in {"SEARCH", "NOT_READY"}} IN
       /\ file' = [s \in Sounds |-> IF s \in lost THEN 0 ELSE file[s]]
       /\ status' = [s \in Sounds |-> IF file'[s] > 0 THEN "READY" ELSE "none"]
    /\ conn' = [i \in Servers |-> NoConn]
    /\ count' = [s \in Sounds |-> 0]
    /\ sound_count' = 0
    /\ asked' = [s \in Sounds |-> {}]
    /\ play' = [s \in Sounds |-> "no"]
    /\ put' = [s \in Sounds |-> "no"]
    /\ UNCHANGED <<reopens, daemon>>

-----------------------------------------------------------------------------
Init ==
    /\ conn = [i \in Servers |-> NoConn]
    /\ status = [s \in Sounds |-> "none"]
    /\ file = [s \in Sounds |-> 0]
    /\ count = [s \in Sounds |-> 0]
    /\ sound_count = 0
    /\ play = [s \in Sounds |-> "no"]
    /\ put = [s \in Sounds |-> "no"]
    /\ reopens = 0
    /\ asked = [s \in Sounds |-> {}]
    /\ daemon = "running"

ClientStep ==
    \E s \in Sounds :
        \/ Play(s) \/ EntryEnds(s)
        \/ Put(s) \/ PutDone(s) \/ PutFails(s) \/ PutTimesOut(s)

ServerStep(i) ==
    \/ ConnectDone(i) \/ ConnectRetry(i) \/ ConnectFails(i) \/ ConnectReply(i)
    \/ WriteFind(i) \/ FindReplyOK(i) \/ FindReplyOther(i)
    \/ WriteGet(i) \/ GetReplyOK(i) \/ GetReplyOther(i)
    \/ SoundRead(i) \/ SoundReadFails(i)

Next ==
    \/ ClientStep
    \/ \E i \in Servers : ServerStep(i) \/ CheckTimeout(i)
    \/ Reset

Spec == Init /\ [][Next]_vars

(* A server may hang, but then rptp_timeout closes its connection.         *)
FairSpec ==
    Spec /\ \A i \in Servers : WF_vars(ServerStep(i) \/ CheckTimeout(i))

-----------------------------------------------------------------------------
Events == UNION {{i} \X DOMAIN conn[i].q : i \in Servers}
EvAt(e) == conn[e[1]].q[e[2]]
Naming(s) == {e \in Events : EvAt(e).snd = s}
Pending(s) == status[s] \in {"SEARCH", "NOT_READY"}

(* Types of the variables; a closed connection has no events.              *)
TypeOK ==
    /\ conn \in [Servers -> [open : BOOLEAN, q : Seq([type : Connecting \cup Searching,
                             snd : Sounds \cup {NoSound}]),
                             nconnects : 0..Attempts, skewed : BOOLEAN]]
    /\ status \in [Sounds -> {"none", "SEARCH", "NOT_READY", "READY"}]
    /\ file \in [Sounds -> Nat] /\ count \in [Sounds -> 0..MaxCount]
    /\ sound_count \in 0..MaxCount
    /\ play \in [Sounds -> {"no", "wait", "play"}]
    /\ put \in [Sounds -> {"no", "read", "dead"}]
    /\ reopens \in 0..MaxReopen /\ asked \in [Sounds -> SUBSET Servers]
    /\ daemon \in {"running", "exited", "crashed"}

(* A sound that is searched for or transferred is named by one event of    *)
(* one connection, and no event names another sound: no search is lost or  *)
(* doubled when events are forwarded, reopened, timed out or given up.     *)
(* Left aside are the puts that a timeout took the event of.               *)
OneEvent ==
    daemon = "running" =>
        \A s \in Sounds :
            Cardinality(Naming(s)) + (IF put[s] = "no" THEN 0 ELSE 1)
                = IF Pending(s) THEN 1 ELSE 0

(* The daemon survives the loss of any connection at any point:            *)
(* event_insert always has an event to forward.                            *)
NoCrash == daemon # "crashed"

(* A search is given up only behind the last server, for want of room in   *)
(* the cache, when a connection is idle for too long, without a file to    *)
(* write or in a reset: never with servers left that were not asked.       *)
AskedThemAll ==
    [][ \A s \in Sounds :
          (status[s] = "SEARCH" /\ status'[s] = "none"
             /\ ~(\E i \in Servers : FindReplyOK(i) \/ GetReplyOK(i) \/ CheckTimeout(i))
             /\ ~Reset)
          => asked[s] = Servers ]_vars

(* rplayd.8, --cache-size: "Maximum size in bytes of the rplay cache".     *)
CacheWithinMax == CacheMax = 0 \/ cache_size <= CacheMax

(* The abstract specification of a search, and that this one implements    *)
(* it, its fairness included: see Finder.                                  *)
Abstract == INSTANCE Finder WITH
    st <- [s \in Sounds |-> IF Pending(s) THEN "pending" ELSE status[s]],
    entry <- play,
    hung <- {s \in Sounds : put[s] # "no" \/ daemon # "running"}
Finds == Abstract!FairSpec
=============================================================================
