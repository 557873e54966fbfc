-------------------------------- MODULE Flow --------------------------------
(***************************************************************************)
(* Flow control in rplayd: a sound that is played while it still arrives,  *)
(* from put commands, from put datagrams, or from the pipe of a helper or  *)
(* CD-ROM process.  A connection whose flow is over the high water mark    *)
(* must wait (EVENT_WAIT_FLOW) until the entry has played it down to the   *)
(* low one; an entry whose data has run out must wait (SPOOL_WAIT) until   *)
(* there is more.                                                          *)
(*                                                                         *)
(* There is one spool entry, with one sound and a count of 1.  Bytes are   *)
(* counted in units.  One pass of doit updates the spool, reads what came  *)
(* by datagram, and then serves each ready connection and the pipe once.   *)
(*                                                                         *)
(* A definition D_Word next to D is D with a plausible mistake in it, which*)
(* no definition uses.                                                     *)
(***************************************************************************)
EXTENDS Integers, Sequences, FiniteSets, FiniteSetsExt, SequencesExt

CONSTANTS
    Clients,          \* connections that may put
    Sources,          \* kinds of flow: "put" or "pipe"
    BUFFER_SIZE,
    Low, High,        \* the water marks of the sound, see Marked
    Header,           \* length of the sound's header
    SOUND_FILL_SIZE,  \* what one buffer for playing holds
    Sizes,            \* sizes given to put; 0 is a put without an end
    MaxData           \* bound: units that are sent, in all

ASSUME SizeAssumption ==
    /\ {BUFFER_SIZE, Low, SOUND_FILL_SIZE} \subseteq Nat \ {0}
    /\ {Header, MaxData} \subseteq Nat /\ Sizes \subseteq Nat

(* The marks are a quarter and half a second of audio.  The level counts   *)
(* the header, which is skipped and never played: a header longer than a   *)
(* quarter of a second would keep the level above the low mark for ever.   *)
ASSUME MarkAssumption == High = 2 * Low /\ Header < Low

VARIABLES
    source,           \* what kind of flow this is
    entry,            \* the entry, its sound and its SINDEX, see NoEntry
    bufs,             \* curr_buffer and next_buffer: how many there are
    spool_needs_update,
    conn,             \* the connections, see NoConn
    pipe,             \* the pipe, see Init
    sent,             \* units sent, all in all
    served,           \* who had its turn in this pass
    ended,            \* history: has anything ended the flow?
    taken,            \* history: was a command taken for audio?
    crashed           \* sp->si was NULL

vars == <<source, entry, bufs, spool_needs_update, conn, pipe, sent,
          served, ended, taken, crashed>>

(* state: SPOOL_*; ready: the sound's status.  si: is the SINDEX open; if  *)
(* so, level is water_mark - offset, high its high_water_mark.  data is    *)
(* what the list s->flow holds.  played: history, has there been audio?    *)
NoEntry == [state |-> "NULL", ready |-> FALSE, si |-> FALSE, level |-> 0, high |-> 0,
            skip |-> 0, eof |-> FALSE, data |-> 0, played |-> FALSE]
Exists == entry.state # "NULL"

(* event: the head of the queue.  in: what the client has sent and rplayd  *)
(* has not read.  asked, due, hung: the client waits for the reply to a    *)
(* put, owes it so much data, has closed its end.  -1 is no end.           *)
NoConn == [event |-> "NONE", nleft |-> 0, in |-> <<>>, asked |-> FALSE, due |-> 0,
           hung |-> FALSE]
Tokens == {"data", "put"}

-----------------------------------------------------------------------------
(* connection_flow_pause and connection_flow_continue.                     *)

Turned(cs, from, to) ==
    [c \in Clients |-> IF cs[c].event = from THEN [cs[c] EXCEPT !.event = to] ELSE cs[c]]
connection_flow_pause(cs) == Turned(cs, "READ_FLOW", "WAIT_FLOW")
connection_flow_continue(cs) == Turned(cs, "WAIT_FLOW", "READ_FLOW")

(* What an operation of the spool leaves.                                  *)
Now == [entry |-> entry, bufs |-> bufs, conn |-> conn, update |-> spool_needs_update,
        crashed |-> crashed, ended |-> ended]
Become(n) ==
    /\ entry' = n.entry /\ bufs' = n.bufs /\ conn' = n.conn
    /\ spool_needs_update' = n.update /\ crashed' = n.crashed /\ ended' = n.ended

(* spool_destroy and spool_reset wake the connections: their data will be  *)
(* eaten.  sound_close frees nothing that another flow could use.          *)
spool_destroy(n) ==
    [n EXCEPT !.entry = NoEntry, !.bufs = 0, !.conn = connection_flow_continue(@)]

(* spool_done: a flow that plays only gets its end marked.                 *)
spool_done(n) ==
    IF n.entry.state \notin {"PLAY", "PAUSE", "WAIT"} THEN n
    ELSE IF n.entry.si /\ n.entry.state = "PLAY"
         THEN [n EXCEPT !.entry.eof = TRUE, !.ended = TRUE]
         ELSE spool_destroy([n EXCEPT !.ended = TRUE])

(* A flow has no place to seek to: what is to be skipped adds up.          *)
sound_open(e) ==
    [e EXCEPT !.si = TRUE, !.level = 0, !.high = 0, !.skip = 0, !.eof = FALSE]
sound_seek(e, offset) == [e EXCEPT !.skip = @ + offset]
sound_close(e) == [e EXCEPT !.si = FALSE]

(* What was put into the flow is counted by the caller.                    *)
spool_play(n) ==
    [n EXCEPT !.entry = sound_seek(sound_open([@ EXCEPT !.state = "PLAY"]), Header),
              !.update = TRUE]

(* spool_flow_insert of k units; maps: sound_map knows the type of sound.  *)
(* FALSE is a result of -1.                                                *)
Inserted(k) == [Now EXCEPT !.entry.data = @ + k]
Readied(k) == spool_play([Inserted(k) EXCEPT !.entry.ready = TRUE])
Counted(n, k) ==
    IF ~n.entry.si THEN [n EXCEPT !.crashed = TRUE]
    ELSE [n EXCEPT !.entry.level = @ + k,
                   !.entry.state = IF @ = "WAIT" THEN "PLAY" ELSE @,
                   !.update = @ \/ n.entry.state = "WAIT"]
spool_flow_insert(k, maps) ==
    CASE entry.ready -> <<Counted(Inserted(k), k), TRUE>>
      [] ~entry.ready /\ maps -> <<Counted(Readied(k), k), TRUE>>
      [] OTHER -> <<spool_done([Inserted(k) EXCEPT !.entry.ready = TRUE]), FALSE>>

-----------------------------------------------------------------------------
(* The spool.                                                              *)

(* sound_fill of a flow: the marks, the rest of the header, the audio.  A  *)
(* sound whose header tells its length (tail) ends there.                  *)
Marked(e) == [e EXCEPT !.high = IF @ = 0 THEN High ELSE @]
Skippable(e) == Min({e.skip, e.data})
FillSize(e) == Min({SOUND_FILL_SIZE, e.data - Skippable(e)})
sound_fill(e, tail) ==
    [Marked(e) EXCEPT !.data = @ - Skippable(e) - FillSize(e), !.skip = @ - Skippable(e),
                      !.level = @ - FillSize(e), !.eof = @ \/ tail,
                      !.played = @ \/ FillSize(e) > 0]

(* spool_update, the end of an entry.                                      *)
Ends(e) == e.state = "NEXT" \/ (e.state = "PLAY" /\ bufs = 0 /\ ~e.si)
(* Its filling of an entry that plays.  A flow that ran dry waits.         *)
WantsFill(e) == e.state = "PLAY" /\ (bufs = 0 \/ (bufs = 1 /\ e.si /\ ~e.eof))
RunsDry_Closes(n) ==
    IF bufs > 0 THEN n
    ELSE [n EXCEPT !.entry = sound_close(@), !.update = TRUE]
RunsDry_Waits(n) == IF bufs > 0 THEN n ELSE [n EXCEPT !.entry.state = "WAIT"]
RunsDry(n) ==
    IF bufs > 0 THEN n
    ELSE IF n.entry.eof THEN [n EXCEPT !.entry = sound_close(@), !.update = TRUE]
         ELSE [n EXCEPT !.entry.state = "WAIT"]
Filled_AtZero(n, tail) ==
    LET k == FillSize(n.entry)
        n1 == [n EXCEPT !.entry = sound_fill(@, tail), !.ended = @ \/ tail]
    IN IF k = 0 THEN RunsDry(n1)
       ELSE [n1 EXCEPT !.bufs = @ + 1,
                       !.conn = IF n1.entry.level = 0 /\ source = "put"
                                THEN connection_flow_continue(@) ELSE @]
Filled(n, tail) ==
    LET k == FillSize(n.entry)
        n1 == [n EXCEPT !.entry = sound_fill(@, tail), !.ended = @ \/ tail]
    IN IF k = 0 THEN RunsDry(n1)
       ELSE [n1 EXCEPT !.bufs = @ + 1,
                       !.conn = IF n1.entry.level < Low /\ source = "put"
                                THEN connection_flow_continue(@) ELSE @]
(* Data of a pipe is wanted again.                                         *)
PipeOn(n) == source = "pipe" /\ n.bufs > bufs /\ n.entry.level < Low

(* The top of doit: a new pass.                                            *)
spool_update ==
    /\ ~crashed
    /\ served' = {}
    /\ IF ~spool_needs_update \/ ~Exists
       THEN UNCHANGED <<entry, bufs, conn, pipe, ended, crashed>> /\ spool_needs_update' = FALSE
       ELSE LET n == [Now EXCEPT !.update = FALSE]
            IN \/ /\ Ends(entry) /\ Become(spool_destroy(n)) /\ UNCHANGED pipe
               \/ /\ ~Ends(entry) /\ WantsFill(entry)
                  /\ \E tail \in BOOLEAN :
                        /\ tail => FillSize(entry) > 0
                        /\ Become(Filled(n, tail))
                        /\ pipe' = [pipe EXCEPT !.on = @ \/ PipeOn(Filled(n, tail))]
               \/ /\ ~Ends(entry) /\ ~WantsFill(entry) /\ Become(n) /\ UNCHANGED pipe
    /\ UNCHANGED <<source, sent, taken>>

(* spool_process, in the timer handler: a buffer is played.  The sound is  *)
(* over, too, when all of its samples have been played after its end.      *)
spool_process ==
    /\ ~crashed /\ entry.state = "PLAY" /\ bufs > 0
    /\ \/ bufs' = bufs - 1 /\ UNCHANGED entry
       \/ /\ entry.eof /\ entry.data = 0 /\ bufs = 1
          /\ bufs' = 0 /\ entry' = [entry EXCEPT !.state = "NEXT"]
    /\ spool_needs_update' = TRUE
    /\ UNCHANGED <<source, conn, pipe, sent, served, ended, taken, crashed>>

(* What other clients, and datagrams, may do to the entry; spool_cleanup   *)
(* calls spool_done, too.                                                  *)
Control ==
    /\ ~crashed /\ Exists
    /\ \/ Become(spool_done(Now))
       \/ entry.state \in {"PLAY", "PAUSE", "WAIT"} /\ Become(spool_destroy([Now EXCEPT !.ended = TRUE]))
       \/ entry.state = "PLAY" /\ Become([Now EXCEPT !.entry.state = "PAUSE"])
       \/ entry.state = "PAUSE" /\ Become([Now EXCEPT !.entry.state = "PLAY", !.update = TRUE])
    /\ UNCHANGED <<source, pipe, sent, served, taken>>

-----------------------------------------------------------------------------
(* Clients.                                                                *)

Send(c, t) == conn' = [conn EXCEPT ![c].in = Append(@, t), ![c].asked = @ \/ t = "put",
                                   ![c].due = IF t = "data" /\ @ > 0 THEN @ - 1 ELSE @]

(* A client asks to put when all of its last put is sent.                  *)
ClientPut(c) ==
    /\ conn[c].event # "NONE" /\ ~conn[c].hung /\ ~conn[c].asked /\ conn[c].due = 0
    /\ sent < MaxData
    /\ Send(c, "put")
    /\ UNCHANGED <<source, entry, bufs, spool_needs_update, pipe, sent, served,
                   ended, taken, crashed>>

ClientData(c) ==
    /\ ~conn[c].hung /\ conn[c].due # 0 /\ sent < MaxData
    /\ Send(c, "data") /\ sent' = sent + 1
    /\ UNCHANGED <<source, entry, bufs, spool_needs_update, pipe, served, ended,
                   taken, crashed>>

ClientHangup(c) ==
    /\ conn[c].event # "NONE" /\ ~conn[c].hung
    /\ conn' = [conn EXCEPT ![c].hung = TRUE]
    /\ UNCHANGED <<source, entry, bufs, spool_needs_update, pipe, sent, served,
                   ended, taken, crashed>>

-----------------------------------------------------------------------------
(* rplayd's side of a connection.                                          *)

Turn(x) == ~crashed /\ x \notin served /\ served' = served \cup {x}
Ready(c) == conn[c].in # <<>> \/ conn[c].hung
Closed(cs, c) == [cs EXCEPT ![c] = NoConn]
Took(k, c) == [conn[c] EXCEPT !.in = SubSeq(@, k + 1, Len(@))]

(* A put is read: there is an entry to put to, or there is none.           *)
command_put(c) ==
    /\ Turn(c) /\ conn[c].event = "READ_COMMAND"
    /\ conn[c].in # <<>> /\ Head(conn[c].in) = "put"
    /\ \/ /\ Exists
          /\ \E size \in Sizes :
                LET k == IF size = 0 THEN -1 ELSE size
                IN conn' = [conn EXCEPT ![c] =
                      [Took(1, c) EXCEPT !.event = "READ_FLOW", !.nleft = k,
                                         !.asked = FALSE, !.due = k]]
       \/ ~Exists /\ conn' = [conn EXCEPT ![c] = [Took(1, c) EXCEPT !.asked = FALSE]]
    /\ UNCHANGED <<source, entry, bufs, spool_needs_update, pipe, sent, ended,
                   taken, crashed>>

(* The end of a connection; EVENT_READ_FLOW treats it below.               *)
CommandEnds(c) ==
    /\ Turn(c) /\ conn[c].event = "READ_COMMAND" /\ conn[c].in = <<>> /\ conn[c].hung
    /\ conn' = Closed(conn, c)
    /\ UNCHANGED <<source, entry, bufs, spool_needs_update, pipe, sent, ended,
                   taken, crashed>>

(* connection_timeout of a connection that is idle, or that waits.         *)
connection_timeout(c) ==
    /\ ~crashed /\ conn[c].event # "NONE"
    /\ conn' = Closed(conn, c)
    /\ UNCHANGED <<source, entry, bufs, spool_needs_update, pipe, sent, served,
                   ended, taken, crashed>>

Reading(c) == Turn(c) /\ conn[c].event = "READ_FLOW" /\ Ready(c)
Single(c) == conn[c].nleft = -1

(* EVENT_READ_FLOW without its entry: the rest of the put is eaten.        *)
EatFlow(c) ==
    /\ Reading(c) /\ ~Exists
    /\ LET k == Min({BUFFER_SIZE, conn[c].nleft, Len(conn[c].in)})
           left == conn[c].nleft - k
       IN conn' = IF Single(c) \/ k = 0 THEN Closed(conn, c)
                  ELSE [conn EXCEPT ![c] = [Took(k, c) EXCEPT
                           !.nleft = left,
                           !.event = IF left > 0 THEN @ ELSE "READ_COMMAND"]]
    /\ UNCHANGED <<source, entry, bufs, spool_needs_update, pipe, sent, ended,
                   taken, crashed>>

OverHigh(e) == e.si /\ e.level >= e.high

(* The high water mark is reached.                                         *)
PauseFlow(c) ==
    /\ Reading(c) /\ Exists /\ OverHigh(entry)
    /\ conn' = connection_flow_pause(conn)
    /\ UNCHANGED <<source, entry, bufs, spool_needs_update, pipe, sent, ended,
                   taken, crashed>>

(* Data is read up to the high water mark, even past the end of the put.   *)
ReadSize(e) == IF e.si THEN Min({BUFFER_SIZE, e.high - e.level}) ELSE BUFFER_SIZE
ReadFlow(c) ==
    /\ Reading(c) /\ Exists /\ ~OverHigh(entry) /\ conn[c].in # <<>>
    /\ \E maps \in BOOLEAN :
         LET k == Min({ReadSize(entry), Len(conn[c].in)})
             done == spool_flow_insert(k, maps)
             n == done[1]
             left == IF Single(c) THEN -1 ELSE conn[c].nleft - k
             read == [n.conn[c] EXCEPT !.in = SubSeq(@, k + 1, Len(@))]
         IN /\ maps \/ ~entry.ready
            /\ Become([n EXCEPT !.conn[c] =
                  IF ~done[2] THEN read      \* nleft is not reduced
                  ELSE [read EXCEPT !.nleft = left,
                          !.event = IF Single(c) \/ left > 0 THEN @ ELSE "READ_COMMAND"]])
            /\ taken' = (taken \/ "put" \in ToSet(SubSeq(conn[c].in, 1, k)))
    /\ UNCHANGED <<source, pipe, sent>>

(* The end of the connection is the end of a put without an end.           *)
FlowEnds(c) ==
    /\ Reading(c) /\ Exists /\ ~OverHigh(entry) /\ conn[c].in = <<>>
    /\ LET n == IF Single(c) THEN spool_done(Now) ELSE Now
       IN Become([n EXCEPT !.conn = Closed(@, c)])
    /\ UNCHANGED <<source, pipe, sent, taken>>

(* rplayd_put: a datagram.  Nothing holds it back.                         *)
rplayd_put ==
    /\ ~crashed /\ served = {} /\ Exists /\ source = "put" /\ sent < MaxData
    /\ \E maps \in BOOLEAN : (maps \/ ~entry.ready) /\ Become(spool_flow_insert(1, maps)[1])
    /\ sent' = sent + 1
    /\ UNCHANGED <<source, pipe, served, taken>>

-----------------------------------------------------------------------------
(* rplayd_pipe_read and sound_pipe_read.                                   *)

(* The process at the other end writes, until it is through; sound_close   *)
(* kills it.                                                               *)
PipeData ==
    /\ pipe.open /\ entry.si /\ sent < MaxData
    /\ pipe' = [pipe EXCEPT !.in = @ + 1] /\ sent' = sent + 1
    /\ UNCHANGED <<source, entry, bufs, spool_needs_update, conn, served, ended,
                   taken, crashed>>
PipeEnds ==
    /\ pipe.open
    /\ pipe' = [pipe EXCEPT !.open = FALSE]
    /\ UNCHANGED <<source, entry, bufs, spool_needs_update, conn, sent, served,
                   ended, taken, crashed>>

(* Half a second of audio is asked for.                                    *)
PipeFull == entry.level > entry.high
PipeSize == Min({High, pipe.in})

rplayd_pipe_read ==
    /\ Turn("pipe") /\ entry.si /\ pipe.on /\ (pipe.in > 0 \/ ~pipe.open)
    /\ \/ /\ PipeFull
          /\ pipe' = [pipe EXCEPT !.on = FALSE]
          /\ UNCHANGED <<entry, bufs, conn, spool_needs_update, crashed, ended>>
       \/ /\ ~PipeFull /\ pipe.in > 0
          /\ pipe' = [pipe EXCEPT !.in = @ - PipeSize]
          /\ Become(spool_flow_insert(PipeSize, TRUE)[1])
       \/ /\ ~PipeFull /\ pipe.in = 0
          /\ Become(spool_done(Now)) /\ UNCHANGED pipe
    /\ UNCHANGED <<source, sent, taken>>

-----------------------------------------------------------------------------
(* The entry has been made: by play input=flow, or with a pipe.            *)
Init ==
    /\ source \in Sources
    /\ entry = IF source = "put" THEN [NoEntry EXCEPT !.state = "WAIT"]
               ELSE [NoEntry EXCEPT !.state = "PLAY", !.ready = TRUE, !.si = TRUE]
    /\ bufs = 0 /\ spool_needs_update = (source = "pipe")
    /\ conn = [c \in Clients |->
                  IF source = "put" THEN [NoConn EXCEPT !.event = "READ_COMMAND"] ELSE NoConn]
    /\ pipe = [open |-> source = "pipe", on |-> source = "pipe", in |-> 0]
    /\ sent = 0 /\ served = {}
    /\ ended = FALSE /\ taken = FALSE /\ crashed = FALSE

Serve(c) ==
    \/ command_put(c) \/ CommandEnds(c) \/ EatFlow(c) \/ PauseFlow(c) \/ ReadFlow(c)
    \/ FlowEnds(c)
Next ==
    \/ spool_update \/ spool_process \/ Control
    \/ \E c \in Clients :
          ClientPut(c) \/ ClientData(c) \/ ClientHangup(c) \/ connection_timeout(c) \/ Serve(c)
    \/ rplayd_put \/ PipeData \/ PipeEnds \/ rplayd_pipe_read

Spec == Init /\ [][Next]_vars

(* doit never stops passing, the timer runs while something plays, and a   *)
(* connection that is ready is served in every pass.                       *)
FairSpec ==
    /\ Spec
    /\ WF_vars(spool_update) /\ WF_vars(spool_process) /\ SF_vars(rplayd_pipe_read)
    /\ \A c \in Clients : SF_vars(Serve(c))

-----------------------------------------------------------------------------
(* Types of the variables.                                                 *)
TypeOK ==
    /\ source \in Sources /\ bufs \in 0..2
    /\ entry \in [state : {"NULL", "WAIT", "PLAY", "PAUSE", "NEXT"}, ready : BOOLEAN,
                  si : BOOLEAN, level : Int, high : {0, High}, skip : 0..Header,
                  eof : BOOLEAN, data : Nat,
                  played : BOOLEAN]
    /\ conn \in [Clients -> [event : {"NONE", "READ_COMMAND", "READ_FLOW", "WAIT_FLOW"},
                             nleft : Int, in : Seq(Tokens), asked : BOOLEAN, due : Int,
                             hung : BOOLEAN]]
    /\ pipe \in [open : BOOLEAN, on : BOOLEAN, in : 0..MaxData]
    /\ served \subseteq Clients \cup {"pipe"}
    /\ {spool_needs_update, ended, taken, crashed} \subseteq BOOLEAN

(* A flow nobody has ended, and whose header does not tell its end, takes  *)
(* whatever data comes.                                                    *)
CrashOnlyAfterEnd == crashed => ended

(* A connection that has to wait is continued, unless the entry is paused. *)
(* Not so when the header came alone and a second source was held back     *)
(* before the marks were set.                                              *)
Waiting(c) == conn[c].event = "WAIT_FLOW"
HeaderOnly == entry.state = "WAIT" /\ ~entry.played
FlowContinues ==
    \A c \in Clients :
        Waiting(c) ~> (~Waiting(c) \/ entry.state = "PAUSE" \/ HeaderOnly \/ crashed)

(* A flow that was told to end does, or is paused.                         *)
FlowFinishes == (entry.si /\ entry.eof) ~> (~Exists \/ entry.state = "PAUSE" \/ crashed)

(* RPTP.texi: "the server assumes the client will then send size bytes of  *)
(* audio data".  What follows them is not audio.                           *)
CommandsKept == ~taken
=============================================================================
