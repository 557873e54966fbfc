------------------------------- MODULE Spool -------------------------------
(***************************************************************************)
(* The sound spool of rplayd (rplayd/spool.c), the play/stop/... commands  *)
(* of rplayd.c and command.c that act on it, the main loop `doit' and the  *)
(* SIGALRM handler that consumes the audio.                                *)
(*                                                                         *)
(* Two actors share the spool: the main loop, whose position is `pc', and  *)
(* the timer handler, the action Tick, which may run between any two steps *)
(* of the main loop while the timer is enabled.  A main-loop step is what  *)
(* the code does for one spool entry.  Most of it is done under            *)
(* timer_block or while the entry is in a state that the handler passes    *)
(* over.  The exception is the fill of a playing entry: what the handler   *)
(* can do in the middle of it to the buffers is in module Playback.        *)
(*                                                                         *)
(* A definition D_Word next to D is D with a plausible mistake in it.  No  *)
(* definition uses it: each is put in the place of D to see that the       *)
(* properties notice.                                                      *)
(***************************************************************************)
EXTENDS Integers, Sequences, FiniteSets

CONSTANTS
    Cells,       \* the SPOOL structures; SPOOL_SIZE of them
    MaxId,       \* SPOOL_MAX_ID
    Sounds,      \* names of sounds
    Info,        \* what is known of a sound: type, len, where, cached, sized
    Requests,    \* the play requests clients send
    NoName,      \* a request without a list-name
    Targets,     \* what the commands name: an id (0: all) or a sound list
    SkipCounts,  \* counts of the skip command
    Changes,     \* what the modify command sets: <<field, value>>
    BufUnits,    \* units of audio in one filled buffer
    MaxFlow,     \* bound: units of flow data a client has outstanding
    MaxList,     \* bound: length of a merged sound list
    Env          \* the environment events explored, see EnvEvents

(***************************************************************************)
(* The names of the environment events that can be switched on:            *)
(*   open_fails  sound_open fails for a sound that was mapped before;      *)
(*   map_fails   the header of a flow is not recognised by sound_map;      *)
(*   late_put    a client puts flow data after somebody said `done';       *)
(*   reset       SIGHUP or a reset command.                                *)
(***************************************************************************)
EnvEvents == {"open_fails", "map_fails", "late_put", "reset"}

Flows == {s \in Sounds : Info[s].type = "FLOW"}
Files == {s \in Sounds : Info[s].type = "FILE"}

Ids == 1..MaxId

States == {"NULL", "PLAY", "PAUSE", "WAIT", "NEXT", "SKIP"}

ASSUME CellsAssumption == IsFiniteSet(Cells) /\ Cells # {}
ASSUME IdAssumption == MaxId \in Nat /\ MaxId >= Cardinality(Cells)
ASSUME SizeAssumption == /\ BufUnits \in Nat \ {0}
                         /\ MaxFlow \in Nat
                         /\ MaxList \in Nat
ASSUME EnvAssumption == Env \subseteq EnvEvents
ASSUME InfoAssumption ==
    Info \in [Sounds -> [type : {"FILE", "FLOW"}, len : Nat,
                         where : {"local", "remote", "nowhere"},
                         cached : BOOLEAN, sized : BOOLEAN]]
ASSUME RequestAssumption ==
    \A rq \in Requests : /\ rq.snd \in Seq(Sounds) /\ rq.snd # <<>>
                         /\ rq.count \in Seq(Nat)
                         /\ Len(rq.count) = Len(rq.snd)
                         /\ rq.list_count \in Nat
                         /\ rq.priority \in Nat
(* A flow is requested by itself: one sound, no list-name to join.         *)
ASSUME FlowAssumption ==
    \A rq \in Requests : \A i \in 1..Len(rq.snd) :
        rq.snd[i] \in Flows => Len(rq.snd) = 1 /\ rq.name = NoName
ASSUME SkipAssumption == SkipCounts \subseteq Int
ASSUME ChangeAssumption ==
    Changes \subseteq {"count", "list_count", "priority"} \X Nat

VARIABLES
    spool,         \* the SPOOL structures; NullEntry is not in the list
    order,         \* the list: cells in the order of the `next' pointers
    status,        \* SOUND.status: none (not in the table), pending, ready
    nplaying,      \* spool_nplaying
    npaused,       \* spool_npaused
    prio,          \* spool_prio
    needs_update,  \* spool_needs_update # 0
    last_id,       \* the static `id' of spool_id
    timer_enabled,
    pc,            \* where the main loop is: top, update, select, loop, crashed
    todo,          \* entries the current walk over the list has still to visit
    cmd,           \* what the current walk does to the entries it matches
    known          \* ids that a notify client has seen play and not done

counters == <<nplaying, npaused>>
vars == <<spool, order, status, nplaying, npaused, prio, needs_update, last_id,
          timer_enabled, pc, todo, cmd, known>>

-----------------------------------------------------------------------------
(* Spool entries.  curr_sound counts from 0 as in the code.                *)

NullEntry ==
    [state |-> "NULL", id |-> 0, snd |-> <<>>, count |-> <<>>, curr_sound |-> 0,
     curr_count |-> 0, list_count |-> 0, priority |-> 0, name |-> NoName,
     si |-> "null", left |-> 0, curr_buffer |-> 0, next_buffer |-> 0,
     second |-> FALSE, skip_count |-> 0, auto_pause |-> FALSE]

Live == {c \in Cells : spool[c].state # "NULL"}

Curr(e) == e.snd[e.curr_sound + 1]

IsFlow(e) == Info[Curr(e)].type = "FLOW"

Has(e, s) == \E i \in 1..Len(e.snd) : e.snd[i] = s

(* Deleting a flow with its entry: sound_clean of a flow that is not stored. *)
Cleaned(st, e) ==
    [s \in Sounds |-> IF s \in Flows /\ Has(e, s) THEN "none" ELSE st[s]]

(* spool_setprio: the largest priority of the PLAY entries of sp, 0 if none. *)
Highest(sp) ==
    LET ps == {0} \cup {sp[c].priority : c \in {d \in Cells : sp[d].state = "PLAY"}}
    IN {p \in ps : \A q \in ps : q <= p}

InitStatus ==
    [s \in Sounds |-> IF s \in Files /\ Info[s].where = "local"
                      THEN "ready" ELSE "none"]

(* spool_id: the next id, cyclically after last_id, of no live entry.      *)
Used(sp) == {sp[c].id : c \in {d \in Cells : sp[d].state # "NULL"}}
Distance(i) == (i - last_id - 1) % MaxId
NewIds(sp) ==
    {i \in Ids \ Used(sp) : \A j \in Ids \ Used(sp) : Distance(i) <= Distance(j)}

(* spool_destroy (and spool_reset): the entry leaves the list.             *)
Without(i) == SubSeq(order, 1, i - 1) \o SubSeq(order, i + 1, Len(order))

Unlink(c) == \E i \in 1..Len(order) : order[i] = c /\ order' = Without(i)

Destroy(c) ==
    /\ spool' = [spool EXCEPT ![c] = NullEntry]
    /\ Unlink(c)
    /\ prio' \in Highest(spool')
    /\ status' = Cleaned(status, spool[c])

(* The daemon dies: a NULL or freed pointer was dereferenced.              *)
Crash ==
    /\ pc' = "crashed"
    /\ UNCHANGED <<spool, order, status, nplaying, npaused, prio, needs_update,
                   last_id, timer_enabled, todo, cmd, known>>

-----------------------------------------------------------------------------
(* Playing, filling and advancing one entry.                               *)

(* sound_open of the entry's current sound.                                *)
MayOpen(e) == IsFlow(e) \/ status[Curr(e)] = "ready"
MayFailToOpen(e) ==
    ~IsFlow(e) /\ (status[Curr(e)] # "ready" \/ "open_fails" \in Env)

(* spool_play up to the auto_pause test.                                   *)
Opened(e) ==
    [e EXCEPT !.state = "PLAY", !.si = "open", !.curr_buffer = 0,
              !.next_buffer = 0, !.second = FALSE,
              !.left = IF IsFlow(e) THEN e.left ELSE Info[Curr(e)].len]

(* spool_play, its final spool_pause included.                             *)
Played_NoAutoPause(e) == [Opened(e) EXCEPT !.auto_pause = FALSE]
Played(e) ==
    [Opened(e) EXCEPT !.state = IF e.auto_pause THEN "PAUSE" ELSE "PLAY",
                      !.auto_pause = FALSE]

(* The guard of the fill in spool_update.                                  *)
WantsFill(e) == e.curr_buffer = 0 \/ (e.next_buffer = 0 /\ e.si = "open")

(* sound_fill: how much it returns.                                        *)
FillSize(e) ==
    IF ~IsFlow(e) /\ e.si = "eof" THEN 0
    ELSE IF e.left < BufUnits THEN e.left ELSE BufUnits

Drained(e) == e.curr_buffer = 0 /\ e.next_buffer = 0

(* spool_flow_pause in spool_update: a playing flow has run dry.           *)
RunsDry(e) ==
    /\ WantsFill(e) /\ FillSize(e) = 0 /\ IsFlow(e)
    /\ Drained(e) /\ e.si # "eof" /\ e.state = "PLAY"

(* The flow is over: closed, and one more spool_update is asked for.       *)
RunsOut(e) ==
    /\ WantsFill(e) /\ FillSize(e) = 0 /\ IsFlow(e)
    /\ Drained(e) /\ e.si = "eof"

(* The entry after the PLAY case of spool_update.                          *)
Filled(e) ==
    LET n == FillSize(e) IN
    IF ~WantsFill(e) THEN e
    ELSE IF n = 0
    THEN IF ~IsFlow(e) THEN [e EXCEPT !.si = "null"]
         ELSE IF RunsOut(e) THEN [e EXCEPT !.si = "null"]
         ELSE IF RunsDry(e) THEN [e EXCEPT !.state = "WAIT"]
         ELSE e
    ELSE [e EXCEPT !.left = @ - n,
                   !.curr_buffer = IF @ = 0 THEN n ELSE @,
                   !.next_buffer = IF e.curr_buffer = 0 THEN @ ELSE n,
                   !.si = IF ~IsFlow(e) /\ Info[Curr(e)].cached /\ e.left = n
                          THEN "eof" ELSE @]

(* The SKIP case of spool_update: curr_sound moves to one before its       *)
(* target t, kept within the list.                                         *)
Clamped_NoEnd(e, t) == IF t < 0 THEN -1 ELSE t
Clamped(e, t) ==
    IF t < 0 THEN -1 ELSE IF t = Len(e.snd) THEN Len(e.snd) - 1 ELSE t

Skipped(e) ==
    IF e.skip_count = 0
    THEN [e EXCEPT !.curr_count = @ + 1]
    ELSE LET k == IF e.skip_count < 0 /\ e.second
                  THEN e.skip_count + 1 ELSE e.skip_count
         IN [e EXCEPT !.curr_count = 1, !.skip_count = k,
                      !.curr_sound = Clamped(e, e.curr_sound + k - 1)]

(* What is left of the entry once its buffers and its file are closed.     *)
Closed(e) ==
    [e EXCEPT !.si = "null", !.curr_buffer = 0, !.next_buffer = 0]

AtListEnd(e) == e.curr_count = 1 /\ e.curr_sound + 1 = Len(e.snd)
Finished(e) == AtListEnd(e) /\ e.list_count = 1
PastListEnd(e) == e.curr_count = 1 /\ e.curr_sound + 1 > Len(e.snd)

(* The next sound of the list: repeat, next in the list, or list again.    *)
Advanced(e) ==
    IF e.curr_count > 1 THEN [e EXCEPT !.curr_count = @ - 1]
    ELSE IF e.curr_count = 0 THEN e
    ELSE IF AtListEnd(e)
    THEN [e EXCEPT !.list_count = IF @ > 1 THEN @ - 1 ELSE @,
                   !.curr_sound = 0, !.curr_count = e.count[1]]
    ELSE [e EXCEPT !.curr_sound = @ + 1,
                   !.curr_count = e.count[e.curr_sound + 2],
                   !.skip_count = IF e.state = "SKIP" THEN 0 ELSE @]

-----------------------------------------------------------------------------
(* spool_update, one entry at a time.                                      *)

(* "Some sounds must end here."                                            *)
Ended(e) ==
    IF e.state = "PLAY" /\ e.curr_buffer = 0 /\ e.si = "null"
    THEN [e EXCEPT !.state = "NEXT"] ELSE e

(* The entry of the NEXT/SKIP case just before the repeat test.            *)
Turned(e) ==
    IF e.state = "SKIP" THEN Skipped(Closed(e)) ELSE Closed(e)

Step == /\ todo' = Tail(todo)
        /\ pc' = IF Len(todo) = 1 THEN "select" ELSE "update"
        /\ UNCHANGED <<timer_enabled, cmd, last_id>>

(* The sound is over and so is the list: the entry is destroyed.           *)
UpdateFinish(c) ==
    LET e == Ended(spool[c]) IN
    /\ e.state \in {"NEXT", "SKIP"}
    /\ Finished(Turned(e))
    /\ nplaying' = IF e.auto_pause THEN nplaying ELSE nplaying - 1
    /\ known' = known \ {e.id}
    /\ Destroy(c)
    /\ Step
    /\ UNCHANGED <<npaused, needs_update>>

(* The next sound (or the same one again) is opened and filled.            *)
UpdateNext(c) ==
    LET e == Ended(spool[c])
        a == Advanced(Turned(e))
        p == Played(a)
        done == IF e.state = "SKIP" THEN known \ {e.id} ELSE known
        ended == IF e.auto_pause THEN nplaying ELSE nplaying - 1
        played == IF a.auto_pause THEN ended + 1 - 1 ELSE ended + 1
    IN
    /\ e.state \in {"NEXT", "SKIP"}
    /\ ~Finished(Turned(e)) /\ ~PastListEnd(Turned(e))
    /\ MayOpen(a)
    /\ spool' = [spool EXCEPT ![c] = Filled(p)]
    /\ prio' \in Highest([spool EXCEPT ![c] = Opened(a)])
    /\ nplaying' = IF RunsDry(p) THEN played - 1 ELSE played
    /\ npaused' = IF a.auto_pause THEN npaused + 1 ELSE npaused
    /\ known' = done \cup {e.id}
    /\ needs_update' = TRUE
    /\ Step
    /\ UNCHANGED <<order, status>>

(* spool_play destroyed the entry, or curr_attrs ran off the list: the     *)
(* code goes on with the freed entry or a NULL pointer.                    *)
UpdateCrash(c) ==
    LET e == Ended(spool[c]) IN
    /\ e.state \in {"NEXT", "SKIP"}
    /\ ~Finished(Turned(e))
    /\ ~PastListEnd(Turned(e)) => MayFailToOpen(Advanced(Turned(e)))
    /\ Crash

(* The entry goes on playing: read ahead.                                  *)
UpdateFill(c) ==
    LET e == Ended(spool[c]) IN
    /\ e.state = "PLAY"
    /\ spool' = [spool EXCEPT ![c] = Filled(e)]
    /\ nplaying' = IF RunsDry(e) THEN nplaying - 1 ELSE nplaying
    /\ needs_update' = (needs_update \/ RunsOut(e))
    /\ Step
    /\ UNCHANGED <<order, status, npaused, prio, known>>

(* PAUSE and WAIT entries are passed over.                                 *)
UpdatePass(c) ==
    /\ spool[c].state \in {"PAUSE", "WAIT"}
    /\ Step
    /\ UNCHANGED <<spool, order, status, counters, prio, needs_update, known>>

Update ==
    /\ pc = "update"
    /\ \E c \in Cells :
        /\ c = Head(todo)
        /\ \/ UpdateFinish(c)
           \/ UpdateNext(c)
           \/ UpdateCrash(c)
           \/ UpdateFill(c)
           \/ UpdatePass(c)

-----------------------------------------------------------------------------
(* The SIGALRM handler: spool_process, with one unit of audio per tick.    *)

Consumed(e) ==
    IF e.curr_buffer = 0 THEN e
    ELSE IF e.curr_buffer > 1
    THEN [e EXCEPT !.curr_buffer = @ - 1, !.second = TRUE]
    ELSE [e EXCEPT !.curr_buffer = e.next_buffer, !.next_buffer = 0,
                   !.second = TRUE]

(* to_native returns 0: the last sample of the sound has been used.        *)
LastSample(e) ==
    /\ e.curr_buffer > 0
    /\ Drained(Consumed(e)) /\ e.left = 0
    /\ IF IsFlow(e) THEN e.si = "eof" ELSE Info[Curr(e)].sized

TickEntry(e) ==
    IF e.state # "PLAY" THEN e
    ELSE IF LastSample(e) THEN [Consumed(e) EXCEPT !.state = "NEXT"]
    ELSE Consumed(e)

TickAsks_NoStarve(e) == e.state = "PLAY" /\ LastSample(e)
TickAsks(e) == e.state = "PLAY" /\ (LastSample(e) \/ WantsFill(Consumed(e)))

Tick ==
    /\ timer_enabled
    /\ pc # "crashed"
    /\ spool' = [c \in Cells |-> TickEntry(spool[c])]
    /\ needs_update' = (needs_update \/ \E c \in Cells : TickAsks(spool[c]))
    /\ UNCHANGED <<order, status, counters, prio, last_id, timer_enabled, pc,
                   todo, cmd, known>>

-----------------------------------------------------------------------------
(* doit, the main loop.                                                    *)

(* The timer runs while something plays; then spool_update, if needed.     *)
TimerOn == nplaying # 0

Top ==
    /\ pc = "top"
    /\ timer_enabled' = TimerOn
    /\ IF needs_update
       THEN /\ needs_update' = FALSE
            /\ todo' = order
            /\ pc' = IF order = <<>> THEN "select" ELSE "update"
       ELSE pc' = "select" /\ UNCHANGED <<needs_update, todo>>
    /\ UNCHANGED <<spool, order, status, counters, prio, last_id, cmd, known>>

(* select returned and the descriptors have been served: loop again.       *)
Wake ==
    /\ pc = "select"
    /\ pc' = "top"
    /\ UNCHANGED <<spool, order, status, counters, prio, needs_update, last_id,
                   timer_enabled, todo, cmd, known>>

(* Bound: resets are explored while no more paused entries than this are   *)
(* counted; spool_init leaves spool_npaused as it is.                      *)
MaxLeak == 1

(* reset: spool_init, connection_cleanup and sound_reread.                 *)
Reset ==
    /\ pc = "top"
    /\ "reset" \in Env
    /\ npaused <= MaxLeak
    /\ spool' = [c \in Cells |-> NullEntry]
    /\ order' = <<>>
    /\ status' = InitStatus
    /\ nplaying' = 0
    /\ prio' = 0
    /\ known' = {}
    /\ UNCHANGED <<npaused, needs_update, last_id, timer_enabled, pc, todo, cmd>>

-----------------------------------------------------------------------------
(* rplayd_play.                                                            *)

Missing(s) == status[s] = "none" /\ s \in Files /\ Info[s].where # "remote"

(* sound_lookup of every sound of a request, up to the first missing one.  *)
LookedUp(snd) ==
    [s \in Sounds |->
        IF /\ status[s] = "none"
           /\ \E i \in 1..Len(snd) :
                 snd[i] = s /\ \A j \in 1..i : ~Missing(snd[j])
        THEN "pending" ELSE status[s]]

AllFound(snd) == \A i \in 1..Len(snd) : ~Missing(snd[i])
AllReady(st, snd) == \A i \in 1..Len(snd) : st[snd[i]] = "ready"

(* The entry a request without a matching list-name fills in.              *)
NewEntry(rq, id) ==
    [NullEntry EXCEPT !.id = id, !.snd = rq.snd, !.count = rq.count,
                      !.curr_count = rq.count[1], !.list_count = rq.list_count,
                      !.priority = rq.priority, !.name = rq.name]

Named(rq) == {c \in Live : rq.name # NoName /\ spool[c].name = rq.name}

(* A flow gets a sound name that no sound has.                             *)
FreshFlows_Unchecked(rq) == TRUE
FreshFlows(rq) ==
    \A i \in 1..Len(rq.snd) : rq.snd[i] \in Flows => status[rq.snd[i]] = "none"

(* The request's list-name is playing: its sounds join that list.          *)
PlayMerge(rq) ==
    \E c \in Named(rq) :
        /\ AllFound(rq.snd)
        /\ Len(spool[c].snd) + Len(rq.snd) <= MaxList
        /\ spool' = [spool EXCEPT ![c].snd = @ \o rq.snd,
                                  ![c].count = @ \o rq.count]
        /\ status' = LookedUp(rq.snd)
        /\ UNCHANGED <<order, counters, prio, needs_update, last_id,
                       timer_enabled, pc, todo, cmd, known>>

(* ... and one of its sounds does not exist: spool_destroy cleans a NULL   *)
(* sound and the attributes of `rp' are freed twice.                       *)
PlayMergeCrash(rq) == Named(rq) # {} /\ ~AllFound(rq.snd) /\ Crash

(* spool_nplaying once spool_next has taken an entry away.                 *)
Evicted_Kept(old) == nplaying
Evicted(old) == IF old.state = "NULL" THEN nplaying ELSE nplaying - 1

(* The cell c is filled in; `old' is what it held before: NullEntry, or    *)
(* the entry that spool_next replaces.                                     *)
Gone(c) == [spool EXCEPT ![c] = NullEntry]
Silent(old) == IF old.state = "NULL" THEN known ELSE known \ {old.id}
AfterLookup(rq, old) == Cleaned(LookedUp(rq.snd), old)

(* A sound has to be fetched first.                                        *)
EnterWait(rq, c, old, i) ==
    /\ AllFound(rq.snd) /\ ~AllReady(AfterLookup(rq, old), rq.snd)
    /\ spool' = [spool EXCEPT ![c] = [NewEntry(rq, i) EXCEPT !.state = "WAIT"]]
    /\ nplaying' = Evicted(old)
    /\ known' = Silent(old)
    /\ prio' \in Highest(Gone(c))
    /\ UNCHANGED needs_update

EnterPlay(rq, c, old, i) ==
    /\ AllFound(rq.snd) /\ AllReady(AfterLookup(rq, old), rq.snd)
    /\ spool' = [spool EXCEPT ![c] = Played(NewEntry(rq, i))]
    /\ nplaying' = Evicted(old) + 1
    /\ known' = Silent(old) \cup {i}
    /\ prio' \in Highest(spool')
    /\ needs_update' = TRUE

(* A sound does not exist, or spool_play cannot open the first one.        *)
EnterFail(rq, c, old, i) ==
    /\ \/ ~AllFound(rq.snd)
       \/ AllReady(AfterLookup(rq, old), rq.snd) /\ MayFailToOpen(NewEntry(rq, i))
    /\ spool' = Gone(c)
    /\ nplaying' = Evicted(old)
    /\ known' = Silent(old)
    /\ prio' \in Highest(Gone(c))
    /\ UNCHANGED needs_update

(* `ord' is the list with the cell in it, `rest' the list without it.      *)
Enter(rq, c, old, ord, rest) ==
    \E i \in NewIds(Gone(c)) :
        /\ last_id' = i
        /\ \/ (EnterWait(rq, c, old, i) \/ EnterPlay(rq, c, old, i)) /\ order' = ord
           \/ EnterFail(rq, c, old, i) /\ order' = rest
        /\ status' = AfterLookup(rq, old)
        /\ UNCHANGED <<npaused, timer_enabled, pc, todo, cmd>>

(* spool_next found room for a new entry, at the head of the list.         *)
PlayNew(rq) ==
    /\ Named(rq) = {}
    /\ \E c \in Cells \ Live : Enter(rq, c, NullEntry, <<c>> \o order, order)

(* Where spool_next finds the entry it replaces in a full spool: the first *)
(* in the list of the PLAY entries with the lowest priority.               *)
Lowest ==
    {k \in 1..Len(order) :
        /\ spool[order[k]].state = "PLAY"
        /\ \A j \in 1..Len(order) : spool[order[j]].state = "PLAY" =>
              /\ spool[order[k]].priority <= spool[order[j]].priority
              /\ spool[order[k]].priority = spool[order[j]].priority => k <= j}

PlayReplace(rq) ==
    /\ Named(rq) = {}
    /\ Live = Cells
    /\ \E k \in Lowest, c \in Cells :
        /\ c = order[k]
        /\ spool[c].priority < rq.priority
        /\ Enter(rq, c, spool[c], order, Without(k))

Play ==
    /\ pc = "select"
    /\ \E rq \in Requests :
        /\ FreshFlows(rq)
        /\ \/ PlayMerge(rq)
           \/ PlayMergeCrash(rq)
           \/ PlayNew(rq)
           \/ PlayReplace(rq)

-----------------------------------------------------------------------------
(* Commands that walk the list: spool_match, spool_remove, spool_ready,    *)
(* command_skip and command_modify.  One step of the walk per entry.       *)

(* What one walk does: `op' to the entries that `target' names.  A target  *)
(* is an id (0 for all of them) or a whole list of sounds, and for `ready' *)
(* and `remove' one sound that the entry must hold.                        *)
Matches(e) ==
    LET t == cmd.target IN
    \/ t.by = "id" /\ (t.id = 0 \/ t.id = e.id)
    \/ t.by = "list" /\ t.snd = e.snd
    \/ t.by = "sound" /\ Has(e, t.sound)

NoCmd == [op |-> "none"]

Walk(command) ==
    /\ pc = "select"
    /\ pc' = IF order = <<>> THEN "select" ELSE "loop"
    /\ todo' = order
    /\ cmd' = IF order = <<>> THEN NoCmd ELSE command
    /\ UNCHANGED <<spool, order, counters, prio, needs_update, last_id,
                   timer_enabled, known>>

Command ==
    /\ \E t \in Targets :
        \/ \E op \in {"stop", "pause", "continue", "done"} :
              Walk([op |-> op, target |-> t, arg |-> 0])
        \/ /\ t.by = "id"
           /\ \E n \in SkipCounts : Walk([op |-> "skip", target |-> t, arg |-> n])
        \/ /\ t.by = "id"
           /\ \E ch \in Changes : Walk([op |-> "modify", target |-> t, arg |-> ch])
    /\ UNCHANGED status

(* A remote sound has arrived in the cache (spool_ready follows), or no    *)
(* server has it (spool_remove and sound_delete follow).                   *)
SoundFound(s) ==
    /\ s \in Files /\ status[s] = "pending"
    /\ status' = [status EXCEPT ![s] = "ready"]
    /\ Walk([op |-> "ready", target |-> [by |-> "sound", sound |-> s], arg |-> 0])

SoundLost(s) ==
    /\ s \in Files /\ status[s] = "pending"
    /\ status' = [status EXCEPT ![s] = "none"]
    /\ Walk([op |-> "done", target |-> [by |-> "sound", sound |-> s], arg |-> 0])

Stepped == /\ todo' = Tail(todo)
           /\ pc' = IF Len(todo) = 1 THEN "select" ELSE "loop"
           /\ cmd' = IF Len(todo) = 1 THEN NoCmd ELSE cmd
           /\ UNCHANGED <<timer_enabled, last_id>>

Ignore ==
    UNCHANGED <<spool, order, status, counters, prio, needs_update, known>>

Stoppable == {"PLAY", "PAUSE", "WAIT"}

(* spool_stop and the non-flow half of spool_done.                         *)
Remove_Quiet(c) ==
    LET e == spool[c] IN
    /\ nplaying' = IF e.state = "PLAY" THEN nplaying - 1 ELSE nplaying
    /\ npaused' = IF e.state = "PAUSE" THEN npaused - 1 ELSE npaused
    /\ Destroy(c)
    /\ UNCHANGED <<needs_update, known>>

Remove(c) ==
    LET e == spool[c] IN
    /\ nplaying' = IF e.state = "PLAY" THEN nplaying - 1 ELSE nplaying
    /\ npaused' = IF e.state = "PAUSE" THEN npaused - 1 ELSE npaused
    /\ known' = known \ {e.id}
    /\ Destroy(c)
    /\ UNCHANGED needs_update

spool_stop(c) ==
    \/ spool[c].state \in Stoppable /\ Remove(c)
    \/ spool[c].state \notin Stoppable /\ Ignore

spool_pause(c) ==
    \/ /\ spool[c].state = "PLAY"
       /\ spool' = [spool EXCEPT ![c].state = "PAUSE"]
       /\ nplaying' = nplaying - 1
       /\ npaused' = npaused + 1
       /\ UNCHANGED <<order, status, prio, needs_update, known>>
    \/ spool[c].state # "PLAY" /\ Ignore

spool_continue(c) ==
    \/ /\ spool[c].state = "PAUSE"
       /\ spool' = [spool EXCEPT ![c].state = "PLAY"]
       /\ nplaying' = nplaying + 1
       /\ npaused' = npaused - 1
       /\ needs_update' = TRUE
       /\ UNCHANGED <<order, status, prio, known>>
    \/ spool[c].state # "PAUSE" /\ Ignore

(* The end of a playing flow is left to spool_update.                      *)
spool_done(c) ==
    LET flowing == /\ spool[c].state = "PLAY" /\ spool[c].si # "null"
                   /\ IsFlow(spool[c])
    IN
    \/ /\ flowing
       /\ spool' = [spool EXCEPT ![c].si = "eof"]
       /\ UNCHANGED <<order, status, counters, prio, needs_update, known>>
    \/ spool[c].state \in Stoppable /\ ~flowing /\ Remove(c)
    \/ spool[c].state \notin Stoppable /\ Ignore

Unpaused_Forgotten(e) == npaused
Unpaused(e) == IF e.state = "PAUSE" THEN npaused - 1 ELSE npaused

spool_skip(c) ==
    LET e == spool[c] IN
    \/ /\ e.state \in {"PLAY", "PAUSE"} /\ ~IsFlow(e)
       /\ spool' = [spool EXCEPT ![c].state = "SKIP",
                                 ![c].skip_count = cmd.arg,
                                 ![c].auto_pause = (e.state = "PAUSE")]
       /\ npaused' = Unpaused(e)
       /\ needs_update' = TRUE
       /\ UNCHANGED <<order, status, nplaying, prio, known>>
    \/ ~(e.state \in {"PLAY", "PAUSE"} /\ ~IsFlow(e)) /\ Ignore

(* spool_set_count, spool_set_list_count and spool_set_priority.           *)
spool_set(c) ==
    LET v == cmd.arg[2] IN
    /\ \/ /\ cmd.arg[1] = "count"
          /\ spool' = [spool EXCEPT ![c].curr_count = v,
                                    ![c].count[spool[c].curr_sound + 1] = v]
          /\ UNCHANGED prio
       \/ /\ cmd.arg[1] = "list_count"
          /\ spool' = [spool EXCEPT ![c].list_count = v]
          /\ UNCHANGED prio
       \/ /\ cmd.arg[1] = "priority"
          /\ spool' = [spool EXCEPT ![c].priority = v]
          /\ prio' \in Highest(spool')
    /\ UNCHANGED <<order, status, counters, needs_update, known>>

(* spool_ready: a waiting entry all of whose sounds are ready is played.   *)
spool_ready(c) ==
    LET ready == spool[c].state = "WAIT" /\ AllReady(status, spool[c].snd) IN
    \/ /\ ready
       /\ spool' = [spool EXCEPT ![c] = Played(spool[c])]
       /\ nplaying' = nplaying + 1
       /\ prio' \in Highest(spool')
       /\ needs_update' = TRUE
       /\ known' = known \cup {spool[c].id}
       /\ UNCHANGED <<order, status, npaused>>
    \/ ~ready /\ Ignore

Apply(c) ==
    \/ cmd.op = "stop" /\ spool_stop(c)
    \/ cmd.op = "pause" /\ spool_pause(c)
    \/ cmd.op = "continue" /\ spool_continue(c)
    \/ cmd.op = "done" /\ spool_done(c)
    \/ cmd.op = "skip" /\ spool_skip(c)
    \/ cmd.op = "modify" /\ spool_set(c)
    \/ cmd.op = "ready" /\ spool_ready(c)

(* spool_ready goes on to the `next' of an entry that spool_play freed.    *)
ReadyCrash(c) ==
    /\ cmd.op = "ready"
    /\ spool[c].state = "WAIT" /\ AllReady(status, spool[c].snd)
    /\ MayFailToOpen(spool[c])
    /\ Crash

Loop ==
    /\ pc = "loop"
    /\ \E c \in Cells :
        /\ c = Head(todo)
        /\ \/ Matches(spool[c]) /\ Apply(c) /\ Stepped
           \/ Matches(spool[c]) /\ ReadyCrash(c)
           \/ ~Matches(spool[c]) /\ Ignore /\ Stepped

-----------------------------------------------------------------------------
(* Flow data: rplayd_put, or a read of a `put' connection, into            *)
(* spool_flow_insert.  One unit of data at a time.                         *)

Feed(e) == [e EXCEPT !.left = @ + 1]

(* The first data: the sound is mapped and its entry played.               *)
PutFirst(c) ==
    LET f == Curr(spool[c]) IN
    /\ status[f] = "pending"
    /\ status' = [status EXCEPT ![f] = "ready"]
    /\ spool' = [spool EXCEPT ![c] = Played(Feed(spool[c]))]
    /\ nplaying' = nplaying + 1
    /\ prio' \in Highest(spool')
    /\ needs_update' = TRUE
    /\ known' = known \cup {spool[c].id}
    /\ UNCHANGED <<order, npaused>>

(* sound_map cannot tell what it is: spool_remove.                         *)
PutUnmapped(c) ==
    /\ status[Curr(spool[c])] = "pending"
    /\ "map_fails" \in Env
    /\ Remove(c)

(* More data; a WAIT entry is woken up (spool_flow_continue).              *)
PutMore(c) ==
    LET e == spool[c] IN
    /\ status[Curr(e)] = "ready"
    /\ e.si = "open" \/ (e.si = "eof" /\ "late_put" \in Env)
    /\ spool' = [spool EXCEPT ![c] =
                    [Feed(e) EXCEPT !.state = IF @ = "WAIT" THEN "PLAY" ELSE @]]
    /\ nplaying' = IF e.state = "WAIT" THEN nplaying + 1 ELSE nplaying
    /\ needs_update' = (needs_update \/ e.state = "WAIT")
    /\ UNCHANGED <<order, status, npaused, prio, known>>

(* The flow has been closed: sp->si->water_mark with a NULL si.            *)
PutCrash(c) ==
    /\ status[Curr(spool[c])] = "ready"
    /\ spool[c].si = "null" /\ "late_put" \in Env
    /\ Crash

Put ==
    /\ pc = "select"
    /\ \E c \in Live :
        /\ IsFlow(spool[c])
        /\ spool[c].left < MaxFlow
        /\ \/ /\ PutFirst(c) \/ PutUnmapped(c) \/ PutMore(c)
              /\ UNCHANGED <<last_id, timer_enabled, pc, todo, cmd>>
           \/ PutCrash(c)

-----------------------------------------------------------------------------
Init ==
    /\ spool = [c \in Cells |-> NullEntry]
    /\ order = <<>>
    /\ status = InitStatus
    /\ nplaying = 0
    /\ npaused = 0
    /\ prio = 0
    /\ needs_update = FALSE
    /\ last_id = 0
    /\ timer_enabled = FALSE
    /\ pc = "top"
    /\ todo = <<>>
    /\ cmd = NoCmd
    /\ known = {}

Client ==
    \/ Play
    \/ Command
    \/ Put
    \/ \E s \in Sounds : SoundFound(s) \/ SoundLost(s)
    \/ Reset

MainLoop == Top \/ Update \/ Loop \/ Wake

Next == MainLoop \/ Tick \/ Client

Spec == Init /\ [][Next]_vars

(***************************************************************************)
(* The kernel delivers SIGALRM while the timer is on, and the main loop    *)
(* goes on: select returns at each signal, and one pass over the           *)
(* descriptors serves at most SPOOL_SIZE packets and one event of each     *)
(* connection, so it is not kept from looping by a stream of commands.     *)
(***************************************************************************)
Fairness == /\ WF_vars(Top) /\ WF_vars(Update) /\ WF_vars(Loop) /\ SF_vars(Wake)
            /\ WF_vars(Tick)

FairSpec == Spec /\ Fairness

-----------------------------------------------------------------------------
(* Properties.                                                             *)

Names == {NoName} \cup {rq.name : rq \in Requests}

Entry ==
    [state : States, id : Nat, snd : Seq(Sounds), count : Seq(Nat),
     curr_sound : Int, curr_count : Nat, list_count : Nat, priority : Nat,
     name : Names, si : {"null", "open", "eof"}, left : Nat, curr_buffer : Nat,
     next_buffer : Nat, second : BOOLEAN, skip_count : Int, auto_pause : BOOLEAN]

EntryOK(e) ==
    /\ e.id <= MaxId
    /\ e.curr_buffer <= BufUnits /\ e.next_buffer <= BufUnits
    /\ Len(e.count) = Len(e.snd)
    /\ e.state # "NULL" => e.id # 0 /\ e.curr_sound \in 0..(Len(e.snd) - 1)

CmdOK == /\ cmd.op = "skip" => cmd.arg \in Int
         /\ cmd.op = "modify" =>
                cmd.arg \in {"count", "list_count", "priority"} \X Nat

(* The type invariant.  A live entry's curr_sound is always the index of   *)
(* one of its sounds: sp->sound[sp->curr_sound] is never out of the list.  *)
TypeOK ==
    /\ spool \in [Cells -> Entry]
    /\ \A c \in Cells : EntryOK(spool[c])
    /\ order \in Seq(Cells)
    /\ status \in [Sounds -> {"none", "pending", "ready"}]
    /\ nplaying \in Int
    /\ npaused \in Int
    /\ prio \in Nat
    /\ needs_update \in BOOLEAN
    /\ last_id \in 0..MaxId
    /\ timer_enabled \in BOOLEAN
    /\ pc \in {"top", "update", "select", "loop", "crashed"}
    /\ todo \in Seq(Cells)
    /\ pc \in {"update", "loop"} => todo # <<>>
    /\ CmdOK
    /\ known \subseteq Ids

(* Entries whose sound counts as playing: a sound that has ended or is     *)
(* being skipped counts until spool_update turns to it, one that was       *)
(* skipped while paused does not.                                          *)
Audible(e) == e.state \in {"PLAY", "NEXT"} \/ (e.state = "SKIP" /\ ~e.auto_pause)

(* spool_nplaying, incremented and decremented all over spool.c and        *)
(* rplayd.c, is the number of entries that play.  The main loop starts and *)
(* stops the timer by it: one too few and a sound hangs in the spool for   *)
(* ever, one too many and the timer is never stopped.                      *)
NplayingCounts == nplaying = Cardinality({c \in Cells : Audible(spool[c])})

(* A flow belongs to one entry, the only sound of it, from the request to  *)
(* the moment the entry is destroyed, and until the first data has been    *)
(* mapped that entry waits: spool_flow_insert plays (and counts) an entry  *)
(* once, and nobody else's sound is deleted with it.                       *)
FlowsHeld ==
    \A c \in Live : \A i \in 1..Len(spool[c].snd) :
        spool[c].snd[i] \in Flows =>
            /\ Len(spool[c].snd) = 1
            /\ spool[c].name = NoName
            /\ status[spool[c].snd[i]] # "none"
            /\ status[spool[c].snd[i]] = "pending" => spool[c].state = "WAIT"
            /\ \A d \in Live : Has(spool[d], spool[c].snd[i]) => d = c

(* Only a skip remembers that the entry was paused: auto_pause never       *)
(* outlives the turn to the next sound.                                    *)
AutoPauseSkip ==
    \A c \in Cells : spool[c].auto_pause => spool[c].state = "SKIP"

(* spool_npaused is the number of paused entries, as the notify clients of *)
(* `state' events are told.                                                *)
NpausedCounts == npaused = Cardinality({c \in Cells : spool[c].state = "PAUSE"})

(* What the notify clients were told agrees with the spool: an id they saw *)
(* play and not done is an entry that has been played and is still there.  *)
(* No entry leaves without a `done' event, and none plays unannounced.     *)
ClientsKnow ==
    known = {spool[c].id : c \in {d \in Live : spool[d].state # "WAIT"
                                               \/ spool[d].si # "null"}}

(* The daemon never dereferences a NULL or freed pointer of the spool.     *)
NoCrash == pc # "crashed"

(* RPTP.texi: "Skipping a paused sound will cause the next sound to also   *)
(* be paused": from the skip to the moment spool_update turns the entry,   *)
(* nothing makes it play.                                                  *)
SkipKeepsPause ==
    [][\A c \in Cells : spool[c].state = "SKIP" /\ spool[c].auto_pause =>
          spool'[c].state \in {"SKIP", "PAUSE", "NULL"}]_vars

(* The step in which spool_update turns to a skipped entry.                *)
Turns(c) == /\ pc = "update" /\ c = Head(todo) /\ spool[c].state = "SKIP"
            /\ todo' # todo \/ pc' = "crashed"

(* RPTP.texi: "Skipping after the last sound will terminate the spool      *)
(* entry."                                                                 *)
SkipPastEnd ==
    [][\A c \in Cells :
          Turns(c) /\ spool[c].curr_sound + spool[c].skip_count >= Len(spool[c].snd)
          => spool'[c].state = "NULL"]_vars

(* spool.c: spool_prio is the "Highest priority spool entry": no entry     *)
(* that is being mixed has a higher one, so that no volume is raised.      *)
PrioHighest == \A c \in Cells : spool[c].state = "PLAY" => spool[c].priority <= prio

(* RPTP.texi, command stop: "Stop a paused or playing sound."  An entry    *)
(* that a stop command names is gone when the command has looked at it.    *)
StopStops ==
    [][\A c \in Cells :
          /\ pc = "loop" /\ cmd.op = "stop" /\ c = Head(todo) /\ todo' # todo
          /\ Matches(spool[c])
          => spool'[c].state = "NULL"]_vars

(* However it was skipped and changed, once the clients leave it alone a   *)
(* sound list that is not repeated for ever (list_count 0) comes to its    *)
(* end: the fill in spool_update, the timer and the request for the next   *)
(* update never wait for each other.                                       *)
PlayEnds ==
    <>[](cmd = NoCmd) =>
        \A c \in Cells : (spool[c].state \in {"PLAY", "NEXT"} /\ spool[c].list_count # 0)
            ~> (spool[c].state \in {"NULL", "PAUSE", "WAIT"} \/ spool[c].list_count = 0)

=============================================================================
