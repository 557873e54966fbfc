------------------------------- MODULE Device -------------------------------
(***************************************************************************)
(* The audio device of rplayd: the seven drivers' rplay_audio_* functions, *)
(* rplayd_audio_init, rplayd_audio_match, the commands that reconfigure    *)
(* the device, the timer, and the part of doit that opens the device when  *)
(* something plays and closes it when nothing has happened for a while.    *)
(*                                                                         *)
(* Sample rates are small numbers.  What is played, and the volume itself, *)
(* is left out: of the volume functions there remains that some open the   *)
(* device.  An entry keeps the sample rate it divided its own by.          *)
(*                                                                         *)
(* A definition D_Word next to D is D with a plausible mistake in it, which*)
(* no definition uses.                                                     *)
(***************************************************************************)
EXTENDS Integers, FiniteSets, FiniteSetsExt, TLC

CONSTANTS
    Drivers,             \* which of the seven drivers is compiled in
    Entries,             \* spool entries
    Rates,               \* sample rates the hardware has
    SoundRates,          \* sample rates of sounds
    Starts,              \* what the options make of optional_*, see Config
    StartRates,          \* --audio-rate, 0 when not given
    StartSizes,          \* --audio-bufsize, 0 when not given
    Asks,                \* what set audio-info=... may give: partial configs
    Timeouts,            \* what set audio-close=N may give, and the start
    RPLAY_AUDIO_RATE,
    CleanupTimeout,      \* the largest of the other timeouts
    RplaydTimeout        \* rplayd_timeout, 0: never exit

ASSUME RateAssumption ==
    /\ Rates \subseteq Nat \ {0} /\ RPLAY_AUDIO_RATE \in Nat \ {0}
    /\ \E top \in Rates : \A r \in Rates : r <= top
    /\ {CleanupTimeout, RplaydTimeout} \cup Timeouts \cup StartRates \cup StartSizes \subseteq Nat

ASSUME DriverAssumption ==
    Drivers \subseteq {"oss", "FreeBSD", "solaris", "sun", "hpux", "sgi", "generic"}

VARIABLES
    driver,              \* the driver compiled in
    rplay_audio_match,   \* --audio-match
    busy,                \* another program has the device
    audio,               \* the globals of rplayd and the driver, see NoAudio
    entry,               \* the entries, see NoEntry
    timer,               \* the rate of the timer, 0: timer_enabled is 0
    timeout,             \* rplay_audio_timeout
    icount, idle,        \* the locals of doit
    pc                   \* "boot", "top" of doit's loop, "select" or "exit"

vars == <<driver, rplay_audio_match, busy, audio, entry, timer, timeout, icount, idle, pc>>

(* opt is optional_*, cur rplay_audio_*: a rate, a format, a number of     *)
(* bits and of channels; "none" and 0 are not set.  hw is what the device  *)
(* was told, its number of bits being that of its format.                  *)
(* table: rplay_audio_table is not NULL.  ok: what the last function        *)
(* returned, of use within an action only.  bad: history, the last         *)
(* rplayd_audio_init failed.                                               *)
NoConfig == [rate |-> 0, fmt |-> "none", prec |-> 0, chan |-> 0]
NoHw == [rate |-> 0, fmt |-> "none", chan |-> 0]
NoAudio == [enabled |-> TRUE, opt |-> NoConfig, cur |-> NoConfig, default |-> 0, fd |-> FALSE,
            hw |-> NoHw, table |-> FALSE,
            rplay_audio_rate |-> 0, rplay_audio_bufsize |-> 0, curr_rate |-> 0,
            curr_bufsize |-> 0, ok |-> TRUE, bad |-> FALSE]

(* base: rplay_audio_sample_rate when sample_factor was computed           *)
NoEntry == [state |-> "none", rate |-> 0, base |-> 0]
In(states) == {e \in Entries : entry[e].state \in states}
spool_nplaying == Cardinality(In({"play"}))

-----------------------------------------------------------------------------
(* The drivers.  Each *_init is what rplay_audio_init does with an open    *)
(* device, for the optional_* of a; ok is what it returns.                 *)

Or(x, y) == IF x = 0 THEN y ELSE x
OrFmt(x, y) == IF x = "none" THEN y ELSE x
FmtOf(prec) == IF prec = 16 THEN "linear16" ELSE "ulinear8"
Fails(a) == [a EXCEPT !.ok = FALSE]
Kept(a) == [a EXCEPT !.ok = TRUE]

(* Hardware of the OSS kind gives what it has that is nearest below.       *)
Near(set, x) == LET below == {y \in set : y <= x} IN IF below = {} THEN Min(set) ELSE Max(below)

oss_init(a) ==
    LET prec == Near({8, 16}, Or(a.opt.prec, 16))
        chan == Near({1, 2}, Or(a.opt.chan, 2))
        rate == Near(Rates, Or(a.opt.rate, Max(Rates)))
    IN  [a EXCEPT !.ok = TRUE,
                  !.cur = [rate |-> rate, fmt |-> OrFmt(a.opt.fmt, FmtOf(prec)),
                           prec |-> prec, chan |-> chan],
                  !.hw = [rate |-> rate, fmt |-> FmtOf(prec), chan |-> chan]]

FreeBSD_init(a) ==
    LET prec == Or(a.opt.prec, 16)
        chan == Near({1, 2}, Or(a.opt.chan, 2))
        rate == Near(Rates, Or(a.opt.rate, Max(Rates)))
        fmt  == OrFmt(a.opt.fmt, FmtOf(prec))
    IN  [a EXCEPT !.ok = TRUE,
                  !.cur = [rate |-> rate, fmt |-> fmt, prec |-> Near({8, 16}, prec), chan |-> chan],
                  !.hw = [rate |-> rate, fmt |-> fmt, chan |-> chan]]

(* sun and solaris: the variables are set first and verified then.         *)
Verified(a, cur) ==
    LET set == [a EXCEPT !.cur = cur, !.table = TRUE]
    IN  IF /\ \/ cur.prec = 8 /\ cur.fmt \in {"ulaw", "linear8"}
              \/ cur.prec = 16 /\ cur.fmt = "linear16"
           /\ cur.rate \in Rates /\ cur.chan \in {1, 2}
        THEN [set EXCEPT !.ok = TRUE,
                         !.hw = [rate |-> cur.rate, fmt |-> cur.fmt, chan |-> cur.chan]]
        ELSE Fails(set)

(* A dbri device.                                                          *)
solaris_init(a) ==
    LET prec == Or(a.opt.prec, 16)
    IN  Verified(a, [rate |-> Or(a.opt.rate, Max(Rates)), prec |-> prec,
                     fmt |-> OrFmt(a.opt.fmt, IF prec = 16 THEN "linear16" ELSE "linear8"),
                     chan |-> Or(a.opt.chan, 1)])

(* An amd device.                                                          *)
sun_init(a) ==
    Verified(a, [rate |-> Or(a.opt.rate, Min(Rates)), prec |-> Or(a.opt.prec, 8),
                 fmt |-> OrFmt(a.opt.fmt, "ulaw"), chan |-> Or(a.opt.chan, 1)])

(* hpux programs the rate, the channels and the format one by one.         *)
hpux_init(a) ==
    LET fmt == IF a.opt.fmt = "ulaw" THEN "ulaw" ELSE "linear16"
        cur == [rate |-> Or(a.opt.rate, Min(Rates)), chan |-> Or(a.opt.chan, 1), fmt |-> fmt,
                prec |-> IF fmt = "ulaw" THEN 8 ELSE 16]
        set == [a EXCEPT !.cur = cur]
    IN  CASE cur.rate \notin Rates -> Fails(set)
          [] cur.rate \in Rates /\ cur.chan \notin {1, 2} -> Fails([set EXCEPT !.hw.rate = cur.rate])
          [] OTHER -> [set EXCEPT !.ok = TRUE,
                                  !.hw = [rate |-> cur.rate, fmt |-> fmt, chan |-> cur.chan]]

(* sgi opens a port each time, between the channels and the rate.          *)
sgi_init(a) ==
    LET prec == Or(a.opt.prec, 16)
        chan == Or(a.opt.chan, 2)
        rate == Or(a.opt.rate, Max(Rates))
        fmt  == IF prec = 16 THEN "linear16" ELSE "linear8"
        width == [a EXCEPT !.cur.prec = prec]
        chans == [width EXCEPT !.cur.fmt = fmt, !.cur.chan = chan]
        open == [chans EXCEPT !.fd = TRUE, !.cur.rate = rate, !.hw.fmt = fmt, !.hw.chan = chan]
    IN  CASE prec \notin {8, 16} -> Fails(width)
          [] prec \in {8, 16} /\ chan \notin {1, 2} -> Fails(chans)
          [] prec \in {8, 16} /\ chan \in {1, 2} /\ busy -> Fails([chans EXCEPT !.fd = FALSE, !.hw = NoHw])
          [] OTHER -> IF rate \in Rates THEN [open EXCEPT !.ok = TRUE, !.hw.rate = rate]
                                        ELSE Fails(open)

generic_init(a) ==
    [a EXCEPT !.ok = TRUE, !.table = TRUE,
              !.cur = [rate |-> Min(Rates), fmt |-> "ulaw", prec |-> 8, chan |-> 1],
              !.hw = [rate |-> Min(Rates), fmt |-> "ulaw", chan |-> 1]]

(* Opening: the file, which stays open whatever becomes of init.           *)
Opened(a, init(_)) == IF busy THEN Fails(a)
                              ELSE init([a EXCEPT !.fd = TRUE])
oss_open(a) == Opened(a, oss_init)
FreeBSD_open(a) == Opened(a, FreeBSD_init)
solaris_open(a) == Opened(a, solaris_init)
sun_open(a) == Opened(a, sun_init)
hpux_open(a) == Opened(a, hpux_init)
sgi_open(a) == sgi_init(a)
generic_open(a) == Opened(a, generic_init)

rplay_audio_open(a) ==
    CASE driver = "oss" -> oss_open(a) [] driver = "FreeBSD" -> FreeBSD_open(a)
      [] driver = "solaris" -> solaris_open(a) [] driver = "sun" -> sun_open(a)
      [] driver = "hpux" -> hpux_open(a) [] driver = "sgi" -> sgi_open(a)
      [] driver = "generic" -> generic_open(a)

(* rplay_audio_init opens a closed device first, which itself does all of  *)
(* init: doing it again changes nothing.                                   *)
rplay_audio_init(a) ==
    IF ~a.fd THEN rplay_audio_open(a)
    ELSE CASE driver = "oss" -> oss_init(a) [] driver = "FreeBSD" -> FreeBSD_init(a)
           [] driver = "solaris" -> solaris_init(a) [] driver = "sun" -> sun_init(a)
           [] driver = "hpux" -> hpux_init(a) [] driver = "sgi" -> sgi_init(a)
           [] driver = "generic" -> generic_init(a)

(* The volume is that of the mixer, of the open device, or there is none.  *)
oss_volume(a) == a
FreeBSD_volume(a) == a
solaris_volume(a) == IF a.fd THEN a ELSE rplay_audio_open(a)
sun_volume(a) == IF a.fd THEN a ELSE rplay_audio_open(a)
hpux_volume(a) == IF a.fd THEN a ELSE rplay_audio_open(a)
sgi_volume(a) == IF a.fd THEN a ELSE rplay_audio_open(a)
generic_volume(a) == a

rplay_audio_get_volume(a) ==
    CASE driver = "oss" -> oss_volume(a) [] driver = "FreeBSD" -> FreeBSD_volume(a)
      [] driver = "solaris" -> solaris_volume(a) [] driver = "sun" -> sun_volume(a)
      [] driver = "hpux" -> hpux_volume(a) [] driver = "sgi" -> sgi_volume(a)
      [] driver = "generic" -> generic_volume(a)

rplay_audio_close(a) == [a EXCEPT !.fd = FALSE, !.hw = NoHw]

-----------------------------------------------------------------------------
(* rplayd_audio_init                                                       *)

SampleSize(c) == (c.prec \div 8) * c.chan

(* The rate is slowed down until it divides the sample rate.               *)
SlowDown(rate, sample_rate) == Max({r \in 1..rate : sample_rate % r = 0})

(* The buffer grows until it holds whole samples.                          *)
RoundUp(size, unit) == Min({n \in size..(size + unit) : n % unit = 0})

(* The size and the rate given as options are kept, unless audio-match     *)
(* changes the sample rate anyway.  With OSS neither is adapted.           *)
Timing(a) ==
    LET rate == IF rplay_audio_match \/ a.rplay_audio_rate = 0 THEN RPLAY_AUDIO_RATE
                                                               ELSE a.rplay_audio_rate
        curr == SlowDown(rate, a.cur.rate)
        size == IF rplay_audio_match \/ a.rplay_audio_bufsize = 0
                THEN (a.cur.rate \div curr) * SampleSize(a.cur) ELSE a.rplay_audio_bufsize
    IN  IF driver = "oss" THEN [a EXCEPT !.rplay_audio_rate = rate, !.curr_rate = rate]
        ELSE [a EXCEPT !.rplay_audio_rate = rate, !.curr_rate = curr,
                       !.rplay_audio_bufsize = size,
                       !.curr_bufsize = RoundUp(size, SampleSize(a.cur))]

rplayd_audio_init_KeepsOpt(a) ==
    LET set == rplay_audio_init([a EXCEPT !.table = FALSE])
    IN  CASE ~a.enabled -> [a EXCEPT !.ok = FALSE, !.bad = TRUE]
          [] a.enabled /\ ~set.ok -> [set EXCEPT !.bad = TRUE]
          [] OTHER -> rplay_audio_get_volume(Timing([set EXCEPT !.bad = FALSE]))
rplayd_audio_init(a) ==
    LET set == rplay_audio_init([a EXCEPT !.table = FALSE])
    IN  CASE ~a.enabled -> [a EXCEPT !.ok = FALSE, !.bad = TRUE]
          [] a.enabled /\ ~set.ok -> [set EXCEPT !.bad = TRUE]
          [] OTHER -> rplay_audio_get_volume(Timing([set EXCEPT !.opt = set.cur, !.bad = FALSE]))

(* The rate of the table closest to r, the larger one of two as close.     *)
Closest(r) ==
    Max({x \in Rates : \A y \in Rates : (IF x > r THEN x - r ELSE r - x)
                                          <= (IF y > r THEN y - r ELSE r - y)})

(* rplayd_audio_match: the new audio.  A rate that does not work is        *)
(* replaced by the one the daemon started with.                            *)
Matched(a, r) ==
    LET first == rplayd_audio_init([a EXCEPT !.opt.rate = IF a.table THEN Closest(r) ELSE r])
    IN  IF first.ok THEN first ELSE rplayd_audio_init([first EXCEPT !.opt.rate = a.default])

-----------------------------------------------------------------------------
(* main: the first rplayd_audio_init, and the device closed again          *)
main ==
    LET a == rplayd_audio_init(audio)
    IN  /\ pc = "boot"
        /\ pc' = "top"
        /\ audio' = IF a.ok THEN rplay_audio_close([a EXCEPT !.default = a.cur.rate])
                            ELSE Kept([a EXCEPT !.enabled = FALSE])
        /\ UNCHANGED <<driver, rplay_audio_match, busy, entry, timer, timeout, icount, idle>>

(* The top of doit's loop.                                                 *)
TopOfLoop_TriesOnce ==
    /\ pc = "top"
    /\ pc' = "select"
    /\ IF ~audio.enabled THEN UNCHANGED <<audio, timer>>
       ELSE IF timer > 0 /\ spool_nplaying = 0 THEN timer' = 0 /\ UNCHANGED audio
       ELSE IF timer > 0 \/ spool_nplaying = 0 THEN UNCHANGED <<audio, timer>>
       ELSE /\ audio' = IF audio.fd THEN audio ELSE Kept(rplay_audio_open(audio))
            /\ timer' = audio'.curr_rate
    /\ UNCHANGED <<driver, rplay_audio_match, busy, entry, timeout, icount, idle>>
TopOfLoop ==
    /\ pc = "top"
    /\ pc' = "select"
    /\ IF ~audio.enabled THEN UNCHANGED <<audio, timer>>
       ELSE IF timer > 0 /\ spool_nplaying = 0 THEN timer' = 0 /\ UNCHANGED audio
       ELSE IF spool_nplaying = 0 THEN UNCHANGED <<audio, timer>>
       ELSE /\ audio' = IF audio.fd THEN audio ELSE Kept(rplay_audio_open(audio))
            /\ timer' = IF timer > 0 THEN timer ELSE audio'.curr_rate
    /\ UNCHANGED <<driver, rplay_audio_match, busy, entry, timeout, icount, idle>>

(* select was interrupted by the timer, at which an entry may have ended.  *)
Tick ==
    /\ pc = "select" /\ timer > 0
    /\ pc' = "top"
    /\ \/ UNCHANGED entry
       \/ \E e \in In({"play"}) : entry' = [entry EXCEPT ![e] = NoEntry]
    /\ UNCHANGED <<driver, rplay_audio_match, busy, audio, timer, timeout, icount, idle>>

(* A second without anything, which the timer leaves only if it is slow.   *)
(* Counting on past every timeout makes no difference.                     *)
MaxCount == Max({CleanupTimeout} \cup Timeouts) + 1
CloseDevice(n) == audio.enabled /\ timeout > 0 /\ n = timeout
Timeout ==
    /\ pc = "select" /\ ~idle /\ timer <= 1
    /\ pc' = "top"
    /\ icount' = Min({icount + 1, MaxCount})
    /\ audio' = IF spool_nplaying = 0 /\ CloseDevice(icount') THEN rplay_audio_close(audio)
                                                              ELSE audio
    /\ \/ UNCHANGED idle
       \/ spool_nplaying = 0 /\ icount' >= Max({timeout, CleanupTimeout}) /\ idle' = TRUE
    /\ UNCHANGED <<driver, rplay_audio_match, busy, entry, timer, timeout>>

(* No one came for rplayd_timeout seconds.                                 *)
Exit ==
    /\ pc = "select" /\ idle /\ RplaydTimeout > 0
    /\ pc' = "exit"
    /\ UNCHANGED <<driver, rplay_audio_match, busy, audio, entry, timer, timeout, icount, idle>>

-----------------------------------------------------------------------------
(* select found something to read.                                         *)
Read ==
    /\ pc = "select"
    /\ pc' = "top" /\ icount' = 0 /\ idle' = FALSE
    /\ UNCHANGED <<driver, rplay_audio_match, busy>>

(* The entries after rplayd_audio_match                                    *)
Refactored_OnlyPlaying(entries, a) ==
    [e \in Entries |-> IF entries[e].state = "pause" THEN entries[e]
                       ELSE [entries[e] EXCEPT !.base = a.cur.rate]]
Refactored(entries, a) ==
    [e \in Entries |-> IF entries[e].state = "none" THEN entries[e]
                       ELSE [entries[e] EXCEPT !.base = a.cur.rate]]

(* rplayd_audio_match for the entry e of entries                           *)
Match(e, entries) ==
    IF rplay_audio_match /\ spool_nplaying = 0 /\ entries[e].rate # audio.cur.rate
    THEN LET a == Matched(audio, entries[e].rate)
         IN  /\ audio' = Kept(a)
             /\ timer' = IF timer > 0 THEN a.curr_rate ELSE timer
             /\ entry' = Refactored(entries, a)
    ELSE entry' = entries /\ UNCHANGED <<audio, timer>>

spool_play(e, r) ==
    /\ Read /\ entry[e].state = "none" /\ audio.enabled
    /\ Match(e, [entry EXCEPT ![e] = [state |-> "play", rate |-> r, base |-> audio.cur.rate]])
    /\ UNCHANGED timeout

spool_pause(e) ==
    /\ Read /\ entry[e].state = "play"
    /\ entry' = [entry EXCEPT ![e].state = "pause"]
    /\ UNCHANGED <<audio, timer, timeout>>

spool_continue(e) ==
    /\ Read /\ entry[e].state = "pause"
    /\ Match(e, [entry EXCEPT ![e].state = "play"])
    /\ UNCHANGED timeout

spool_stop(e) ==
    /\ Read /\ entry[e].state # "none"
    /\ entry' = [entry EXCEPT ![e] = NoEntry]
    /\ UNCHANGED <<audio, timer, timeout>>

(* spool_set_sample_rate, for the modify command                           *)
spool_set_sample_rate(e, r) ==
    /\ Read /\ entry[e].state # "none"
    /\ Match(e, [entry EXCEPT ![e].rate = r, ![e].base = audio.cur.rate])
    /\ UNCHANGED timeout

(* set audio-info=...                                                      *)
AudioInfo(ask) ==
    LET a == rplayd_audio_init([audio EXCEPT !.opt = ask @@ audio.opt, !.rplay_audio_rate = 0,
                                             !.rplay_audio_bufsize =
                                                 IF driver = "oss" THEN @ ELSE 0])
    IN  /\ Read
        /\ entry' = [e \in Entries |-> NoEntry]
        /\ audio' = IF a.ok THEN a
                    ELSE Kept([a EXCEPT !.rplay_audio_rate = audio.rplay_audio_rate,
                                        !.rplay_audio_bufsize = audio.rplay_audio_bufsize])
        /\ UNCHANGED <<timer, timeout>>

(* set audio-port=... with another port: the driver alone is initialized.  *)
AudioPort ==
    /\ Read
    /\ audio' = Kept(rplay_audio_init(audio))
    /\ UNCHANGED <<entry, timer, timeout>>

(* set audio-close=N                                                       *)
AudioClose(n) ==
    /\ Read
    /\ timeout' = n
    /\ UNCHANGED <<audio, entry, timer>>

(* volume, and set volume=...                                              *)
command_volume ==
    /\ Read
    /\ audio' = Kept(rplay_audio_get_volume(audio))
    /\ UNCHANGED <<entry, timer, timeout>>

(* Another program opens or closes the device, which only one can have.    *)
OtherProgram ==
    /\ busy \/ ~audio.fd
    /\ busy' = ~busy
    /\ UNCHANGED <<driver, rplay_audio_match, audio, entry, timer, timeout, icount, idle, pc>>

-----------------------------------------------------------------------------
Init ==
    /\ driver \in Drivers /\ rplay_audio_match \in BOOLEAN /\ busy \in BOOLEAN
    /\ \E start \in Starts, rate \in StartRates, size \in StartSizes :
          audio = [NoAudio EXCEPT !.opt = start @@ NoConfig, !.rplay_audio_rate = rate,
                                  !.rplay_audio_bufsize = size]
    /\ entry = [e \in Entries |-> NoEntry]
    /\ timer = 0 /\ timeout \in Timeouts /\ icount = 0 /\ idle = TRUE
    /\ pc = "boot"

Next ==
    \/ main \/ TopOfLoop \/ Tick \/ Timeout \/ Exit \/ OtherProgram
    \/ \E e \in Entries, r \in SoundRates : spool_play(e, r) \/ spool_set_sample_rate(e, r)
    \/ \E e \in Entries : spool_pause(e) \/ spool_continue(e) \/ spool_stop(e)
    \/ \E ask \in Asks : AudioInfo(ask)
    \/ AudioPort \/ command_volume
    \/ \E n \in Timeouts : AudioClose(n)

Spec == Init /\ [][Next]_vars

(* select returns at the latest when the timer expires.                    *)
FairSpec == Spec /\ WF_vars(TopOfLoop) /\ WF_vars(Tick)

-----------------------------------------------------------------------------
(* While the last rplayd_audio_init went well, optional_* is what the      *)
(* device was set to, so that opening it again changes nothing; the open   *)
(* device has the sample rate and the channels that rplayd mixes for, and  *)
(* with a driver that verifies the format that as well; and one turn of    *)
(* the timer writes whole samples.                                         *)
ConfigAgrees ==
    audio.enabled /\ ~audio.bad /\ pc # "boot" =>
        /\ audio.opt = audio.cur
        /\ audio.fd => /\ audio.hw.rate = audio.cur.rate /\ audio.hw.chan = audio.cur.chan
                       /\ driver \notin {"oss", "FreeBSD"} => audio.hw.fmt = audio.cur.fmt
        /\ driver # "oss" => /\ audio.cur.rate % audio.curr_rate = 0
                             /\ audio.curr_bufsize % SampleSize(audio.cur) = 0

(* And every entry that plays or is paused has divided its sample rate by  *)
(* the one that is in use, through every audio-match, audio-info, pause    *)
(* and reopening: it is heard at its own pitch.                            *)
FactorsRight ==
    audio.enabled /\ ~audio.bad =>
        \A e \in In({"play", "pause"}) : entry[e].base = audio.cur.rate

(* "will keep trying": when something plays and the device is free, it is  *)
(* opened, or the sound ends.                                              *)
OpensEventually ==
    (spool_nplaying > 0 /\ ~busy /\ audio.enabled /\ ~audio.bad)
        ~> (audio.fd \/ spool_nplaying = 0 \/ busy \/ audio.bad)
=============================================================================
