---------------------------- MODULE DeviceProofs ----------------------------
(***************************************************************************)
(* Proofs about Device, for every set of entries, rates, options and       *)
(* requests and for each of the seven drivers: the configuration that      *)
(* rplayd mixes for is the one of the device, and every entry has divided  *)
(* its sample rate by the one in use.                                      *)
(*                                                                         *)
(* What optional_* may hold is not assumed to be sensible: the lemmas on   *)
(* the drivers hold for whatever the options and the clients give.         *)
(***************************************************************************)
EXTENDS Device, TLAPS, NaturalsInduction, WellFoundedInduction

Fields == {"enabled", "opt", "cur", "default", "fd", "hw", "table", "rplay_audio_rate",
           "rplay_audio_bufsize", "curr_rate", "curr_bufsize", "ok", "bad"}
IsAudio(a) ==
    /\ DOMAIN a = Fields
    /\ a.cur = [rate |-> a.cur.rate, fmt |-> a.cur.fmt, prec |-> a.cur.prec, chan |-> a.cur.chan]
    /\ a.hw = [rate |-> a.hw.rate, fmt |-> a.hw.fmt, chan |-> a.hw.chan]

-----------------------------------------------------------------------------
(* Facts about the operators of the model.                                 *)

(* A set of numbers has a least element, which Min is.                     *)
LEMMA MinIn ==
    ASSUME NEW S, S \subseteq Nat, S # {}
    PROVE  Min(S) \in S /\ \A x \in S : Min(S) <= x
<1>1. PICK R : R = {ss \in Nat \X Nat : ss[1] < ss[2]}
  OBVIOUS
<1>2. IsWellFoundedOn(R, Nat)
  BY <1>1, NatLessThanWellFounded DEF OpToRel
<1>3. PICK t \in S : \A u \in S : ~(<<u, t>> \in R)
  BY <1>2, WFMin, Zenon
<1>4. \A u \in S : t <= u
  <2>1. ASSUME NEW u \in S PROVE t <= u
    <3>1. u \in Nat /\ t \in Nat
      OBVIOUS
    <3>2. ~(<<u, t>> \in {ss \in Nat \X Nat : ss[1] < ss[2]})
      BY <1>1, <1>3
    <3>3. ~(u < t)
      BY <3>1, <3>2
    <3> QED BY <3>1, <3>3
  <2> QED BY <2>1
<1> QED BY <1>4 DEF Min

(* A bounded one has a greatest element, which Max is.                     *)
LEMMA MaxIn ==
    ASSUME NEW S, S \subseteq Nat, S # {}, NEW top \in Nat, \A x \in S : x <= top
    PROVE  Max(S) \in S /\ \A x \in S : x <= Max(S)
<1>1. PICK T : T = {top - x : x \in S}
  OBVIOUS
<1>2. T \subseteq Nat /\ T # {}
  <2>1. ASSUME NEW x \in S PROVE top - x \in Nat
    <3>1. x \in Nat /\ x <= top
      OBVIOUS
    <3> QED BY <3>1
  <2>2. PICK x : x \in S
    OBVIOUS
  <2>3. top - x \in T
    BY <1>1, <2>2
  <2> QED BY <1>1, <2>1, <2>3
<1>3. Min(T) \in T /\ \A u \in T : Min(T) <= u
  BY <1>2, MinIn, Zenon
<1>4. PICK m \in S : Min(T) = top - m
  BY <1>1, <1>3
<1>5. \A x \in S : m >= x
  <2>1. ASSUME NEW x \in S PROVE m >= x
    <3>1. top - x \in T
      BY <1>1
    <3>2. top - m <= top - x
      BY <1>3, <1>4, <3>1
    <3> QED BY <3>2
  <2> QED BY <2>1
<1> QED BY <1>5 DEF Max

(* What the hardware is near to, it has.                                   *)
LEMMA NearIn ==
    ASSUME NEW S \in SUBSET Nat, NEW top \in S, \A r \in S : r <= top, NEW x
    PROVE  Near(S, x) \in S
<1> DEFINE below == {y \in S : y <= x}
<1>1. CASE below = {}
  BY <1>1, MinIn DEF Near
<1>2. CASE below # {}
  <2>1. Max(below) \in below
    BY <1>2, MaxIn
  <2> QED BY <1>2, <2>1 DEF Near
<1> QED BY <1>1, <1>2

(* What the hardware has, it is near to.                                   *)
LEMMA NearSame ==
    ASSUME NEW S \in SUBSET Nat, NEW x \in S
    PROVE  Near(S, x) = x
<1> DEFINE below == {y \in S : y <= x}
<1>1. x \in below /\ \A y \in below : y <= x
  OBVIOUS
<1>2. Max(below) \in below /\ x <= Max(below)
  BY <1>1, MaxIn
<1>3. Max(below) = x
  <2>1. Max(below) \in S /\ Max(below) <= x
    BY <1>2
  <2>2. PICK m : m = Max(below)
    OBVIOUS
  <2>3. m \in Nat /\ x \in Nat /\ m <= x /\ x <= m
    BY <1>2, <2>1, <2>2
  <2> QED BY <2>2, <2>3
<1> QED BY <1>1, <1>3 DEF Near

(* The hardware has the rates it is near to, and stays with what it has.   *)
LEMMA Nearest ==
    /\ Min(Rates) \in Rates /\ Max(Rates) \in Rates
    /\ \A x : /\ Near(Rates, x) \in Rates /\ Near({8, 16}, x) \in {8, 16}
              /\ Near({1, 2}, x) \in {1, 2}
    /\ \A x \in Rates : Near(Rates, x) = x /\ x # 0
    /\ \A x \in {8, 16} : Near({8, 16}, x) = x
    /\ \A x \in {1, 2} : Near({1, 2}, x) = x
<1>1. PICK top \in Rates : \A r \in Rates : r <= top
  BY RateAssumption
<1>2. Rates \in SUBSET Nat /\ Rates \subseteq Nat /\ Rates # {} /\ top \in Nat /\ 0 \notin Rates
  BY <1>1, RateAssumption
<1>3. Min(Rates) \in Rates /\ Max(Rates) \in Rates
  BY <1>1, <1>2, MinIn, MaxIn, Zenon
<1>4. ASSUME NEW x
      PROVE  /\ Near(Rates, x) \in Rates /\ Near({8, 16}, x) \in {8, 16}
             /\ Near({1, 2}, x) \in {1, 2}
  <2>1. Near(Rates, x) \in Rates
    BY <1>1, <1>2, NearIn, Zenon
  <2>2. /\ {8, 16} \in SUBSET Nat /\ 16 \in {8, 16} /\ \A r \in {8, 16} : r <= 16
        /\ {1, 2} \in SUBSET Nat /\ 2 \in {1, 2} /\ \A r \in {1, 2} : r <= 2
    OBVIOUS
  <2>3. Near({8, 16}, x) \in {8, 16}
    BY <2>2, NearIn, Zenon
  <2>4. Near({1, 2}, x) \in {1, 2}
    BY <2>2, NearIn, Zenon
  <2> QED BY <2>1, <2>3, <2>4
<1>5. {8, 16} \in SUBSET Nat /\ {1, 2} \in SUBSET Nat
  OBVIOUS
<1>6. \A x \in Rates : Near(Rates, x) = x /\ x # 0
  BY <1>2, NearSame, Zenon
<1>7. \A x \in {8, 16} : Near({8, 16}, x) = x
  BY <1>5, NearSame, Zenon
<1>8. \A x \in {1, 2} : Near({1, 2}, x) = x
  BY <1>5, NearSame, Zenon
<1> QED BY <1>3, <1>4, <1>6, <1>7, <1>8

-----------------------------------------------------------------------------
(* The drivers.                                                            *)

(* A configuration that the driver takes as it is.                         *)
Good(c) ==
    /\ c = [rate |-> c.rate, fmt |-> c.fmt, prec |-> c.prec, chan |-> c.chan]
    /\ c.rate \in Rates /\ c.prec \in {8, 16} /\ c.chan \in {1, 2} /\ c.fmt # "none"
    /\ driver \in {"solaris", "sun"} => \/ c.prec = 8 /\ c.fmt \in {"ulaw", "linear8"}
                                        \/ c.prec = 16 /\ c.fmt = "linear16"
    /\ driver = "hpux" => \/ c.prec = 8 /\ c.fmt = "ulaw"
                          \/ c.prec = 16 /\ c.fmt = "linear16"
    /\ driver = "sgi" => \/ c.prec = 8 /\ c.fmt = "linear8"
                         \/ c.prec = 16 /\ c.fmt = "linear16"
    /\ driver = "generic" => /\ c.rate = Min(Rates) /\ c.fmt = "ulaw"
                             /\ c.prec = 8 /\ c.chan = 1

(* The device has what rplayd mixes for.                                   *)
Agrees(a) ==
    /\ a.hw.rate = a.cur.rate /\ a.hw.chan = a.cur.chan
    /\ driver \notin {"oss", "FreeBSD"} => a.hw.fmt = a.cur.fmt

(* Setting the device again changes nothing that rplayd relies on.         *)
Settled(a) == Good(a.cur) /\ a.opt = a.cur /\ (a.fd => Agrees(a))

(* What the functions of the drivers leave alone.                          *)
Same(a, b) ==
    /\ b.enabled = a.enabled /\ b.opt = a.opt /\ b.default = a.default /\ b.bad = a.bad
    /\ b.rplay_audio_rate = a.rplay_audio_rate /\ b.rplay_audio_bufsize = a.rplay_audio_bufsize
    /\ b.curr_rate = a.curr_rate /\ b.curr_bufsize = a.curr_bufsize

(* What they promise: b is what a becomes, and the device is set to what   *)
(* rplayd mixes for when it was asked for that.                            *)
Drives(a, b) ==
    /\ IsAudio(b) /\ Same(a, b)
    /\ Good(a.cur) /\ a.opt = a.cur => Settled(b) /\ b.cur = a.cur
Succeeds(b) == b.ok => Good(b.cur) /\ Agrees(b)

(* Each *_init keeps this promise.                                         *)
LEMMA oss_Drives ==
    ASSUME driver = "oss", NEW a, IsAudio(a)
    PROVE  Drives(a, oss_init(a)) /\ Succeeds(oss_init(a))
<1>1. PICK prec, chan, rate, fmt :
        /\ prec = Near({8, 16}, Or(a.opt.prec, 16)) /\ chan = Near({1, 2}, Or(a.opt.chan, 2))
        /\ rate = Near(Rates, Or(a.opt.rate, Max(Rates))) /\ fmt = OrFmt(a.opt.fmt, FmtOf(prec))
  OBVIOUS
<1>2. PICK b : b = [a EXCEPT !.ok = TRUE,
                  !.cur = [rate |-> rate, fmt |-> fmt, prec |-> prec, chan |-> chan],
                  !.hw = [rate |-> rate, fmt |-> FmtOf(prec), chan |-> chan]]
  OBVIOUS
<1>3. oss_init(a) = b
  BY <1>1, <1>2 DEF oss_init
<1>4. IsAudio(b) /\ Same(a, b) /\ b.fd = a.fd
  BY <1>2 DEF IsAudio, Same, Fields
<1>5. /\ b.cur = [rate |-> rate, fmt |-> fmt, prec |-> prec, chan |-> chan]
      /\ b.hw = [rate |-> rate, fmt |-> FmtOf(prec), chan |-> chan]
  BY <1>2 DEF IsAudio, Fields
<1>6. prec \in {8, 16} /\ chan \in {1, 2} /\ rate \in Rates /\ fmt # "none"
  BY <1>1, Nearest DEF OrFmt, FmtOf
<1>7. Good(b.cur) /\ Agrees(b)
  BY <1>5, <1>6 DEF Good, Agrees
<1>8. ASSUME Good(a.cur), a.opt = a.cur PROVE b.cur = a.cur
  <2>1. prec = a.cur.prec /\ chan = a.cur.chan /\ rate = a.cur.rate /\ fmt = a.cur.fmt
    BY <1>1, <1>8, Nearest DEF Good, Or, OrFmt
  <2> QED BY <1>5, <1>8, <2>1 DEF Good
<1> QED BY <1>3, <1>4, <1>7, <1>8 DEF Drives, Succeeds, Settled, Same

(* audio_FreeBSD.c: the device ends in a configuration that it has, and    *)
(* rplayd knows it.                                                        *)
LEMMA FreeBSD_Drives ==
    ASSUME driver = "FreeBSD", NEW a, IsAudio(a)
    PROVE  Drives(a, FreeBSD_init(a)) /\ Succeeds(FreeBSD_init(a))
<1>1. PICK prec, chan, rate, fmt :
        /\ prec = Or(a.opt.prec, 16) /\ chan = Near({1, 2}, Or(a.opt.chan, 2))
        /\ rate = Near(Rates, Or(a.opt.rate, Max(Rates))) /\ fmt = OrFmt(a.opt.fmt, FmtOf(prec))
  OBVIOUS
<1>2. PICK near : near = Near({8, 16}, prec)
  OBVIOUS
<1>3. PICK b : b = [a EXCEPT !.ok = TRUE,
                  !.cur = [rate |-> rate, fmt |-> fmt, prec |-> near, chan |-> chan],
                  !.hw = [rate |-> rate, fmt |-> fmt, chan |-> chan]]
  OBVIOUS
<1>4. FreeBSD_init(a) = b
  BY <1>1, <1>2, <1>3 DEF FreeBSD_init
<1>5. IsAudio(b) /\ Same(a, b) /\ b.fd = a.fd
  BY <1>3 DEF IsAudio, Same, Fields
<1>6. /\ b.cur = [rate |-> rate, fmt |-> fmt, prec |-> near, chan |-> chan]
      /\ b.hw = [rate |-> rate, fmt |-> fmt, chan |-> chan]
  BY <1>3 DEF IsAudio, Fields
<1>7. near \in {8, 16} /\ chan \in {1, 2} /\ rate \in Rates /\ fmt # "none"
  BY <1>1, <1>2, Nearest DEF OrFmt, FmtOf
<1>8. Good(b.cur) /\ Agrees(b)
  BY <1>6, <1>7 DEF Good, Agrees
<1>9. ASSUME Good(a.cur), a.opt = a.cur PROVE b.cur = a.cur
  <2>1. prec = a.cur.prec /\ chan = a.cur.chan /\ rate = a.cur.rate /\ fmt = a.cur.fmt
    BY <1>1, <1>9, Nearest DEF Good, Or, OrFmt
  <2>2. near = a.cur.prec
    BY <1>2, <1>9, <2>1, Nearest DEF Good
  <2> QED BY <1>6, <1>9, <2>1, <2>2 DEF Good
<1> QED BY <1>4, <1>5, <1>8, <1>9 DEF Drives, Succeeds, Settled, Same

(* The drivers that set the variables first and verify them then.          *)
LEMMA VerifiedDrives ==
    ASSUME driver \in {"solaris", "sun"}, NEW a, IsAudio(a),
           NEW rate, NEW fmt, NEW prec, NEW chan,
           Good(a.cur) /\ a.opt = a.cur
             => [rate |-> rate, fmt |-> fmt, prec |-> prec, chan |-> chan] = a.cur,
           NEW c, c = [rate |-> rate, fmt |-> fmt, prec |-> prec, chan |-> chan]
    PROVE  Drives(a, Verified(a, c)) /\ Succeeds(Verified(a, c))
<1>1. PICK set : set = [a EXCEPT !.cur = c, !.table = TRUE]
  OBVIOUS
<1>2. IsAudio(set) /\ Same(a, set) /\ set.cur = c /\ set.fd = a.fd /\ set.hw = a.hw
  BY <1>1 DEF IsAudio, Same, Fields
<1>3. CASE Good(c)
  <2>1. PICK b : b = [set EXCEPT !.ok = TRUE,
                         !.hw = [rate |-> c.rate, fmt |-> c.fmt, chan |-> c.chan]]
    OBVIOUS
  <2>2. Verified(a, c) = b
    BY <1>1, <1>3, <2>1 DEF Verified, Good
  <2>3. IsAudio(b) /\ Same(a, b) /\ b.cur = c /\ b.hw = [rate |-> c.rate, fmt |-> c.fmt, chan |-> c.chan]
    BY <1>2, <2>1 DEF IsAudio, Same, Fields
  <2>4. Good(b.cur) /\ Agrees(b)
    BY <1>3, <2>3 DEF Agrees
  <2> QED BY <2>2, <2>3, <2>4 DEF Drives, Succeeds, Settled, Same
<1>4. CASE ~Good(c)
  <2>1. PICK b : b = [set EXCEPT !.ok = FALSE]
    OBVIOUS
  <2>2. ~(/\ \/ c.prec = 8 /\ c.fmt \in {"ulaw", "linear8"}
             \/ c.prec = 16 /\ c.fmt = "linear16"
          /\ c.rate \in Rates /\ c.chan \in {1, 2})
    <3>1. c = [rate |-> c.rate, fmt |-> c.fmt, prec |-> c.prec, chan |-> c.chan]
      OBVIOUS
    <3> QED BY <1>4, <3>1 DEF Good
  <2>3. Verified(a, c) = b
    BY <1>1, <2>1, <2>2 DEF Verified, Fails
  <2>4. IsAudio(b) /\ Same(a, b) /\ b.ok = FALSE
    BY <1>2, <2>1 DEF IsAudio, Same, Fields
  <2>5. ~(Good(a.cur) /\ a.opt = a.cur)
    BY <1>4
  <2> QED BY <2>3, <2>4, <2>5 DEF Drives, Succeeds, Settled
<1> QED BY <1>3, <1>4

(* audio_solaris.c.                                                        *)
LEMMA solaris_Drives ==
    ASSUME driver = "solaris", NEW a, IsAudio(a)
    PROVE  Drives(a, solaris_init(a)) /\ Succeeds(solaris_init(a))
<1>1. PICK prec, chan, rate, fmt :
        /\ prec = Or(a.opt.prec, 16) /\ chan = Or(a.opt.chan, 1)
        /\ rate = Or(a.opt.rate, Max(Rates))
        /\ fmt = OrFmt(a.opt.fmt, IF prec = 16 THEN "linear16" ELSE "linear8")
  OBVIOUS
<1>2. PICK c : c = [rate |-> rate, fmt |-> fmt, prec |-> prec, chan |-> chan]
  OBVIOUS
<1>3. solaris_init(a) = Verified(a, c)
  BY <1>1, <1>2 DEF solaris_init
<1>4. ASSUME Good(a.cur), a.opt = a.cur
      PROVE  [rate |-> rate, fmt |-> fmt, prec |-> prec, chan |-> chan] = a.cur
  <2>1. prec = a.cur.prec /\ chan = a.cur.chan /\ rate = a.cur.rate /\ fmt = a.cur.fmt
    BY <1>1, <1>4, Nearest DEF Good, Or, OrFmt
  <2> QED BY <1>4, <2>1 DEF Good
<1> QED BY <1>2, <1>3, <1>4, VerifiedDrives

(* audio_sun.c.                                                            *)
LEMMA sun_Drives ==
    ASSUME driver = "sun", NEW a, IsAudio(a)
    PROVE  Drives(a, sun_init(a)) /\ Succeeds(sun_init(a))
<1>1. PICK prec, chan, rate, fmt :
        /\ prec = Or(a.opt.prec, 8) /\ chan = Or(a.opt.chan, 1)
        /\ rate = Or(a.opt.rate, Min(Rates)) /\ fmt = OrFmt(a.opt.fmt, "ulaw")
  OBVIOUS
<1>2. PICK c : c = [rate |-> rate, fmt |-> fmt, prec |-> prec, chan |-> chan]
  OBVIOUS
<1>3. sun_init(a) = Verified(a, c)
  BY <1>1, <1>2 DEF sun_init
<1>4. ASSUME Good(a.cur), a.opt = a.cur
      PROVE  [rate |-> rate, fmt |-> fmt, prec |-> prec, chan |-> chan] = a.cur
  <2>1. prec = a.cur.prec /\ chan = a.cur.chan /\ rate = a.cur.rate /\ fmt = a.cur.fmt
    BY <1>1, <1>4, Nearest DEF Good, Or, OrFmt
  <2> QED BY <1>4, <2>1 DEF Good
<1> QED BY <1>2, <1>3, <1>4, VerifiedDrives

(* audio_hpux.c.                                                           *)
LEMMA hpux_Drives ==
    ASSUME driver = "hpux", NEW a, IsAudio(a)
    PROVE  Drives(a, hpux_init(a)) /\ Succeeds(hpux_init(a))
<1>1. PICK prec, chan, rate, fmt :
        /\ fmt = (IF a.opt.fmt = "ulaw" THEN "ulaw" ELSE "linear16")
        /\ prec = (IF fmt = "ulaw" THEN 8 ELSE 16)
        /\ rate = Or(a.opt.rate, Min(Rates)) /\ chan = Or(a.opt.chan, 1)
  OBVIOUS
<1>2. PICK c : c = [rate |-> rate, chan |-> chan, fmt |-> fmt, prec |-> prec]
  OBVIOUS
<1>3. PICK set : set = [a EXCEPT !.cur = c]
  OBVIOUS
<1>4. IsAudio(set) /\ Same(a, set) /\ set.cur = c
  BY <1>2, <1>3 DEF IsAudio, Same, Fields
<1>5. ASSUME Good(a.cur), a.opt = a.cur PROVE c = a.cur
  <2>1. prec = a.cur.prec /\ chan = a.cur.chan /\ rate = a.cur.rate /\ fmt = a.cur.fmt
    BY <1>1, <1>5, Nearest DEF Good, Or
  <2> QED BY <1>2, <1>5, <2>1 DEF Good
<1>6. CASE rate \in Rates /\ chan \in {1, 2}
  <2>1. PICK b : b = [set EXCEPT !.ok = TRUE, !.hw = [rate |-> rate, fmt |-> fmt, chan |-> chan]]
    OBVIOUS
  <2>2. hpux_init(a) = b
    BY <1>1, <1>2, <1>3, <1>6, <2>1 DEF hpux_init
  <2>3. IsAudio(b) /\ Same(a, b) /\ b.cur = c /\ b.hw = [rate |-> rate, fmt |-> fmt, chan |-> chan]
    BY <1>4, <2>1 DEF IsAudio, Same, Fields
  <2>4. Good(b.cur) /\ Agrees(b)
    BY <1>1, <1>2, <1>6, <2>3 DEF Good, Agrees
  <2> QED BY <1>5, <2>2, <2>3, <2>4 DEF Drives, Succeeds, Settled, Same
<1>7. CASE ~(rate \in Rates /\ chan \in {1, 2})
  <2>1. ~(Good(a.cur) /\ a.opt = a.cur)
    BY <1>2, <1>5, <1>7 DEF Good
  <2>2. CASE rate \notin Rates
    <3>1. PICK b : b = [set EXCEPT !.ok = FALSE]
      OBVIOUS
    <3>2. hpux_init(a) = b
      BY <1>1, <1>2, <1>3, <2>2, <3>1 DEF hpux_init, Fails
    <3>3. IsAudio(b) /\ Same(a, b) /\ b.ok = FALSE
      BY <1>4, <3>1 DEF IsAudio, Same, Fields
    <3> QED BY <2>1, <3>2, <3>3 DEF Drives, Succeeds, Settled
  <2>3. CASE rate \in Rates
    <3>1. PICK half : half = [set EXCEPT !.hw.rate = rate]
      OBVIOUS
    <3>2. PICK b : b = [half EXCEPT !.ok = FALSE]
      OBVIOUS
    <3>3. hpux_init(a) = b
      BY <1>1, <1>2, <1>3, <1>7, <2>3, <3>1, <3>2 DEF hpux_init, Fails
    <3>4. IsAudio(half) /\ Same(a, half)
      BY <1>4, <3>1 DEF IsAudio, Same, Fields
    <3>5. IsAudio(b) /\ Same(a, b) /\ b.ok = FALSE
      BY <3>2, <3>4 DEF IsAudio, Same, Fields
    <3> QED BY <2>1, <3>3, <3>5 DEF Drives, Succeeds, Settled
  <2> QED BY <2>2, <2>3
<1> QED BY <1>6, <1>7

(* audio_generic.c.                                                        *)
LEMMA generic_Drives ==
    ASSUME driver = "generic", NEW a, IsAudio(a)
    PROVE  Drives(a, generic_init(a)) /\ Succeeds(generic_init(a))
<1>1. PICK rate : rate = Min(Rates)
  OBVIOUS
<1>2. PICK b : b = [a EXCEPT !.ok = TRUE, !.table = TRUE,
                  !.cur = [rate |-> rate, fmt |-> "ulaw", prec |-> 8, chan |-> 1],
                  !.hw = [rate |-> rate, fmt |-> "ulaw", chan |-> 1]]
  OBVIOUS
<1>3. generic_init(a) = b
  BY <1>1, <1>2 DEF generic_init
<1>4. IsAudio(b) /\ Same(a, b)
  BY <1>2 DEF IsAudio, Same, Fields
<1>5. /\ b.cur = [rate |-> rate, fmt |-> "ulaw", prec |-> 8, chan |-> 1]
      /\ b.hw = [rate |-> rate, fmt |-> "ulaw", chan |-> 1]
  BY <1>2 DEF IsAudio, Fields
<1>6. Good(b.cur) /\ Agrees(b)
  BY <1>1, <1>5, Nearest DEF Good, Agrees
<1>7. Good(a.cur) => b.cur = a.cur
  BY <1>1, <1>5 DEF Good
<1> QED BY <1>3, <1>4, <1>6, <1>7 DEF Drives, Succeeds, Settled, Same

(* A port that cannot be opened leaves the device closed.                  *)
LEMMA sgi_Drives ==
    ASSUME driver = "sgi", NEW a, IsAudio(a)
    PROVE  Drives(a, sgi_init(a)) /\ Succeeds(sgi_init(a))
<1>1. PICK prec, chan, rate, fmt :
        /\ prec = Or(a.opt.prec, 16) /\ chan = Or(a.opt.chan, 2)
        /\ rate = Or(a.opt.rate, Max(Rates))
        /\ fmt = (IF prec = 16 THEN "linear16" ELSE "linear8")
  OBVIOUS
<1>2. PICK width : width = [a EXCEPT !.cur.prec = prec]
  OBVIOUS
<1>3. PICK chans : chans = [width EXCEPT !.cur.fmt = fmt, !.cur.chan = chan]
  OBVIOUS
<1>4. PICK open : open = [chans EXCEPT !.fd = TRUE, !.cur.rate = rate, !.hw.fmt = fmt,
                                       !.hw.chan = chan]
  OBVIOUS
<1>5. /\ IsAudio(width) /\ Same(a, width) /\ width.hw = a.hw
      /\ width.cur = [rate |-> a.cur.rate, fmt |-> a.cur.fmt, prec |-> prec, chan |-> a.cur.chan]
  BY <1>2 DEF IsAudio, Same, Fields
<1>6. /\ IsAudio(chans) /\ Same(a, chans) /\ chans.hw = a.hw
      /\ chans.cur = [rate |-> a.cur.rate, fmt |-> fmt, prec |-> prec, chan |-> chan]
  <2>1. PICK w : w = [width EXCEPT !.cur.fmt = fmt]
    OBVIOUS
  <2>2. /\ IsAudio(w) /\ Same(a, w) /\ w.hw = a.hw
        /\ w.cur = [rate |-> a.cur.rate, fmt |-> fmt, prec |-> prec, chan |-> a.cur.chan]
    BY <1>5, <2>1 DEF IsAudio, Same, Fields
  <2>3. chans = [w EXCEPT !.cur.chan = chan]
    BY <1>3, <2>1
  <2> QED BY <2>2, <2>3 DEF IsAudio, Same, Fields
<1>7. /\ IsAudio(open) /\ Same(a, open)
      /\ open.cur = [rate |-> rate, fmt |-> fmt, prec |-> prec, chan |-> chan]
      /\ open.hw = [rate |-> a.hw.rate, fmt |-> fmt, chan |-> chan]
  <2>1. PICK f : f = [chans EXCEPT !.fd = TRUE]
    OBVIOUS
  <2>2. IsAudio(f) /\ Same(a, f) /\ f.hw = a.hw /\ f.cur = chans.cur
    BY <1>6, <2>1 DEF IsAudio, Same, Fields
  <2>3. PICK g : g = [f EXCEPT !.cur.rate = rate]
    OBVIOUS
  <2>4. /\ IsAudio(g) /\ Same(a, g) /\ g.hw = a.hw
        /\ g.cur = [rate |-> rate, fmt |-> fmt, prec |-> prec, chan |-> chan]
    BY <1>6, <2>2, <2>3 DEF IsAudio, Same, Fields
  <2>5. PICK h : h = [g EXCEPT !.hw.fmt = fmt]
    OBVIOUS
  <2>6. /\ IsAudio(h) /\ Same(a, h) /\ h.cur = g.cur
        /\ h.hw = [rate |-> a.hw.rate, fmt |-> fmt, chan |-> a.hw.chan]
    BY <2>4, <2>5 DEF IsAudio, Same, Fields
  <2>7. open = [h EXCEPT !.hw.chan = chan]
    BY <1>4, <2>1, <2>3, <2>5
  <2> QED BY <2>4, <2>6, <2>7 DEF IsAudio, Same, Fields
<1>8. ASSUME Good(a.cur), a.opt = a.cur
      PROVE  /\ prec = a.cur.prec /\ chan = a.cur.chan /\ rate = a.cur.rate /\ fmt = a.cur.fmt
             /\ prec \in {8, 16} /\ chan \in {1, 2} /\ rate \in Rates
  BY <1>1, <1>8, Nearest DEF Good, Or
<1>9. CASE prec \notin {8, 16}
  <2>1. PICK b : b = [width EXCEPT !.ok = FALSE]
    OBVIOUS
  <2>2. sgi_init(a) = b
    BY <1>1, <1>2, <1>9, <2>1 DEF sgi_init, Fails
  <2>3. IsAudio(b) /\ Same(a, b) /\ b.ok = FALSE
    BY <1>5, <2>1 DEF IsAudio, Same, Fields
  <2> QED BY <1>8, <1>9, <2>2, <2>3 DEF Drives, Succeeds, Settled
<1>10. CASE prec \in {8, 16} /\ chan \notin {1, 2}
  <2>1. PICK b : b = [chans EXCEPT !.ok = FALSE]
    OBVIOUS
  <2>2. sgi_init(a) = b
    BY <1>1, <1>2, <1>3, <1>10, <2>1 DEF sgi_init, Fails
  <2>3. IsAudio(b) /\ Same(a, b) /\ b.ok = FALSE
    BY <1>6, <2>1 DEF IsAudio, Same, Fields
  <2> QED BY <1>8, <1>10, <2>2, <2>3 DEF Drives, Succeeds, Settled
<1>11. CASE prec \in {8, 16} /\ chan \in {1, 2} /\ busy
  <2>1. PICK shut : shut = [chans EXCEPT !.fd = FALSE, !.hw = NoHw]
    OBVIOUS
  <2>2. PICK b : b = [shut EXCEPT !.ok = FALSE]
    OBVIOUS
  <2>3. sgi_init(a) = b
    BY <1>1, <1>2, <1>3, <1>11, <2>1, <2>2 DEF sgi_init, Fails
  <2>4. IsAudio(shut) /\ Same(a, shut) /\ shut.fd = FALSE /\ shut.cur = chans.cur
    BY <1>6, <2>1 DEF IsAudio, Same, Fields, NoHw
  <2>5. IsAudio(b) /\ Same(a, b) /\ b.ok = FALSE /\ b.fd = FALSE /\ b.cur = chans.cur
    BY <2>2, <2>4 DEF IsAudio, Same, Fields
  <2>6. ASSUME Good(a.cur), a.opt = a.cur PROVE b.cur = a.cur
    BY <1>6, <1>8, <2>5, <2>6 DEF Good
  <2> QED BY <2>3, <2>5, <2>6 DEF Drives, Succeeds, Settled, Same
<1>12. CASE prec \in {8, 16} /\ chan \in {1, 2} /\ ~busy /\ rate \in Rates
  <2>1. PICK b : b = [open EXCEPT !.ok = TRUE, !.hw.rate = rate]
    OBVIOUS
  <2>2. sgi_init(a) = b
    BY <1>1, <1>2, <1>3, <1>4, <1>12, <2>1 DEF sgi_init
  <2>3. IsAudio(b) /\ Same(a, b) /\ b.cur = open.cur /\ b.hw = [rate |-> rate, fmt |-> fmt, chan |-> chan]
    BY <1>7, <2>1 DEF IsAudio, Same, Fields
  <2>4. Good(b.cur) /\ Agrees(b)
    BY <1>1, <1>7, <1>12, <2>3 DEF Good, Agrees
  <2>5. ASSUME Good(a.cur), a.opt = a.cur PROVE b.cur = a.cur
    BY <1>7, <1>8, <2>3, <2>5 DEF Good
  <2> QED BY <2>2, <2>3, <2>4, <2>5 DEF Drives, Succeeds, Settled, Same
<1>13. CASE prec \in {8, 16} /\ chan \in {1, 2} /\ ~busy /\ rate \notin Rates
  <2>1. PICK b : b = [open EXCEPT !.ok = FALSE]
    OBVIOUS
  <2>2. sgi_init(a) = b
    BY <1>1, <1>2, <1>3, <1>4, <1>13, <2>1 DEF sgi_init, Fails
  <2>3. IsAudio(b) /\ Same(a, b) /\ b.ok = FALSE
    BY <1>7, <2>1 DEF IsAudio, Same, Fields
  <2> QED BY <1>8, <1>13, <2>2, <2>3 DEF Drives, Succeeds, Settled
<1> QED BY <1>9, <1>10, <1>11, <1>12, <1>13
(* The same of opening the device,                                         *)
LEMMA OpenDrives ==
    ASSUME driver \in Drivers, NEW a, IsAudio(a), ~a.fd
    PROVE  Drives(a, rplay_audio_open(a)) /\ Succeeds(rplay_audio_open(a))
<1>1. driver \in {"oss", "FreeBSD", "solaris", "sun", "hpux", "sgi", "generic"}
  BY DriverAssumption
<1>2. CASE driver = "sgi"
  BY <1>2, sgi_Drives DEF rplay_audio_open, sgi_open
<1>3. CASE driver # "sgi" /\ busy
  <2>1. PICK b : b = [a EXCEPT !.ok = FALSE]
    OBVIOUS
  <2>2. rplay_audio_open(a) = b
    BY <1>1, <1>3, <2>1 DEF rplay_audio_open, oss_open, FreeBSD_open, solaris_open, sun_open,
                            hpux_open, generic_open, Opened, Fails
  <2>3. IsAudio(b) /\ Same(a, b) /\ b.ok = FALSE /\ b.cur = a.cur /\ b.fd = a.fd
    BY <2>1 DEF IsAudio, Same, Fields
  <2> QED BY <2>2, <2>3 DEF Drives, Succeeds, Settled, Same
<1>4. CASE driver # "sgi" /\ ~busy
  <2>1. PICK f : f = [a EXCEPT !.fd = TRUE]
    OBVIOUS
  <2>2. IsAudio(f) /\ Same(a, f) /\ f.cur = a.cur /\ f.fd = TRUE
    BY <2>1 DEF IsAudio, Same, Fields
  <2>3. PICK b : b = rplay_audio_open(a)
    OBVIOUS
  <2>4. Drives(f, b) /\ Succeeds(b)
    <3>1. CASE driver = "oss"
      BY <1>4, <2>1, <2>2, <2>3, <3>1, oss_Drives DEF rplay_audio_open, oss_open, Opened
    <3>2. CASE driver = "FreeBSD"
      BY <1>4, <2>1, <2>2, <2>3, <3>2, FreeBSD_Drives DEF rplay_audio_open, FreeBSD_open, Opened
    <3>3. CASE driver = "solaris"
      BY <1>4, <2>1, <2>2, <2>3, <3>3, solaris_Drives DEF rplay_audio_open, solaris_open, Opened
    <3>4. CASE driver = "sun"
      BY <1>4, <2>1, <2>2, <2>3, <3>4, sun_Drives DEF rplay_audio_open, sun_open, Opened
    <3>5. CASE driver = "hpux"
      BY <1>4, <2>1, <2>2, <2>3, <3>5, hpux_Drives DEF rplay_audio_open, hpux_open, Opened
    <3>6. CASE driver = "generic"
      BY <1>4, <2>1, <2>2, <2>3, <3>6, generic_Drives DEF rplay_audio_open, generic_open, Opened
    <3> QED BY <1>1, <1>4, <3>1, <3>2, <3>3, <3>4, <3>5, <3>6
  <2> QED BY <2>2, <2>3, <2>4 DEF Drives, Same
<1> QED BY <1>2, <1>3, <1>4

(* of setting it anew,                                                     *)
LEMMA InitDrives ==
    ASSUME driver \in Drivers, NEW a, IsAudio(a)
    PROVE  Drives(a, rplay_audio_init(a)) /\ Succeeds(rplay_audio_init(a))
<1>1. driver \in {"oss", "FreeBSD", "solaris", "sun", "hpux", "sgi", "generic"}
  BY DriverAssumption
<1>2. CASE ~a.fd
  BY <1>2, OpenDrives DEF rplay_audio_init
<1>3. CASE a.fd
  <2>1. PICK b : b = rplay_audio_init(a)
    OBVIOUS
  <2>2. CASE driver = "oss"
    BY <1>3, <2>1, <2>2, oss_Drives DEF rplay_audio_init
  <2>3. CASE driver = "FreeBSD"
    BY <1>3, <2>1, <2>3, FreeBSD_Drives DEF rplay_audio_init
  <2>4. CASE driver = "solaris"
    BY <1>3, <2>1, <2>4, solaris_Drives DEF rplay_audio_init
  <2>5. CASE driver = "sun"
    BY <1>3, <2>1, <2>5, sun_Drives DEF rplay_audio_init
  <2>6. CASE driver = "hpux"
    BY <1>3, <2>1, <2>6, hpux_Drives DEF rplay_audio_init
  <2>7. CASE driver = "generic"
    BY <1>3, <2>1, <2>7, generic_Drives DEF rplay_audio_init
  <2>8. CASE driver = "sgi"
    BY <1>3, <2>1, <2>8, sgi_Drives DEF rplay_audio_init
  <2> QED BY <1>1, <2>2, <2>3, <2>4, <2>5, <2>6, <2>7, <2>8
<1> QED BY <1>2, <1>3

(* and of the volume, for which some drivers open the device.              *)
LEMMA VolumeDrives ==
    ASSUME driver \in Drivers, NEW a, IsAudio(a)
    PROVE  /\ IsAudio(rplay_audio_get_volume(a)) /\ Same(a, rplay_audio_get_volume(a))
           /\ Settled(a) => /\ Settled(rplay_audio_get_volume(a))
                            /\ rplay_audio_get_volume(a).cur = a.cur
<1>1. driver \in {"oss", "FreeBSD", "solaris", "sun", "hpux", "sgi", "generic"}
  BY DriverAssumption
<1>2. \/ rplay_audio_get_volume(a) = a
      \/ ~a.fd /\ rplay_audio_get_volume(a) = rplay_audio_open(a)
  BY <1>1 DEF rplay_audio_get_volume, oss_volume, FreeBSD_volume, solaris_volume, sun_volume,
              hpux_volume, sgi_volume, generic_volume
<1>3. CASE rplay_audio_get_volume(a) = a
  BY <1>3 DEF Same
<1>4. CASE ~a.fd /\ rplay_audio_get_volume(a) = rplay_audio_open(a)
  BY <1>4, OpenDrives DEF Drives, Settled
<1> QED BY <1>2, <1>3, <1>4
-----------------------------------------------------------------------------
(* rplayd_audio_init and rplayd_audio_match.                               *)

(* A turn of the timer writes whole samples.                               *)
Whole(a) == driver # "oss" => /\ a.cur.rate % a.curr_rate = 0
                              /\ a.curr_bufsize % SampleSize(a.cur) = 0
Counts(a) == a.rplay_audio_rate \in Nat /\ a.rplay_audio_bufsize \in Nat

(* The slower rate divides the sample rate: 1 does.                        *)
LEMMA SlowDownDivides ==
    ASSUME NEW rate \in Nat \ {0}, NEW sample_rate \in Nat \ {0}
    PROVE  /\ SlowDown(rate, sample_rate) \in Nat \ {0}
           /\ sample_rate % SlowDown(rate, sample_rate) = 0
<1>1. PICK S : S = {r \in 1..rate : sample_rate % r = 0}
  OBVIOUS
<1>2. 1 \in S /\ S \subseteq Nat /\ \A r \in S : r <= rate
  BY <1>1
<1>3. Max(S) \in S
  BY <1>2, MaxIn
<1>4. SlowDown(rate, sample_rate) = Max(S)
  BY <1>1 DEF SlowDown
<1> QED BY <1>1, <1>3, <1>4

(* Among as many sizes as a sample has bytes, one holds whole samples.     *)
LEMMA RoundUpWhole ==
    ASSUME NEW size \in Nat, NEW unit \in {1, 2, 4}
    PROVE  RoundUp(size, unit) \in Nat /\ RoundUp(size, unit) % unit = 0
<1>1. PICK S : S = {k \in size..(size + unit) : k % unit = 0}
  OBVIOUS
<1>2. S # {}
  <2>1. CASE unit = 1
    <3>1. size % 1 = 0 /\ size \in size..(size + 1)
      OBVIOUS
    <3> QED BY <1>1, <2>1, <3>1
  <2>2. CASE unit = 2
    <3>1. \E k \in {size, size + 1} : k % 2 = 0
      OBVIOUS
    <3>2. PICK k \in {size, size + 1} : k % 2 = 0
      BY <3>1
    <3>3. k \in size..(size + 2)
      OBVIOUS
    <3>4. k \in S
      BY <1>1, <2>2, <3>2, <3>3
    <3> QED BY <3>4
  <2>3. CASE unit = 4
    <3>1. \E k \in {size, size + 1, size + 2, size + 3} : k % 4 = 0
      OBVIOUS
    <3>2. PICK k \in {size, size + 1, size + 2, size + 3} : k % 4 = 0
      BY <3>1
    <3>3. k \in size..(size + 4)
      OBVIOUS
    <3>4. k \in S
      BY <1>1, <2>3, <3>2, <3>3
    <3> QED BY <3>4
  <2> QED BY <2>1, <2>2, <2>3
<1>3. S \subseteq Nat
  BY <1>1
<1>4. Min(S) \in S
  BY <1>2, <1>3, MinIn
<1>5. RoundUp(size, unit) = Min(S)
  BY <1>1 DEF RoundUp
<1> QED BY <1>1, <1>4, <1>5

(* The timer rate and the buffer size that rplayd_audio_init computes fit  *)
(* together, and the device is left alone.                                 *)
LEMMA TimingWhole ==
    ASSUME NEW a, IsAudio(a), Good(a.cur), Counts(a)
    PROVE  /\ IsAudio(Timing(a)) /\ Counts(Timing(a)) /\ Whole(Timing(a))
           /\ Timing(a).enabled = a.enabled /\ Timing(a).bad = a.bad /\ Timing(a).fd = a.fd
           /\ Timing(a).cur = a.cur /\ Timing(a).opt = a.opt /\ Timing(a).hw = a.hw
<1>1. PICK rate : rate = IF rplay_audio_match \/ a.rplay_audio_rate = 0 THEN RPLAY_AUDIO_RATE
                                                                      ELSE a.rplay_audio_rate
  OBVIOUS
<1>2. rate \in Nat \ {0}
  BY <1>1, RateAssumption DEF Counts
<1>3. a.cur.rate \in Nat \ {0}
  BY RateAssumption DEF Good
<1>4. PICK unit : unit = SampleSize(a.cur)
  OBVIOUS
<1>5. unit \in {1, 2, 4}
  <2>1. PICK prec, chan : prec = a.cur.prec /\ chan = a.cur.chan
    OBVIOUS
  <2>2. prec \in {8, 16} /\ chan \in {1, 2}
    BY <2>1 DEF Good
  <2>3. (prec \div 8) * chan \in {1, 2, 4}
    BY <2>2
  <2> QED BY <1>4, <2>1, <2>3 DEF SampleSize
<1>6. PICK curr : curr = SlowDown(rate, a.cur.rate)
  OBVIOUS
<1>7. curr \in Nat \ {0} /\ a.cur.rate % curr = 0
  BY <1>2, <1>3, <1>6, SlowDownDivides
<1>8. PICK size : size = IF rplay_audio_match \/ a.rplay_audio_bufsize = 0
                         THEN (a.cur.rate \div curr) * unit ELSE a.rplay_audio_bufsize
  OBVIOUS
<1>9. size \in Nat
  <2>1. PICK q : q = a.cur.rate \div curr
    OBVIOUS
  <2>2. q \in Nat
    BY <1>3, <1>7, <2>1
  <2>3. q * unit \in Nat
    BY <1>5, <2>2
  <2> QED BY <1>8, <2>1, <2>3 DEF Counts
<1>10. PICK round : round = RoundUp(size, unit)
  OBVIOUS
<1>11. round \in Nat /\ round % unit = 0
  BY <1>5, <1>9, <1>10, RoundUpWhole
<1>12. CASE driver = "oss"
  <2>1. PICK b : b = [a EXCEPT !.rplay_audio_rate = rate, !.curr_rate = rate]
    OBVIOUS
  <2>2. Timing(a) = b
    BY <1>1, <1>12, <2>1 DEF Timing
  <2>3. /\ DOMAIN b = Fields /\ b.rplay_audio_rate = rate
        /\ b.rplay_audio_bufsize = a.rplay_audio_bufsize
        /\ b.enabled = a.enabled /\ b.bad = a.bad /\ b.fd = a.fd
        /\ b.cur = a.cur /\ b.opt = a.opt /\ b.hw = a.hw
    BY <2>1 DEF IsAudio, Fields
  <2> QED BY <1>2, <1>12, <2>2, <2>3 DEF IsAudio, Counts, Whole
<1>13. CASE driver # "oss"
  <2>1. PICK b : b = [a EXCEPT !.rplay_audio_rate = rate, !.curr_rate = curr,
                               !.rplay_audio_bufsize = size, !.curr_bufsize = round]
    OBVIOUS
  <2>2. Timing(a) = b
    BY <1>1, <1>4, <1>6, <1>8, <1>10, <1>13, <2>1 DEF Timing
  <2>3. /\ DOMAIN b = Fields /\ b.rplay_audio_rate = rate /\ b.rplay_audio_bufsize = size
        /\ b.curr_rate = curr /\ b.curr_bufsize = round
        /\ b.enabled = a.enabled /\ b.bad = a.bad /\ b.fd = a.fd
        /\ b.cur = a.cur /\ b.opt = a.opt /\ b.hw = a.hw
    BY <2>1 DEF IsAudio, Fields
  <2> QED BY <1>2, <1>4, <1>7, <1>9, <1>11, <2>2, <2>3 DEF IsAudio, Counts, Whole
<1> QED BY <1>12, <1>13

(* What rplayd can rely on after rplayd_audio_init went well.              *)
Ready(a) == a.enabled /\ ~a.bad => Settled(a) /\ Whole(a)

(* rplayd_audio_init: the audio is disabled, bad, or ready.                *)
LEMMA InitReady ==
    ASSUME driver \in Drivers, NEW a, IsAudio(a), Counts(a)
    PROVE  /\ IsAudio(rplayd_audio_init(a)) /\ Counts(rplayd_audio_init(a))
           /\ Ready(rplayd_audio_init(a))
<1>1. PICK t : t = [a EXCEPT !.table = FALSE]
  OBVIOUS
<1>2. IsAudio(t) /\ Counts(t)
  BY <1>1 DEF IsAudio, Fields, Counts
<1>3. PICK set : set = rplay_audio_init(t)
  OBVIOUS
<1>4. IsAudio(set) /\ Counts(set) /\ Succeeds(set)
  BY <1>2, <1>3, InitDrives DEF Drives, Same, Counts
<1>5. CASE ~a.enabled
  <2>1. PICK b : b = [a EXCEPT !.ok = FALSE, !.bad = TRUE]
    OBVIOUS
  <2>2. rplayd_audio_init(a) = b
    BY <1>5, <2>1 DEF rplayd_audio_init
  <2>3. IsAudio(b) /\ Counts(b) /\ b.bad = TRUE
    BY <2>1 DEF IsAudio, Fields, Counts
  <2> QED BY <2>2, <2>3 DEF Ready
<1>6. CASE a.enabled /\ ~set.ok
  <2>1. PICK b : b = [set EXCEPT !.bad = TRUE]
    OBVIOUS
  <2>2. rplayd_audio_init(a) = b
    BY <1>1, <1>3, <1>6, <2>1 DEF rplayd_audio_init
  <2>3. IsAudio(b) /\ Counts(b) /\ b.bad = TRUE
    BY <1>4, <2>1 DEF IsAudio, Fields, Counts
  <2> QED BY <2>2, <2>3 DEF Ready
<1>7. CASE a.enabled /\ set.ok
  <2>1. PICK c : c = [set EXCEPT !.opt = set.cur, !.bad = FALSE]
    OBVIOUS
  <2>2. /\ IsAudio(c) /\ Counts(c) /\ c.opt = set.cur /\ c.cur = set.cur /\ c.hw = set.hw
        /\ c.bad = FALSE
    BY <1>4, <2>1 DEF IsAudio, Fields, Counts
  <2>3. Good(c.cur) /\ Agrees(c)
    BY <1>4, <1>7, <2>2 DEF Succeeds, Agrees
  <2>4. PICK d : d = Timing(c)
    OBVIOUS
  <2>5. /\ IsAudio(d) /\ Counts(d) /\ Whole(d) /\ d.bad = FALSE
        /\ d.cur = c.cur /\ d.opt = c.opt /\ d.hw = c.hw
    BY <2>2, <2>3, <2>4, TimingWhole
  <2>6. Settled(d)
    BY <2>2, <2>3, <2>5 DEF Settled, Agrees
  <2>7. PICK b : b = rplay_audio_get_volume(d)
    OBVIOUS
  <2>8. IsAudio(b) /\ Same(d, b) /\ Settled(b) /\ b.cur = d.cur
    BY <2>5, <2>6, <2>7, VolumeDrives
  <2>9. Counts(b) /\ Whole(b)
    BY <2>5, <2>8 DEF Counts, Whole, Same
  <2>10. rplayd_audio_init(a) = b
    BY <1>1, <1>3, <1>7, <2>1, <2>4, <2>7 DEF rplayd_audio_init
  <2> QED BY <2>8, <2>9, <2>10 DEF Ready
<1> QED BY <1>5, <1>6, <1>7

(* rplayd_audio_match leaves the audio ready too.                          *)
LEMMA MatchedReady ==
    ASSUME driver \in Drivers, NEW a, IsAudio(a), Counts(a), NEW r
    PROVE  IsAudio(Matched(a, r)) /\ Counts(Matched(a, r)) /\ Ready(Matched(a, r))
<1>1. PICK x : x = IF a.table THEN Closest(r) ELSE r
  OBVIOUS
<1>2. PICK b : b = [a EXCEPT !.opt.rate = x]
  OBVIOUS
<1>3. IsAudio(b) /\ Counts(b)
  BY <1>2 DEF IsAudio, Fields, Counts
<1>4. PICK first : first = rplayd_audio_init(b)
  OBVIOUS
<1>5. IsAudio(first) /\ Counts(first) /\ Ready(first)
  BY <1>3, <1>4, InitReady
<1>6. PICK c : c = [first EXCEPT !.opt.rate = a.default]
  OBVIOUS
<1>7. IsAudio(c) /\ Counts(c)
  BY <1>5, <1>6 DEF IsAudio, Fields, Counts
<1>8. PICK second : second = rplayd_audio_init(c)
  OBVIOUS
<1>9. IsAudio(second) /\ Counts(second) /\ Ready(second)
  BY <1>7, <1>8, InitReady
<1>10. Matched(a, r) = first \/ Matched(a, r) = second
  BY <1>1, <1>2, <1>4, <1>6, <1>8 DEF Matched
<1> QED BY <1>5, <1>9, <1>10
(* Closing the device, and forgetting what the last function returned.     *)
LEMMA CloseReady ==
    ASSUME NEW a, IsAudio(a), Counts(a)
    PROVE  /\ IsAudio(rplay_audio_close(a)) /\ Counts(rplay_audio_close(a))
           /\ rplay_audio_close(a).enabled = a.enabled /\ rplay_audio_close(a).bad = a.bad
           /\ rplay_audio_close(a).cur = a.cur
           /\ Ready(a) => Ready(rplay_audio_close(a))
<1>1. PICK b : b = [a EXCEPT !.fd = FALSE, !.hw = NoHw]
  OBVIOUS
<1>2. /\ IsAudio(b) /\ Counts(b) /\ b.enabled = a.enabled /\ b.bad = a.bad /\ b.cur = a.cur
      /\ b.opt = a.opt /\ b.fd = FALSE /\ b.curr_rate = a.curr_rate
      /\ b.curr_bufsize = a.curr_bufsize
  BY <1>1 DEF IsAudio, Counts, Fields, NoHw
<1>3. Ready(a) => Ready(b)
  BY <1>2 DEF Ready, Settled, Whole
<1> QED BY <1>1, <1>2, <1>3 DEF rplay_audio_close

(* A result that is only noted disturbs nothing.                           *)
LEMMA KeptReady ==
    ASSUME NEW a, IsAudio(a), Counts(a)
    PROVE  /\ IsAudio(Kept(a)) /\ Counts(Kept(a))
           /\ Kept(a).enabled = a.enabled /\ Kept(a).bad = a.bad /\ Kept(a).cur = a.cur
           /\ Ready(a) => Ready(Kept(a))
<1>1. PICK b : b = [a EXCEPT !.ok = TRUE]
  OBVIOUS
<1>2. /\ IsAudio(b) /\ Counts(b) /\ b.enabled = a.enabled /\ b.bad = a.bad /\ b.cur = a.cur
      /\ b.opt = a.opt /\ b.fd = a.fd /\ b.hw = a.hw /\ b.curr_rate = a.curr_rate
      /\ b.curr_bufsize = a.curr_bufsize
  BY <1>1 DEF IsAudio, Counts, Fields
<1>3. Ready(a) => Ready(b)
  BY <1>2 DEF Ready, Settled, Whole, Agrees
<1> QED BY <1>1, <1>2, <1>3 DEF Kept

-----------------------------------------------------------------------------
(* The inductive invariant.                                                *)

EntryFields == {"state", "rate", "base"}
EntriesOK ==
    /\ DOMAIN entry = Entries
    /\ \A e \in Entries : DOMAIN entry[e] = EntryFields
    /\ pc = "boot" => \A e \in Entries : entry[e].state = "none"

(* Ready is what the drivers need in order to set the device to the same   *)
(* again; ConfigAgrees alone would let opening it change the sample rate.  *)
DInv ==
    /\ driver \in Drivers /\ IsAudio(audio) /\ Counts(audio)
    /\ pc # "boot" => Ready(audio)
    /\ EntriesOK /\ FactorsRight

(* A step that leaves the entries alone or removes some, sets the device   *)
(* to what it was set to, and keeps the sample rate.                       *)
LEMMA SameRate ==
    ASSUME DInv, pc # "boot", pc' # "boot", driver' = driver,
           IsAudio(audio'), Counts(audio'), Ready(audio'),
           audio'.enabled = audio.enabled /\ audio'.bad = audio.bad,
           audio.enabled /\ ~audio.bad => audio'.cur = audio.cur,
           DOMAIN entry' = Entries,
           \A e \in Entries : \/ entry'[e] = entry[e] \/ entry'[e] = NoEntry
                              \/ /\ entry'[e].state \in {"play", "pause"}
                                 /\ entry[e].state \in {"play", "pause"}
                                 /\ entry'[e].base = entry[e].base
                                 /\ DOMAIN entry'[e] = EntryFields
    PROVE  DInv'
<1>1. /\ DOMAIN NoEntry = EntryFields /\ NoEntry.state = "none"
  BY DEF NoEntry, EntryFields
<1>2. EntriesOK'
  <2>1. \A e \in Entries : DOMAIN entry'[e] = EntryFields
    BY <1>1 DEF DInv, EntriesOK
  <2> QED BY <2>1 DEF EntriesOK
<1>3. FactorsRight'
  <2> SUFFICES ASSUME audio'.enabled, ~audio'.bad,
                      NEW e \in Entries, entry'[e].state \in {"play", "pause"}
               PROVE  entry'[e].base = audio'.cur.rate
    BY DEF FactorsRight, In
  <2>1. entry[e].state \in {"play", "pause"} /\ entry'[e].base = entry[e].base
    BY <1>1
  <2>2. entry[e].base = audio.cur.rate
    BY <2>1 DEF DInv, FactorsRight, In
  <2> QED BY <2>1, <2>2
<1>4. Ready(audio)' /\ IsAudio(audio)' /\ Counts(audio)' /\ driver' \in Drivers
  BY DEF DInv, Ready, Settled, Good, Agrees, Whole, SampleSize, IsAudio, Counts
<1> QED BY <1>2, <1>3, <1>4 DEF DInv
(* A step that gives the entries what divides by the rate in use.          *)
LEMMA Divided ==
    ASSUME DInv, pc' # "boot", driver' = driver,
           IsAudio(audio'), Counts(audio'), Ready(audio'), DOMAIN entry' = Entries,
           \A e \in Entries : DOMAIN entry'[e] = EntryFields,
           audio'.enabled /\ ~audio'.bad =>
               \A e \in Entries : entry'[e].state \in {"play", "pause"}
                                    => entry'[e].base = audio'.cur.rate
    PROVE  DInv'
<1>1. EntriesOK'
  BY DEF EntriesOK
<1>2. FactorsRight'
  BY DEF FactorsRight, In
<1>3. Ready(audio)' /\ IsAudio(audio)' /\ Counts(audio)' /\ driver' \in Drivers
  BY DEF DInv, Ready, Settled, Good, Agrees, Whole, SampleSize, IsAudio, Counts
<1> QED BY <1>1, <1>2, <1>3 DEF DInv

(* rplayd_audio_match                                                      *)
LEMMA MatchDivides ==
    ASSUME DInv, pc # "boot", pc' # "boot", driver' = driver,
           NEW e \in Entries, NEW entries, Match(e, entries), DOMAIN entries = Entries,
           \A x \in Entries : DOMAIN entries[x] = EntryFields,
           audio.enabled /\ ~audio.bad =>
               \A x \in Entries : entries[x].state \in {"play", "pause"}
                                    => entries[x].base = audio.cur.rate
    PROVE  DInv'
<1>1. CASE entry' = entries /\ audio' = audio
  <2>1. IsAudio(audio') /\ Counts(audio') /\ Ready(audio')
    BY <1>1 DEF DInv
  <2> QED BY <1>1, <2>1, Divided
<1>2. CASE \E r : audio' = Kept(Matched(audio, r)) /\ entry' = Refactored(entries, Matched(audio, r))
  <2>1. PICK r : audio' = Kept(Matched(audio, r))
                 /\ entry' = Refactored(entries, Matched(audio, r))
    BY <1>2
  <2>2. PICK a : a = Matched(audio, r)
    OBVIOUS
  <2>3. IsAudio(a) /\ Counts(a) /\ Ready(a)
    BY <2>2, MatchedReady DEF DInv
  <2>4. IsAudio(audio') /\ Counts(audio') /\ Ready(audio') /\ audio'.cur = a.cur
    BY <2>1, <2>2, <2>3, KeptReady
  <2>5. entry' = [x \in Entries |-> IF entries[x].state = "none" THEN entries[x]
                                    ELSE [entries[x] EXCEPT !.base = a.cur.rate]]
    BY <2>1, <2>2 DEF Refactored
  <2>6. DOMAIN entry' = Entries
    BY <2>5
  <2>7. ASSUME NEW x \in Entries
        PROVE  /\ DOMAIN entry'[x] = EntryFields
               /\ entry'[x].state \in {"play", "pause"} => entry'[x].base = a.cur.rate
    <3>1. PICK o : o = entries[x]
      OBVIOUS
    <3>2. entry'[x] = IF o.state = "none" THEN o ELSE [o EXCEPT !.base = a.cur.rate]
      BY <2>5, <3>1
    <3>3. DOMAIN o = EntryFields
      BY <3>1
    <3> QED BY <3>2, <3>3 DEF EntryFields
  <2> QED BY <2>4, <2>6, <2>7, Divided
<1> QED BY <1>1, <1>2 DEF Match

(* What reading leaves alone.                                              *)
LEMMA ReadLeaves ==
    ASSUME Read
    PROVE  pc # "boot" /\ pc' # "boot" /\ driver' = driver
BY DEF Read

(* Opening the device when it is closed, or setting it anew, as it was.    *)
LEMMA DrivesReady ==
    ASSUME NEW a, NEW b, IsAudio(a), Counts(a), Ready(a), IsAudio(b), Same(a, b),
           Settled(a) => Settled(b) /\ b.cur = a.cur
    PROVE  /\ IsAudio(Kept(b)) /\ Counts(Kept(b)) /\ Ready(Kept(b))
           /\ Kept(b).enabled = a.enabled /\ Kept(b).bad = a.bad
           /\ a.enabled /\ ~a.bad => Kept(b).cur = a.cur
<1>1. Counts(b) /\ b.enabled = a.enabled /\ b.bad = a.bad
  BY DEF Counts, Same
<1>2. Ready(b)
  BY <1>1 DEF Ready, Whole, Same
<1>3. a.enabled /\ ~a.bad => b.cur = a.cur
  BY DEF Ready
<1> QED BY <1>1, <1>2, <1>3, KeptReady

(* The options of the command line touch no device.                        *)
LEMMA DInvInit == Init => DInv
<1> SUFFICES ASSUME Init PROVE DInv
  OBVIOUS
<1>1. PICK start \in Starts, rate \in StartRates, size \in StartSizes :
        audio = [NoAudio EXCEPT !.opt = start @@ NoConfig, !.rplay_audio_rate = rate,
                                !.rplay_audio_bufsize = size]
  BY DEF Init
<1>2. PICK opt : opt = start @@ NoConfig
  OBVIOUS
<1>3. /\ audio.cur = NoConfig /\ audio.hw = NoHw /\ audio.rplay_audio_rate = rate
      /\ audio.rplay_audio_bufsize = size /\ DOMAIN audio = Fields
  BY <1>1, <1>2 DEF NoAudio, Fields
<1>4. IsAudio(audio) /\ Counts(audio)
  BY <1>3, RateAssumption DEF IsAudio, Counts, NoConfig, NoHw
<1>5. \A e \in Entries : DOMAIN entry[e] = EntryFields /\ entry[e].state = "none"
  BY DEF Init, NoEntry, EntryFields
<1>6. EntriesOK
  BY <1>5 DEF EntriesOK, Init
<1>7. FactorsRight
  BY <1>5 DEF FactorsRight, In
<1> QED BY <1>4, <1>6, <1>7 DEF DInv, Init
-----------------------------------------------------------------------------
(* The actions.                                                            *)

(* main: the device is probed and closed again.                            *)
LEMMA mainKeeps == ASSUME DInv, main PROVE DInv'
<1>1. PICK a : a = rplayd_audio_init(audio)
  OBVIOUS
<1>2. /\ pc = "boot" /\ pc' = "top" /\ driver' = driver /\ entry' = entry
      /\ audio' = IF a.ok THEN rplay_audio_close([a EXCEPT !.default = a.cur.rate])
                          ELSE Kept([a EXCEPT !.enabled = FALSE])
  BY <1>1 DEF main
<1>3. IsAudio(a) /\ Counts(a) /\ Ready(a)
  BY <1>1, InitReady DEF DInv
<1>4. IsAudio(audio') /\ Counts(audio') /\ Ready(audio')
  <2>1. CASE a.ok
    <3>1. PICK b : b = [a EXCEPT !.default = a.cur.rate]
      OBVIOUS
    <3>2. /\ IsAudio(b) /\ Counts(b) /\ b.enabled = a.enabled /\ b.bad = a.bad /\ b.cur = a.cur
          /\ b.opt = a.opt /\ b.fd = a.fd /\ b.hw = a.hw /\ b.curr_rate = a.curr_rate
          /\ b.curr_bufsize = a.curr_bufsize
      BY <1>3, <3>1 DEF IsAudio, Counts, Fields
    <3>3. Ready(b)
      BY <1>3, <3>2 DEF Ready, Settled, Whole, Agrees
    <3> QED BY <1>2, <2>1, <3>1, <3>2, <3>3, CloseReady
  <2>2. CASE ~a.ok
    <3>1. PICK b : b = [a EXCEPT !.enabled = FALSE]
      OBVIOUS
    <3>2. IsAudio(b) /\ Counts(b) /\ b.enabled = FALSE
      BY <1>3, <3>1 DEF IsAudio, Counts, Fields
    <3>3. Ready(b)
      BY <3>2 DEF Ready
    <3> QED BY <1>2, <2>2, <3>1, <3>2, <3>3, KeptReady
  <2> QED BY <2>1, <2>2
<1>5. \A e \in Entries : DOMAIN entry'[e] = EntryFields /\ entry'[e].state = "none"
  BY <1>2 DEF DInv, EntriesOK
<1>6. DOMAIN entry' = Entries
  BY <1>2 DEF DInv, EntriesOK
<1> QED BY <1>2, <1>4, <1>5, <1>6, Divided

(* The top of doit: the timer is switched, and the device opened.          *)
LEMMA TopOfLoopKeeps == ASSUME DInv, TopOfLoop PROVE DInv'
<1>1. /\ pc # "boot" /\ pc' # "boot" /\ driver' = driver /\ entry' = entry
      /\ \/ audio' = audio
         \/ ~audio.fd /\ audio' = Kept(rplay_audio_open(audio))
  BY DEF TopOfLoop
<1>2. DOMAIN entry' = Entries /\ \A e \in Entries : entry'[e] = entry[e]
  BY <1>1 DEF DInv, EntriesOK
<1>3. CASE audio' = audio
  <2>1. IsAudio(audio') /\ Counts(audio') /\ Ready(audio')
    BY <1>1, <1>3 DEF DInv
  <2> QED BY <1>1, <1>2, <1>3, <2>1, SameRate
<1>4. CASE ~audio.fd /\ audio' = Kept(rplay_audio_open(audio))
  <2>1. PICK b : b = rplay_audio_open(audio)
    OBVIOUS
  <2>2. IsAudio(audio) /\ Counts(audio) /\ Ready(audio)
    BY <1>1 DEF DInv
  <2>3. IsAudio(b) /\ Same(audio, b) /\ (Settled(audio) => Settled(b) /\ b.cur = audio.cur)
    BY <1>4, <2>1, <2>2, OpenDrives DEF DInv, Drives, Settled
  <2>4. /\ IsAudio(audio') /\ Counts(audio') /\ Ready(audio')
        /\ audio'.enabled = audio.enabled /\ audio'.bad = audio.bad
        /\ audio.enabled /\ ~audio.bad => audio'.cur = audio.cur
    BY <1>4, <2>1, <2>2, <2>3, DrivesReady
  <2> QED BY <1>1, <1>2, <2>4, SameRate
<1> QED BY <1>1, <1>3, <1>4

(* command_set audio-port: reinitialisation of the device.                 *)
LEMMA AudioPortKeeps == ASSUME DInv, AudioPort PROVE DInv'
<1>1. pc # "boot" /\ pc' # "boot" /\ driver' = driver /\ entry' = entry
  BY ReadLeaves DEF AudioPort
<1>2. DOMAIN entry' = Entries /\ \A e \in Entries : entry'[e] = entry[e]
  BY <1>1 DEF DInv, EntriesOK
<1>3. PICK b : b = rplay_audio_init(audio)
  OBVIOUS
<1>4. IsAudio(audio) /\ Counts(audio) /\ Ready(audio)
  BY <1>1 DEF DInv
<1>5. IsAudio(b) /\ Same(audio, b) /\ (Settled(audio) => Settled(b) /\ b.cur = audio.cur)
  BY <1>3, <1>4, InitDrives DEF DInv, Drives, Settled
<1>6. audio' = Kept(b)
  BY <1>3 DEF AudioPort
<1>7. /\ IsAudio(audio') /\ Counts(audio') /\ Ready(audio')
      /\ audio'.enabled = audio.enabled /\ audio'.bad = audio.bad
      /\ audio.enabled /\ ~audio.bad => audio'.cur = audio.cur
  BY <1>4, <1>5, <1>6, DrivesReady
<1> QED BY <1>1, <1>2, <1>7, SameRate

(* command_volume opens the device for the mixer.                          *)
LEMMA VolumeKeeps == ASSUME DInv, command_volume PROVE DInv'
<1>1. pc # "boot" /\ pc' # "boot" /\ driver' = driver /\ entry' = entry
  BY ReadLeaves DEF command_volume
<1>2. DOMAIN entry' = Entries /\ \A e \in Entries : entry'[e] = entry[e]
  BY <1>1 DEF DInv, EntriesOK
<1>3. PICK b : b = rplay_audio_get_volume(audio)
  OBVIOUS
<1>4. IsAudio(audio) /\ Counts(audio) /\ Ready(audio)
  BY <1>1 DEF DInv
<1>5. IsAudio(b) /\ Same(audio, b) /\ (Settled(audio) => Settled(b) /\ b.cur = audio.cur)
  BY <1>3, <1>4, VolumeDrives DEF DInv
<1>6. audio' = Kept(b)
  BY <1>3 DEF command_volume
<1>7. /\ IsAudio(audio') /\ Counts(audio') /\ Ready(audio')
      /\ audio'.enabled = audio.enabled /\ audio'.bad = audio.bad
      /\ audio.enabled /\ ~audio.bad => audio'.cur = audio.cur
  BY <1>4, <1>5, <1>6, DrivesReady
<1> QED BY <1>1, <1>2, <1>7, SameRate

(* The entries are thrown away when the device is configured anew.         *)
LEMMA AudioInfoKeeps == ASSUME DInv, NEW ask \in Asks, AudioInfo(ask) PROVE DInv'
<1>1. pc' # "boot" /\ driver' = driver /\ entry' = [e \in Entries |-> NoEntry]
  BY ReadLeaves DEF AudioInfo
<1>2. PICK opt, size : /\ opt = ask @@ audio.opt
                       /\ size = IF driver = "oss" THEN audio.rplay_audio_bufsize ELSE 0
  OBVIOUS
<1>3. PICK c : c = [audio EXCEPT !.opt = opt, !.rplay_audio_rate = 0, !.rplay_audio_bufsize = size]
  OBVIOUS
<1>4. IsAudio(c) /\ Counts(c)
  BY <1>2, <1>3 DEF DInv, IsAudio, Counts, Fields
<1>5. PICK a : a = rplayd_audio_init(c)
  OBVIOUS
<1>6. IsAudio(a) /\ Counts(a) /\ Ready(a)
  BY <1>4, <1>5, InitReady DEF DInv
<1>7. PICK b : b = [a EXCEPT !.rplay_audio_rate = audio.rplay_audio_rate,
                             !.rplay_audio_bufsize = audio.rplay_audio_bufsize]
  OBVIOUS
<1>8. /\ IsAudio(b) /\ Counts(b) /\ b.enabled = a.enabled /\ b.bad = a.bad /\ b.cur = a.cur
      /\ b.opt = a.opt /\ b.fd = a.fd /\ b.hw = a.hw /\ b.curr_rate = a.curr_rate
      /\ b.curr_bufsize = a.curr_bufsize
  BY <1>6, <1>7 DEF DInv, IsAudio, Counts, Fields
<1>9. Ready(b)
  BY <1>6, <1>8 DEF Ready, Settled, Whole, Agrees
<1>10. audio' = a \/ audio' = Kept(b)
  BY <1>2, <1>3, <1>5, <1>7 DEF AudioInfo, DInv, IsAudio, Fields
<1>11. IsAudio(audio') /\ Counts(audio') /\ Ready(audio')
  BY <1>6, <1>8, <1>9, <1>10, KeptReady
<1>12. \A e \in Entries : DOMAIN entry'[e] = EntryFields /\ entry'[e].state = "none"
  BY <1>1 DEF NoEntry, EntryFields
<1> QED BY <1>1, <1>11, <1>12, Divided

(* spool_play: the factor of the new entry is computed for the device as   *)
(* it is after the match.                                                  *)
LEMMA PlayKeeps ==
    ASSUME DInv, NEW e \in Entries, NEW r \in SoundRates, spool_play(e, r) PROVE DInv'
<1>1. pc # "boot" /\ pc' # "boot" /\ driver' = driver
  BY ReadLeaves DEF spool_play
<1>2. PICK new : new = [state |-> "play", rate |-> r, base |-> audio.cur.rate]
  OBVIOUS
<1>3. PICK entries : entries = [entry EXCEPT ![e] = new]
  OBVIOUS
<1>4. Match(e, entries)
  BY <1>2, <1>3 DEF spool_play
<1>5. DOMAIN new = EntryFields /\ new.base = audio.cur.rate
  BY <1>2 DEF EntryFields
<1>6. /\ DOMAIN entries = Entries
      /\ \A x \in Entries : entries[x] = new \/ entries[x] = entry[x]
  BY <1>3 DEF DInv, EntriesOK
<1>7. \A x \in Entries : DOMAIN entries[x] = EntryFields
  BY <1>5, <1>6 DEF DInv, EntriesOK
<1>8. audio.enabled /\ ~audio.bad =>
        \A x \in Entries : entries[x].state \in {"play", "pause"}
                             => entries[x].base = audio.cur.rate
  BY <1>5, <1>6 DEF DInv, FactorsRight, In
<1> QED BY <1>1, <1>4, <1>6, <1>7, <1>8, MatchDivides

(* spool_continue matches the rate of the entry again.                     *)
LEMMA ContinueKeeps ==
    ASSUME DInv, NEW e \in Entries, spool_continue(e) PROVE DInv'
<1>1. pc # "boot" /\ pc' # "boot" /\ driver' = driver /\ entry[e].state = "pause"
  BY ReadLeaves DEF spool_continue
<1>2. PICK new : new = [entry[e] EXCEPT !.state = "play"]
  OBVIOUS
<1>3. PICK entries : entries = [entry EXCEPT ![e] = new]
  OBVIOUS
<1>4. Match(e, entries)
  BY <1>2, <1>3 DEF spool_continue
<1>5. DOMAIN new = EntryFields /\ new.base = entry[e].base
  BY <1>2 DEF EntryFields, DInv, EntriesOK
<1>6. /\ DOMAIN entries = Entries /\ entries[e] = new
      /\ \A x \in Entries : x = e \/ entries[x] = entry[x]
  BY <1>3 DEF DInv, EntriesOK
<1>7. \A x \in Entries : DOMAIN entries[x] = EntryFields
  BY <1>5, <1>6 DEF DInv, EntriesOK
<1>8. audio.enabled /\ ~audio.bad =>
        \A x \in Entries : entries[x].state \in {"play", "pause"}
                             => entries[x].base = audio.cur.rate
  BY <1>1, <1>5, <1>6 DEF DInv, FactorsRight, In
<1> QED BY <1>1, <1>4, <1>6, <1>7, <1>8, MatchDivides

(* spool_set_sample_rate.                                                  *)
LEMMA SetRateKeeps ==
    ASSUME DInv, NEW e \in Entries, NEW r \in SoundRates, spool_set_sample_rate(e, r) PROVE DInv'
<1>1. pc # "boot" /\ pc' # "boot" /\ driver' = driver
  BY ReadLeaves DEF spool_set_sample_rate
<1>2. PICK rated : rated = [entry[e] EXCEPT !.rate = r]
  OBVIOUS
<1>3. PICK new : new = [rated EXCEPT !.base = audio.cur.rate]
  OBVIOUS
<1>4. DOMAIN rated = EntryFields /\ DOMAIN entry = Entries
  BY <1>2 DEF EntryFields, DInv, EntriesOK
<1>5. DOMAIN new = EntryFields /\ new.base = audio.cur.rate
  BY <1>3, <1>4 DEF EntryFields
<1>6. PICK entries : entries = [entry EXCEPT ![e].rate = r, ![e].base = audio.cur.rate]
  OBVIOUS
<1>7. Match(e, entries)
  BY <1>6 DEF spool_set_sample_rate
<1>8. /\ DOMAIN entries = Entries /\ entries[e] = new
      /\ \A x \in Entries : x = e \/ entries[x] = entry[x]
  <2>1. PICK half : half = [entry EXCEPT ![e] = rated]
    OBVIOUS
  <2>2. DOMAIN half = Entries /\ half[e] = rated /\ \A x \in Entries : x = e \/ half[x] = entry[x]
    BY <1>4, <2>1
  <2>3. entries = [half EXCEPT ![e] = [half[e] EXCEPT !.base = audio.cur.rate]]
    BY <1>2, <1>6, <2>1
  <2>4. entries = [half EXCEPT ![e] = new]
    BY <1>3, <2>2, <2>3
  <2> QED BY <2>2, <2>4
<1>9. \A x \in Entries : DOMAIN entries[x] = EntryFields
  BY <1>5, <1>8 DEF DInv, EntriesOK
<1>10. audio.enabled /\ ~audio.bad =>
         \A x \in Entries : entries[x].state \in {"play", "pause"}
                              => entries[x].base = audio.cur.rate
  BY <1>5, <1>8 DEF DInv, FactorsRight, In
<1> QED BY <1>1, <1>7, <1>8, <1>9, <1>10, MatchDivides

(* The steps that leave the device as it is, or close it.                  *)
LEMMA OthersKeep ==
    ASSUME DInv,
           \/ Tick \/ Timeout \/ Exit \/ (OtherProgram /\ pc # "boot")
           \/ \E e \in Entries : spool_pause(e) \/ spool_stop(e)
           \/ \E k \in Timeouts : AudioClose(k)
    PROVE  DInv'
<1>1. /\ pc # "boot" /\ pc' # "boot" /\ driver' = driver
      /\ audio' = audio \/ audio' = rplay_audio_close(audio)
  BY ReadLeaves DEF Tick, Timeout, Exit, OtherProgram, spool_pause, spool_stop, AudioClose
<1>2. /\ IsAudio(audio') /\ Counts(audio') /\ Ready(audio')
      /\ audio'.enabled = audio.enabled /\ audio'.bad = audio.bad /\ audio'.cur = audio.cur
  BY <1>1, CloseReady DEF DInv
<1>3. \/ entry' = entry
      \/ \E e \in Entries : entry' = [entry EXCEPT ![e] = NoEntry]
      \/ \E e \in Entries : /\ entry[e].state = "play"
                            /\ entry' = [entry EXCEPT ![e].state = "pause"]
  BY DEF Tick, Timeout, Exit, OtherProgram, spool_pause, spool_stop, AudioClose, In
<1>4. /\ DOMAIN entry' = Entries
      /\ \A e \in Entries : \/ entry'[e] = entry[e] \/ entry'[e] = NoEntry
                            \/ /\ entry'[e].state \in {"play", "pause"}
                               /\ entry[e].state \in {"play", "pause"}
                               /\ entry'[e].base = entry[e].base
                               /\ DOMAIN entry'[e] = EntryFields
  <2>1. CASE entry' = entry
    BY <2>1 DEF DInv, EntriesOK
  <2>2. CASE \E e \in Entries : entry' = [entry EXCEPT ![e] = NoEntry]
    BY <2>2 DEF DInv, EntriesOK
  <2>3. CASE \E e \in Entries : /\ entry[e].state = "play"
                                /\ entry' = [entry EXCEPT ![e].state = "pause"]
    <3>1. PICK e \in Entries : /\ entry[e].state = "play"
                               /\ entry' = [entry EXCEPT ![e].state = "pause"]
      BY <2>3
    <3>2. PICK new : new = [entry[e] EXCEPT !.state = "pause"]
      OBVIOUS
    <3>3. DOMAIN new = EntryFields /\ new.base = entry[e].base /\ new.state = "pause"
      BY <3>2 DEF DInv, EntriesOK, EntryFields
    <3>4. entry' = [entry EXCEPT ![e] = new]
      BY <3>1, <3>2
    <3> QED BY <3>1, <3>3, <3>4 DEF DInv, EntriesOK
  <2> QED BY <1>3, <2>1, <2>2, <2>3
<1> QED BY <1>1, <1>2, <1>4, SameRate

(* Every step keeps DInv: one case per action.                             *)
LEMMA DInvStep == DInv /\ [Next]_vars => DInv'
<1> SUFFICES ASSUME DInv, [Next]_vars PROVE DInv'
  OBVIOUS
<1>1. CASE main
  BY <1>1, mainKeeps
<1>2. CASE TopOfLoop
  BY <1>2, TopOfLoopKeeps
<1>3. CASE Tick \/ Timeout \/ Exit
  BY <1>3, OthersKeep
<1>4. CASE OtherProgram
  <2>1. CASE pc = "boot"
    BY <1>4, <2>1 DEF OtherProgram, DInv, EntriesOK, FactorsRight, In, IsAudio, Counts
  <2>2. CASE pc # "boot"
    BY <1>4, <2>2, OthersKeep
  <2> QED BY <2>1, <2>2
<1>5. CASE \E e \in Entries, r \in SoundRates : spool_play(e, r) \/ spool_set_sample_rate(e, r)
  BY <1>5, PlayKeeps, SetRateKeeps
<1>6. CASE \E e \in Entries : spool_pause(e) \/ spool_continue(e) \/ spool_stop(e)
  BY <1>6, OthersKeep, ContinueKeeps
<1>7. CASE \E ask \in Asks : AudioInfo(ask)
  BY <1>7, AudioInfoKeeps
<1>8. CASE AudioPort \/ command_volume
  BY <1>8, AudioPortKeeps, VolumeKeeps
<1>9. CASE \E k \in Timeouts : AudioClose(k)
  BY <1>9, OthersKeep
<1>10. CASE UNCHANGED vars
  BY <1>10 DEF vars, DInv, EntriesOK, FactorsRight, In, IsAudio, Counts, Ready, Settled, Good,
               Agrees, Whole, SampleSize
<1> QED BY <1>1, <1>2, <1>3, <1>4, <1>5, <1>6, <1>7, <1>8, <1>9, <1>10 DEF Next

-----------------------------------------------------------------------------
(* The theorems.                                                           *)

(* With each of the seven drivers, whatever is asked of the device and     *)
(* however often it is closed, opened, taken by another program and        *)
(* configured anew: while the last rplayd_audio_init went well, the device *)
(* is what rplayd mixes for, opening it again changes nothing, and one     *)
(* turn of the timer writes whole samples.                                 *)
THEOREM DeviceAgrees == Spec => []ConfigAgrees
<1>1. DInv => ConfigAgrees
  BY DEF DInv, ConfigAgrees, Ready, Settled, Agrees, Whole
<1> QED BY <1>1, DInvInit, DInvStep, PTL DEF Spec

(* And every entry that plays or is paused has divided its sample rate by  *)
(* the one that is in use: rplayd_audio_match recomputes all entries,      *)
(* audio-info throws them away, and nothing else changes the rate.         *)
THEOREM HeardAtItsPitch == Spec => []FactorsRight
<1>1. DInv => FactorsRight
  BY DEF DInv
<1> QED BY <1>1, DInvInit, DInvStep, PTL DEF Spec
=============================================================================
