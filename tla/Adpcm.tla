------------------------------- MODULE Adpcm -------------------------------
(***************************************************************************)
(* The G.711 and G.72x arithmetic of adpcm/: the u-law and A-law codes,    *)
(* and the adaptive coders g721 (4 bits a sample), g723_24 (3) and g723_40 *)
(* (5), which share the predictor and the step size of g72x.c.  Every      *)
(* operator takes the state a C function reads through state_ptr and gives *)
(* the value it returns or the state it leaves.                            *)
(***************************************************************************)
EXTENDS Words

---------------------------------------------------------------------------
(* G.711 *)

(* x ^ 0x55                                                                *)
Xor55(x) ==
    x + 85 - 2 * ((x % 2) + 4 * ((x \div 4) % 2) + 16 * ((x \div 16) % 2)
                      + 64 * ((x \div 64) % 2))

(* search(): the first segment that ends at val or above, 8 when none does *)
Segment(val) == Cardinality({i \in 0..7 : val > 2^(i + 8) - 1})

UlawOf(biased, seg) ==
    IF seg >= 8 THEN 127 ELSE 16 * seg + ((biased \div 2^(seg + 3)) % 16)

(* x ^ 0xFF and x ^ 0x7F are differences for these x                       *)
linear2ulaw(pcm_val) ==
    LET biased == Abs(pcm_val) + 132
    IN  (IF pcm_val < 0 THEN 127 ELSE 255) - UlawOf(biased, Segment(biased))

ulaw2linear(u_val) ==
    LET u == 255 - u_val
        t == ((u % 16) * 8 + 132) * 2^((u \div 16) % 8)
    IN  IF u >= 128 THEN 132 - t ELSE t - 132

AlawOf(mag, seg) ==
    IF seg >= 8 THEN 127
    ELSE 16 * seg + ((mag \div 2^(IF seg < 2 THEN 4 ELSE seg + 3)) % 16)

linear2alaw(pcm_val) ==
    LET mag == IF pcm_val >= 0 THEN pcm_val ELSE -pcm_val - 8
    IN  Xor55(AlawOf(mag, Segment(mag))) + (IF pcm_val >= 0 THEN 128 ELSE 0)

AlawMagnitude(seg, low) ==
    CASE seg = 0 -> low + 8
      [] seg = 1 -> low + 264
      [] OTHER  -> (low + 264) * 2^(seg - 1)

alaw2linear(a_val) ==
    LET a == Xor55(a_val)
        t == AlawMagnitude((a \div 16) % 8, (a % 16) * 16)
    IN  IF a_val >= 128 THEN t ELSE -t

---------------------------------------------------------------------------
(* What g721.c, g723_24.c and g723_40.c differ in.                         *)

Coder(bits, qtab, dqlntab, witab, fitab, mask) ==
    [bits |-> bits, sign |-> 2^(bits - 1), mask |-> mask,
     qtab |-> Table(qtab), dqlntab |-> Table(dqlntab),
     witab |-> Table(witab), fitab |-> Table(fitab)]

(* _witab is shifted left by 5 where g721.c uses it                        *)
g721 ==
    Coder(4, <<-124, 80, 178, 246, 300, 349, 400>>,
          <<-2048, 4, 135, 213, 273, 323, 373, 425,
            425, 373, 323, 273, 213, 135, 4, -2048>>,
          <<-384, 576, 1312, 2048, 3584, 6336, 11360, 35904,
            35904, 11360, 6336, 3584, 2048, 1312, 576, -384>>,
          <<0, 0, 0, 512, 512, 512, 1536, 3584,
            3584, 1536, 512, 512, 512, 0, 0, 0>>, 16384)

g723_24 ==
    Coder(3, <<8, 218, 331>>,
          <<-2048, 135, 273, 373, 373, 273, 135, -2048>>,
          <<-128, 960, 4384, 18624, 18624, 4384, 960, -128>>,
          <<0, 512, 1024, 3584, 3584, 1024, 512, 0>>, 16384)

g723_40 ==
    Coder(5, <<-122, -16, 68, 139, 198, 250, 298, 339,
               378, 413, 445, 475, 502, 528, 553>>,
          <<-2048, -66, 28, 104, 169, 224, 274, 318,
            358, 395, 429, 459, 488, 514, 539, 566,
            566, 539, 514, 488, 459, 429, 395, 358,
            318, 274, 224, 169, 104, 28, -66, -2048>>,
          <<448, 448, 768, 1248, 1280, 1312, 1856, 3200,
            4512, 5728, 7008, 8960, 11456, 14080, 16928, 22272,
            22272, 16928, 14080, 11456, 8960, 7008, 5728, 4512,
            3200, 1856, 1312, 1280, 1248, 768, 448, 448>>,
          <<0, 0, 0, 0, 0, 512, 512, 512,
            512, 512, 1024, 1536, 2048, 2560, 3072, 3072,
            3072, 3072, 2560, 2048, 1536, 1024, 512, 512,
            512, 512, 512, 0, 0, 0, 0, 0>>, 32768)

---------------------------------------------------------------------------
(* g72x.c: the predictor and the adaptive step size.                       *)

(* The tables ascend, so the linear search counts the entries passed.      *)
quan(val, table) == Cardinality({i \in DOMAIN table : table[i] <= val})
(* quan() against power2[]: values here have at most 15 bits               *)
QuanPower2(val) == BitLength(val)

FloatProduct(wanexp, wanmant) ==
    IF wanexp >= 0 THEN Shift(wanmant, wanexp) % 32768
                   ELSE Shift(wanmant, wanexp)

(* an, of magnitude anmag and exponent anexp, times the float srn          *)
fmultBy(anmag, anexp, srn) ==
    FloatProduct(anexp + ((srn \div 64) % 16) - 13,
                 ((IF anmag = 0 THEN 32 ELSE Shift(anmag, -anexp))
                      * (srn % 64) + 48) \div 16)

fmult(an, srn) ==
    LET anmag == IF an > 0 THEN an ELSE (-an) % 8192
        retval == fmultBy(anmag, QuanPower2(anmag) - 6, srn)
    IN  IF (an < 0) # (srn < 0) THEN -retval ELSE retval

g72x_init_state ==
    [yl |-> 34816, yu |-> 544, dms |-> 0, dml |-> 0, ap |-> 0,
     a |-> <<0, 0>>, b |-> <<0, 0, 0, 0, 0, 0>>, pk |-> <<0, 0>>,
     dq |-> <<32, 32, 32, 32, 32, 32>>, sr |-> <<32, 32>>, td |-> 0]

ZeroTerm(st, i) == fmult(st.b[i] \div 4, st.dq[i])
PoleTerm(st, i) == fmult(st.a[i] \div 4, st.sr[i])

predictor_zero(st) ==
    ZeroTerm(st, 1) + ZeroTerm(st, 2) + ZeroTerm(st, 3)
        + ZeroTerm(st, 4) + ZeroTerm(st, 5) + ZeroTerm(st, 6)

predictor_pole(st) == PoleTerm(st, 2) + PoleTerm(st, 1)

step_size(st) ==
    LET y == st.yl \div 64
        dif == st.yu - y
        al == st.ap \div 4
    IN  CASE st.ap >= 256 -> st.yu
          [] st.ap < 256 /\ dif > 0 -> y + (dif * al) \div 64
          [] st.ap < 256 /\ dif < 0 -> y + (dif * al + 63) \div 64
          [] OTHER -> y

quantize(d, y, qtab) ==
    LET size == Cardinality(DOMAIN qtab)
        dqm == Short(Abs(d))
        exp == QuanPower2(dqm \div 2)
        mant == Shift(dqm * 128, -exp) % 128
        i == quan(Short(exp * 128 + mant - (y \div 4)), qtab)
    IN  CASE d < 0 -> 2 * size + 1 - i
          [] d >= 0 /\ i = 0 -> 2 * size + 1
          [] OTHER -> i

reconstruct(negative, dqln, y) ==
    LET dql == Short(dqln + y \div 4)
        dex == (dql \div 128) % 16
        dq == IF dql < 0 THEN 0
              ELSE Short(Shift((128 + (dql % 128)) * 128, dex - 14))
    IN  IF negative THEN dq - 32768 ELSE dq

(* A number as sign, 4 bits of exponent and 6 of mantissa.                 *)
Float(mag, negative) ==
    LET exp == QuanPower2(mag)
    IN  (IF mag = 0 THEN 32 ELSE 64 * exp + Shift(mag * 64, -exp))
            - (IF negative THEN 1024 ELSE 0)

(* The tone detector: modem data resets the predictor.                     *)
Transition(st, mag) ==
    LET ylint == st.yl \div 32768
        thr1 == (32 + ((st.yl \div 1024) % 32)) * 2^ylint
        thr2 == IF ylint > 9 THEN 31 * 1024 ELSE thr1
    IN  st.td = 1 /\ mag > (thr2 + thr2 \div 2) \div 2

LIMB(yu) == IF yu < 544 THEN 544 ELSE IF yu > 5120 THEN 5120 ELSE yu

(* The pole a[1]: UPA2 and LIMC.                                           *)
PoleTwo(st, pk0, dqsez) ==
    LET decayed == st.a[2] - st.a[2] \div 128
        fa1 == IF pk0 # st.pk[1] THEN st.a[1] ELSE -st.a[1]
        moved == decayed + CASE fa1 < -8191 -> -256
                             [] fa1 > 8191  -> 255
                             [] OTHER       -> fa1 \div 32
        step == IF pk0 # st.pk[2] THEN -128 ELSE 128
    IN  CASE dqsez = 0 -> decayed
          [] dqsez # 0 /\ moved + step <= -12288 -> -12288
          [] dqsez # 0 /\ moved + step >= 12288 -> 12288
          [] OTHER -> moved + step

(* The pole a[0]: UPA1 and LIMD.                                           *)
PoleOne(st, pk0, dqsez, a2p) ==
    LET step == CASE dqsez = 0 -> 0
                  [] dqsez # 0 /\ pk0 = st.pk[1] -> 192
                  [] OTHER -> -192
        moved == Short(st.a[1] - st.a[1] \div 256 + step)
        a1ul == 15360 - a2p
    IN  IF moved < -a1ul THEN -a1ul ELSE IF moved > a1ul THEN a1ul ELSE moved

(* A zero of the predictor: UPB.                                           *)
Zero(bits, b, dq, past) ==
    LET decayed == b - b \div (IF bits = 5 THEN 512 ELSE 256)
        step == CASE dq % 32768 = 0 -> 0
                  [] dq % 32768 # 0 /\ ((dq < 0) = (past < 0)) -> 128
                  [] OTHER -> -128
    IN  Short(Short(decayed) + step)

(* FLOAT B: sr as a float, the most negative value apart.                  *)
FloatSr(sr) == IF sr <= -32768 THEN 32 - 1024 ELSE Float(Abs(sr), sr < 0)

Speed(ap, tr, quick) ==
    CASE tr -> 256
      [] ~tr /\ quick -> ap + (512 - ap) \div 16
      [] OTHER -> ap + (-ap) \div 16

(* The state after a code, given whether a transition was detected, the    *)
(* new pole a2p, the tone flag td and the averages dms and dml.            *)
Updated(bits, y, dq, mag, sr, pk0, dqsez, st, tr, yu, a2p, td, dms, dml) ==
    [yu |-> yu,
     yl |-> st.yl + yu + (-st.yl) \div 64,
     a  |-> IF tr THEN <<0, 0>> ELSE <<PoleOne(st, pk0, dqsez, a2p), a2p>>,
     b  |-> [i \in 1..6 |-> IF tr THEN 0
                            ELSE Zero(bits, st.b[i], dq, st.dq[i])],
     dq |-> <<Float(mag, dq < 0)>> \o SubSeq(st.dq, 1, 5),
     sr |-> <<FloatSr(sr), st.sr[1]>>,
     pk |-> <<pk0, st.pk[1]>>,
     td |-> td, dms |-> dms, dml |-> dml,
     ap |-> Speed(st.ap, tr, \/ y < 1536
                             \/ td = 1
                             \/ Abs(4 * dms - dml) >= dml \div 8)]

TonePresent(tr, a2p) == IF ~tr /\ a2p < -11776 THEN 1 ELSE 0

UpdatedPoles(bits, y, wi, fi, dq, mag, sr, pk0, dqsez, st, tr, a2p) ==
    Updated(bits, y, dq, mag, sr, pk0, dqsez, st, tr,
            LIMB(Short(y + (wi - y) \div 32)), a2p, TonePresent(tr, a2p),
            Short(st.dms + (fi - st.dms) \div 32),
            Short(st.dml + (4 * fi - st.dml) \div 128))

update(bits, y, wi, fi, dq, sr, dqsez, st) ==
    LET pk0 == IF dqsez < 0 THEN 1 ELSE 0
        mag == dq % 32768
    IN  UpdatedPoles(bits, y, wi, fi, dq, mag, sr, pk0, dqsez, st,
                     Transition(st, mag), PoleTwo(st, pk0, dqsez))

---------------------------------------------------------------------------
(* The coders. *)

(* The estimate of the next sample, from both halves of the predictor and  *)
(* from its zeros alone.                                                   *)
Estimates(sezi, pole) ==
    [sez |-> sezi \div 2, se |-> Short(sezi + pole) \div 2]
Estimate(st) == Estimates(Short(predictor_zero(st)), predictor_pole(st))

(* The signal that the code i stands for, and the state after it, from the *)
(* estimate est, the step size y and the difference dq.                    *)
SignalUpdated(k, i, st, est, y, dq, sr) ==
    [sr |-> sr,
     st |-> update(k.bits, y, k.witab[i], k.fitab[i], dq, sr,
                   Short(sr + est.sez - est.se), st)]
SignalOf(k, i, st, est, y, dq) ==
    SignalUpdated(k, i, st, est, y, dq,
                  Short(IF dq < 0 THEN est.se - (dq % k.mask)
                                  ELSE est.se + dq))
ReconstructedBy(k, i, st, est, y) ==
    SignalOf(k, i, st, est, y, reconstruct(i >= k.sign, k.dqlntab[i], y))
Reconstructed(k, i, st) ==
    ReconstructedBy(k, i, st, Estimate(st), step_size(st))

(* The input sample in 14 bits.                                            *)
Linear(sl, coding) ==
    CASE coding = "ALAW" -> alaw2linear(sl) \div 4
      [] coding = "ULAW" -> ulaw2linear(sl) \div 4
      [] coding = "LINEAR" -> sl \div 4

CodeOf(k, sl, coding, st) ==
    quantize(Short(Linear(sl, coding) - Estimate(st).se), step_size(st),
             k.qtab)

Encoded(k, i, st) == [code |-> i, signal |-> Reconstructed(k, i, st)]
encoder(k, sl, coding, st) == Encoded(k, CodeOf(k, sl, coding, st), st)

(* The next code below and above an A-law or u-law code.                   *)
LowerAlaw(sp) ==
    CASE sp = 213 -> 85
      [] sp = 42 -> 42
      [] sp >= 128 /\ sp # 213 -> Xor55(Xor55(sp) - 1)
      [] OTHER -> Xor55(Xor55(sp) + 1)
HigherAlaw(sp) ==
    CASE sp = 170 -> 170
      [] sp = 85 -> 213
      [] sp >= 128 /\ sp # 170 -> Xor55(Xor55(sp) + 1)
      [] OTHER -> Xor55(Xor55(sp) - 1)
LowerUlaw(sp) ==
    CASE sp = 255 -> 126
      [] sp = 0 -> 0
      [] sp >= 128 /\ sp # 255 -> sp + 1
      [] OTHER -> sp - 1
HigherUlaw(sp) ==
    CASE sp = 128 -> 128
      [] sp = 127 -> 254
      [] sp > 128 -> sp - 1
      [] OTHER -> sp + 1

(* The biased magnitude of a code: 8, 9 .. F, 0 .. 7 in ascending order.   *)
Biased(k, i) == (i + k.sign) % (2 * k.sign)

(* sp, or the next code down or up when coding sp again would not give i   *)
Adjusted(k, sp, i, id, lower(_), higher(_)) ==
    CASE id = i -> sp
      [] id # i /\ Biased(k, id) > Biased(k, i) -> lower(sp)
      [] OTHER -> higher(sp)

AdjustedAlaw_AsIs(k, sp, i, st) == sp
AdjustedAlaw(k, sp, i, st) ==
    Adjusted(k, sp, i, CodeOf(k, sp, "ALAW", st), LowerAlaw, HigherAlaw)
tandem_adjust_alaw(k, sr, i, st) ==
    LET half == (IF sr <= -32768 THEN -1 ELSE sr) \div 2
    IN  AdjustedAlaw(k, linear2alaw(half * 8), i, st)

AdjustedUlaw(k, sp, i, st) ==
    Adjusted(k, sp, i, CodeOf(k, sp, "ULAW", st), LowerUlaw, HigherUlaw)
tandem_adjust_ulaw(k, sr, i, st) ==
    AdjustedUlaw(k, linear2ulaw((IF sr <= -32768 THEN 0 ELSE sr) * 4), i, st)

(* The sample in the output coding and the state after it.  The callers    *)
(* keep a linear sample in a short.                                        *)
DecodedFrom(k, i, coding, st, signal) ==
    [st |-> signal.st,
     sample |-> CASE coding = "ALAW" ->
                         tandem_adjust_alaw(k, signal.sr, i, st)
                  [] coding = "ULAW" ->
                         tandem_adjust_ulaw(k, signal.sr, i, st)
                  [] coding = "LINEAR" -> Short(4 * signal.sr)]
decoder(k, i, coding, st) ==
    DecodedFrom(k, i, coding, st, Reconstructed(k, i, st))

=============================================================================
