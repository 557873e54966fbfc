-------------------------------- MODULE Gsm --------------------------------
(***************************************************************************)
(* The GSM 06.10 codec of gsm/: 160 samples become a frame of 76           *)
(* parameters in 33 bytes.  Sequences are numbered from 1.  Of the coder,  *)
(* only the search for the lag and the gain of the long term predictor is  *)
(* left open: the library is built with USE_FLOAT_MUL, which searches in   *)
(* single precision, so the coder below is given any lag and any gain.     *)
(* The autocorrelation also multiplies floats, but its samples are scaled  *)
(* below 2^12 first, where the products are exact.                         *)
(***************************************************************************)
EXTENDS Words

(* The outputs of applying step to a state and each element of s in turn,  *)
(* and the last state.  By halves, the left one evaluated first, to keep   *)
(* the recursion shallow.                                                  *)
Filter(step(_, _), init, s) ==
    LET RECURSIVE run(_, _, _)
        run(st, lo, hi) ==
            IF lo = hi
            THEN LET r == step(st, s[lo]) IN [st |-> r.st, out |-> <<r.out>>]
            ELSE LET mid == (lo + hi) \div 2
                     join(left, right) ==
                         [st |-> right.st, out |-> left.out \o right.out]
                 IN  CHOOSE both \in {join(left, run(left.st, mid + 1, hi)) :
                                         left \in {run(st, lo, mid)}} : TRUE
    IN  run(init, 1, Len(s))

(* A sequence of n elements.  (SubSeq makes TLC compute them all at once.) *)
Array(n, elem(_)) == SubSeq([k \in 1..n |-> elem(k)], 1, n)

Zeros(n) == Array(n, LAMBDA k : 0)

SumOver(n, term(_)) ==
    LET RECURSIVE sum(_, _)
        sum(lo, hi) == IF lo = hi THEN term(lo)
                       ELSE LET mid == (lo + hi) \div 2
                            IN  sum(lo, mid) + sum(mid + 1, hi)
    IN  sum(1, n)

---------------------------------------------------------------------------
(* Saturating arithmetic *)

saturate(x) == IF x < -32768 THEN -32768 ELSE IF x > 32767 THEN 32767 ELSE x

gsm_add(a, b) == saturate(a + b)
gsm_sub(a, b) == saturate(a - b)

GSM_MULT(a, b) == (a * b) \div 32768
GSM_MULT_R(a, b) == (a * b + 16384) \div 32768
gsm_mult_r(a, b) ==
    IF a = -32768 /\ b = -32768 THEN 32767 ELSE Short(GSM_MULT_R(a, b))

MAX_LONGWORD == 2147483647
GSM_L_ADD(a, b) ==
    CASE a > 0 /\ b > 0 /\ a > MAX_LONGWORD - b -> MAX_LONGWORD
      [] a < 0 /\ b < 0 /\ a < -MAX_LONGWORD - 1 - b -> -MAX_LONGWORD - 1
      [] OTHER -> a + b

GSM_ABS(a) == IF a = -32768 THEN 32767 ELSE Abs(a)
MaxAbs(s) ==
    LET a == {GSM_ABS(s[k]) : k \in DOMAIN s}
    IN  CHOOSE m \in a : \A x \in a : x <= m

(* The shifts that normalise a positive longword.                          *)
gsm_norm(a) == 31 - BitLength(a)

(* num / denum in 15 bits, for denum >= num >= 0                           *)
gsm_div(num, denum) ==
    IF num = denum THEN 32767 ELSE (num * 32768) \div denum

gsm_asl(a, n) ==
    CASE n >= 16 -> 0
      [] n <= -16 -> IF a < 0 THEN -1 ELSE 0
      [] OTHER -> Short(Shift(a, n))
gsm_asr(a, n) == gsm_asl(a, -n)

---------------------------------------------------------------------------
(* Frames: the widths of the 76 parameters, most significant bits first    *)
(* behind a magic number of 4 bits.                                        *)

GSM_MAGIC == 13
SubSegment == <<7, 2, 2, 6, 3, 3, 3, 3, 3, 3, 3, 3, 3, 3, 3, 3, 3>>
Widths == <<4, 6, 6, 5, 5, 4, 4, 3, 3>>
              \o SubSegment \o SubSegment \o SubSegment \o SubSegment

(* x in w bits, and the bits of xs[k] in widths[k] bits one after another. *)
BitsOf(x, w) == [b \in 1..w |-> (x \div 2^(w - b)) % 2]
AllBits(xs, widths) ==
    LET RECURSIVE bits(_, _)
        bits(lo, hi) == IF lo = hi THEN BitsOf(xs[lo], widths[lo])
                        ELSE LET mid == (lo + hi) \div 2
                             IN  bits(lo, mid) \o bits(mid + 1, hi)
    IN  bits(1, Len(xs))

(* The number in bits first + 1 to first + w.                              *)
NumberAt(bits, first, w) ==
    SumOver(w, LAMBDA b : bits[first + b] * 2^(w - b))

gsm_implode(params) ==
    LET bits == AllBits(<<GSM_MAGIC>> \o params, Widths)
    IN  Array(33, LAMBDA j : NumberAt(bits, 8 * (j - 1), 8))

(* The bit before parameter i: 40 bits, then 56 for each sub-segment.      *)
ParamAt(i) ==
    LET j == (i - 9) % 17
    IN  IF i <= 8 THEN <<4, 10, 16, 21, 26, 30, 34, 37>>[i]
        ELSE 40 + 56 * ((i - 9) \div 17)
                + (IF j < 4 THEN <<0, 7, 9, 11>>[j + 1] ELSE 17 + 3 * (j - 4))

gsm_explode(c) ==
    LET bits == AllBits(c, Array(33, LAMBDA j : 8))
    IN  Array(76, LAMBDA i : NumberAt(bits, ParamAt(i), Widths[i + 1]))

HasMagic(c) == c[1] \div 16 = GSM_MAGIC

(* Sub-segment k (0..3) of the parameters: the lag Nc, the gain bc, the    *)
(* grid Mc, the block maximum xmaxc and the 13 samples xMc.                *)
Sub(params, k) ==
    LET at(i) == params[8 + 17 * k + i]
    IN  [Nc |-> at(1), bc |-> at(2), Mc |-> at(3), xmaxc |-> at(4),
         xMc |-> Array(13, LAMBDA i : at(4 + i))]
Params(LARc, subs) ==
    LET flat(s) == <<s.Nc, s.bc, s.Mc, s.xmaxc>> \o s.xMc
    IN  LARc \o flat(subs[1]) \o flat(subs[2]) \o flat(subs[3])
             \o flat(subs[4])

---------------------------------------------------------------------------
(* Tables *)

gsm_A == <<20480, 20480, 20480, 20480, 13964, 15360, 8534, 9036>>
gsm_B == <<0, 0, 2048, -2560, 94, -1792, -341, -1144>>
gsm_MIC == <<-32, -32, -16, -16, -8, -8, -4, -4>>
gsm_MAC == <<31, 31, 15, 15, 7, 7, 3, 3>>
gsm_INVA == <<13107, 13107, 13107, 13107, 19223, 17476, 31454, 29708>>
gsm_QLB == Table(<<3277, 11469, 21299, 32767>>)
gsm_H == <<-134, -374, 0, 2054, 5741, 8192, 5741, 2054, 0, -374, -134>>
gsm_NRFAC == Table(<<29128, 26215, 23832, 21846, 20165, 18725, 17476, 16384>>)
gsm_FAC == Table(<<18431, 20479, 22527, 24575, 26623, 28671, 30719, 32767>>)

---------------------------------------------------------------------------
(* Preprocessing: downscaling, offset compensation, preemphasis.           *)

PreStep(st, s) ==
    LET SO == (s \div 8) * 4
        s1 == Short(SO - st.z1)
        msp == Short(st.L_z2 \div 32768)
        lsp == Short(st.L_z2 - msp * 32768)
        L_s2 == s1 * 32768 + GSM_MULT_R(lsp, 32735)
        L_z2 == GSM_L_ADD(msp * 32735, L_s2)
        mp == Short(GSM_L_ADD(L_z2, 16384) \div 32768)
    IN  [st |-> [z1 |-> SO, L_z2 |-> L_z2, mp |-> mp],
         out |-> gsm_add(mp, Short(GSM_MULT_R(st.mp, -28180)))]

Gsm_Preprocess(st, s) == Filter(PreStep, st, s)

---------------------------------------------------------------------------
(* LPC analysis *)

(* The shift that brings the samples below 2^11.                           *)
ScalAuto(s) == IF MaxAbs(s) = 0 THEN 0 ELSE 4 - (15 - BitLength(MaxAbs(s)))

Scaled(s) ==
    LET n == ScalAuto(s)
    IN  IF n <= 0 THEN s
        ELSE Array(160, LAMBDA k : GSM_MULT_R(s[k], 16384 \div 2^(n - 1)))

(* L_ACF[0..8], as elements 1 to 9, and s as the scaling back and forth    *)
(* leaves it                                                               *)
Autocorrelation(s) ==
    LET x == Scaled(s)
        n == ScalAuto(s)
    IN  [L_ACF |-> Array(9, LAMBDA k :
                      2 * SumOver(161 - k, LAMBDA i : x[i + k - 1] * x[i])),
         s |-> IF n <= 0 THEN s
               ELSE Array(160, LAMBDA k : Short(x[k] * 2^n))]

(* One round of the Schur recursion: the coefficient, and P and K after    *)
(* it.  P[0..8] are the elements 1 to 9.                                   *)
Reflection(P) ==
    LET r == gsm_div(GSM_ABS(P[2]), P[1])
    IN  IF P[2] > 0 THEN -r ELSE r
SchurStep(P, K, r, n) ==
    [P |-> Array(9, LAMBDA m :
              CASE m = 1 -> gsm_add(P[1], GSM_MULT_R(P[2], r))
                [] m \in 2..(9 - n) ->
                       gsm_add(P[m + 1], GSM_MULT_R(K[m - 1], r))
                [] OTHER -> P[m]),
     K |-> Array(8, LAMBDA m :
              IF m <= 8 - n THEN gsm_add(K[m], GSM_MULT_R(P[m + 2], r))
              ELSE K[m])]

(* From the first unstable coefficient on, all are 0.                      *)
Reflection_coefficients(L_ACF) ==
    LET ACF == Array(9, LAMBDA i :
                   (L_ACF[i] * 2^gsm_norm(L_ACF[1])) \div 65536)
        round[n \in 0..8] ==
            IF n = 0
            THEN [P |-> ACF, K |-> SubSeq(ACF, 2, 9), r |-> <<>>,
                  unstable |-> FALSE]
            ELSE LET b == round[n - 1]
                     stop == b.unstable \/ b.P[1] < GSM_ABS(b.P[2])
                     r == IF stop THEN 0 ELSE Reflection(b.P)
                     next == IF stop THEN b ELSE SchurStep(b.P, b.K, r, n)
                 IN  [P |-> next.P, K |-> next.K, r |-> Append(b.r, r),
                      unstable |-> stop]
    IN  IF L_ACF[1] = 0 THEN Zeros(8) ELSE round[8].r

Transformation_to_Log_Area_Ratios(r) ==
    Array(8, LAMBDA i :
        LET a == GSM_ABS(r[i])
            t == CASE a < 22118 -> a \div 2
                   [] a >= 22118 /\ a < 31130 -> a - 11059
                   [] OTHER -> (a - 26112) * 4
        IN  IF r[i] < 0 THEN -t ELSE t)

Quantization_and_coding(LAR) ==
    Array(8, LAMBDA i :
        LET t == gsm_add(gsm_add(GSM_MULT(gsm_A[i], LAR[i]), gsm_B[i]), 256)
                     \div 512
        IN  CASE t > gsm_MAC[i] -> gsm_MAC[i] - gsm_MIC[i]
              [] t < gsm_MIC[i] -> 0
              [] OTHER -> t - gsm_MIC[i])

Gsm_LPC_Analysis(L_ACF) ==
    Quantization_and_coding(
        Transformation_to_Log_Area_Ratios(Reflection_coefficients(L_ACF)))

---------------------------------------------------------------------------
(* The short term filters, with coefficients interpolated between the      *)
(* previous frame and this one.                                            *)

Decoding_of_the_coded_Log_Area_Ratios(LARc) ==
    Array(8, LAMBDA i :
        LET t == gsm_sub(Short(gsm_add(LARc[i], gsm_MIC[i]) * 1024),
                         2 * gsm_B[i])
            u == GSM_MULT_R(gsm_INVA[i], t)
        IN  gsm_add(u, u))

(* Samples 1..13, 14..27, 28..40 and the rest of the frame.                *)
Coefficients(part, old, new) ==
    Array(8, LAMBDA i :
        CASE part = 1 -> gsm_add(gsm_add(old[i] \div 4, new[i] \div 4),
                                 old[i] \div 2)
          [] part = 2 -> gsm_add(old[i] \div 2, new[i] \div 2)
          [] part = 3 -> gsm_add(gsm_add(old[i] \div 4, new[i] \div 4),
                                 new[i] \div 2)
          [] part = 4 -> new[i])

LARp_to_rp(LARp) ==
    Array(8, LAMBDA i :
        LET a == GSM_ABS(LARp[i])
            t == CASE a < 11059 -> a * 2
                   [] a >= 11059 /\ a < 20070 -> a + 11059
                   [] OTHER -> gsm_add(a \div 4, 26112)
        IN  IF LARp[i] < 0 THEN -t ELSE t)

Part(k) ==
    CASE k <= 13 -> 1
      [] k \in 14..27 -> 2
      [] k \in 28..40 -> 3
      [] OTHER -> 4
RpOf(old, new) ==
    Array(4, LAMBDA p : LARp_to_rp(Coefficients(p, old, new)))

(* One sample through the 8 stages of the analysis filter.                 *)
Short_term_analysis_filtering(u, rp, s) ==
    LET stage[i \in 0..8] ==
            IF i = 0 THEN [di |-> s, sav |-> s, u |-> u]
            ELSE LET b == stage[i - 1]
                 IN  [u |-> [b.u EXCEPT ![i] = b.sav],
                      sav |-> gsm_add(u[i], Short(GSM_MULT_R(rp[i], b.di))),
                      di |-> gsm_add(b.di, Short(GSM_MULT_R(rp[i], u[i])))]
        last == stage[8]
    IN  [st |-> last.u, out |-> last.di]

(* One sample through the 8 stages of the synthesis filter.                *)
Short_term_synthesis_filtering(v, rrp, wt) ==
    LET stage[i \in 0..8] ==
            IF i = 0 THEN [sri |-> wt, v |-> v]
            ELSE LET b == stage[i - 1]
                     n == 9 - i
                     sri == gsm_sub(b.sri, gsm_mult_r(rrp[n], v[n]))
                 IN  [sri |-> sri,
                      v |-> [b.v EXCEPT ![n + 1] =
                                gsm_add(v[n], gsm_mult_r(rrp[n], sri))]]
        last == stage[8]
    IN  [st |-> [last.v EXCEPT ![1] = last.sri], out |-> last.sri]

(* A whole frame through a filter whose coefficients depend on the part.   *)
Framed(filter(_, _, _), init, rp, s) ==
    Filter(LAMBDA st, k : filter(st, rp[Part(k)], s[k]), init,
           Array(160, LAMBDA k : k))

---------------------------------------------------------------------------
(* RPE coding of the long term residual *)

Weighting_filter(e) ==
    LET at(k) == IF k \in 1..40 THEN e[k] ELSE 0
    IN  Array(40, LAMBDA k :
            saturate((4096 + SumOver(11, LAMBDA i : gsm_H[i] * at(k + i - 6)))
                         \div 8192))

(* The grid of greatest energy, the first of equals.                       *)
RPE_grid_selection(x) ==
    LET energy(m) == SumOver(13, LAMBDA i :
                         (x[m + 3 * i - 2] \div 4) * (x[m + 3 * i - 2] \div 4))
        e == Table(<<energy(0), energy(1), energy(2), energy(3)>>)
    IN  CHOOSE m \in 0..3 : \A n \in 0..3 :
                               e[n] < e[m] \/ (e[n] = e[m] /\ m <= n)

(* The exponent and the mantissa that xmaxc stands for.                    *)
APCM_quantization_xmaxc_to_exp_mant(xmaxc) ==
    LET exp == IF xmaxc > 15 THEN xmaxc \div 8 - 1 ELSE 0
        mant == xmaxc - exp * 8
        shifts == 4 - BitLength(mant)
    IN  CASE mant = 0 -> [exp |-> -4, mant |-> 7]
          [] mant \in 1..7 -> [exp |-> exp - shifts,
                               mant |-> (mant + 1) * 2^shifts - 1 - 8]
          [] OTHER -> [exp |-> exp, mant |-> mant - 8]

(* The block maximum xmax coded as xmaxc.                                  *)
CodedMax(xmax) ==
    LET bits == BitLength(xmax \div 512)
        exp == IF bits > 6 THEN 6 ELSE bits
    IN  gsm_add(xmax \div 2^(exp + 5), exp * 8)

APCM_quantization(xM) ==
    LET xmaxc == CodedMax(MaxAbs(xM))
        em == APCM_quantization_xmaxc_to_exp_mant(xmaxc)
    IN  [xmaxc |-> xmaxc,
         xMc |-> Array(13, LAMBDA i :
                    GSM_MULT(Short(xM[i] * 2^(6 - em.exp)), gsm_NRFAC[em.mant])
                        \div 4096 + 4)]

APCM_inverse_quantization(xMc, em) ==
    LET temp2 == 6 - em.exp
        temp3 == gsm_asl(1, temp2 - 1)
    IN  Array(13, LAMBDA i :
            gsm_asr(gsm_add(GSM_MULT_R(gsm_FAC[em.mant],
                                       (2 * xMc[i] - 7) * 4096), temp3),
                    temp2))

RPE_grid_positioning(Mc, xMp) ==
    Array(40, LAMBDA k :
        IF k > Mc /\ (k - 1 - Mc) % 3 = 0 /\ (k - 1 - Mc) \div 3 < 13
        THEN xMp[(k - 1 - Mc) \div 3 + 1] ELSE 0)

Gsm_RPE_Decoding(sub) ==
    RPE_grid_positioning(sub.Mc,
        APCM_inverse_quantization(sub.xMc,
            APCM_quantization_xmaxc_to_exp_mant(sub.xmaxc)))

(* The coded residual and, as `ep', what the decoder will make of it.      *)
Gsm_RPE_Encoding(e) ==
    LET x == Weighting_filter(e)
        Mc == RPE_grid_selection(x)
        q == APCM_quantization(Array(13, LAMBDA i : x[Mc + 3 * i - 2]))
        em == APCM_quantization_xmaxc_to_exp_mant(q.xmaxc)
    IN  [Mc |-> Mc, xmaxc |-> q.xmaxc, xMc |-> q.xMc,
         ep |-> RPE_grid_positioning(Mc,
                    APCM_inverse_quantization(q.xMc, em))]

---------------------------------------------------------------------------
(* The long term predictor; dp holds the last 120 samples of the residual. *)

Last120(dp, new) == SubSeq(dp \o new, Len(new) + 1, Len(new) + 120)

Long_term_analysis_filtering(bc, Nc, dp, d) ==
    LET dpp == Array(40, LAMBDA k : GSM_MULT_R(gsm_QLB[bc], dp[120 + k - Nc]))
    IN  [dpp |-> dpp, e |-> Array(40, LAMBDA k : gsm_sub(d[k], dpp[k]))]

Gsm_Long_Term_Synthesis_Filtering_KeepsErp(nrp, dp, Ncr, bcr, erp) ==
    LET Nr == IF Ncr < 40 \/ Ncr > 120 THEN nrp ELSE Ncr
        drp == Array(40, LAMBDA k :
                  gsm_add(erp[k], GSM_MULT_R(gsm_QLB[bcr], dp[120 + k - Nr])))
    IN  [nrp |-> Nr, drp |-> drp, dp |-> Last120(dp, erp)]
Gsm_Long_Term_Synthesis_Filtering(nrp, dp, Ncr, bcr, erp) ==
    LET Nr == IF Ncr < 40 \/ Ncr > 120 THEN nrp ELSE Ncr
        drp == Array(40, LAMBDA k :
                  gsm_add(erp[k], GSM_MULT_R(gsm_QLB[bcr], dp[120 + k - Nr])))
    IN  [nrp |-> Nr, drp |-> drp, dp |-> Last120(dp, drp)]

---------------------------------------------------------------------------
(* The coder and the decoder: the calls that Gsm_Coder and Gsm_Decoder     *)
(* make for each sub-segment.  Codec makes the calls.                      *)

gsm_create ==
    [dp |-> Zeros(120), LARpp |-> Zeros(8), nrp |-> 40, v |-> Zeros(9),
     msr |-> 0, u |-> Zeros(8), pre |-> [z1 |-> 0, L_z2 |-> 0, mp |-> 0]]

(* One sub-segment of the residual, coded with the lag and the gain ltp,   *)
(* and the history that it leaves.                                         *)
CodedSub(dp, d, ltp) ==
    LET lt == Long_term_analysis_filtering(ltp.bc, ltp.Nc, dp, d)
        rpe == Gsm_RPE_Encoding(lt.e)
    IN  [dp |-> Last120(dp, Array(40, LAMBDA i :
                                gsm_add(rpe.ep[i], lt.dpp[i]))),
         sub |-> [Nc |-> ltp.Nc, bc |-> ltp.bc, Mc |-> rpe.Mc,
                  xmaxc |-> rpe.xmaxc, xMc |-> rpe.xMc]]

Postprocessing(msr, s) ==
    Filter(LAMBDA m, x :
               LET next == gsm_add(x, Short(GSM_MULT_R(m, 28180)))
               IN  [st |-> next, out |-> (gsm_add(next, next) \div 8) * 8],
           msr, s)

(* The residual of one sub-segment, and the history that it leaves.        *)
DecodedSub(nrp, dp, sub) ==
    Gsm_Long_Term_Synthesis_Filtering(nrp, dp, sub.Nc, sub.bc,
                                      Gsm_RPE_Decoding(sub))

=============================================================================
