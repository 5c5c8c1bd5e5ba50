------------------------------- MODULE Formats -------------------------------
(***************************************************************************)
(* The sums behind the Output tab: a timing for any size and refresh on    *)
(* one of the pixel clocks the PLAY's HDMI makes (output/timings.go), and  *)
(* where a part of the picture goes on the screen (output/aoi.go).  What   *)
(* they give is written into shim.conf, and a timing that is wrong is a    *)
(* dark screen.                                                            *)
(***************************************************************************)
EXTENDS Integers

CONSTANTS
    Sizes, Rates,       (* what owners type: widths and heights, whole Hz   *)
    Timings,            (* the complete timings they type                   *)
    Unit,               (* a whole picture or screen, in parts              *)
    Areas,              (* the areas of interest they draw                  *)
    Pictures, Screens   (* sizes of those                                   *)

Rectangle == [x : Int, y : Int, w : Int, h : Int]

ASSUME FormatsAssumption ==
    /\ Sizes \subseteq Nat \X Nat /\ Rates \subseteq Nat
    /\ Unit \in Nat \ {0}
    /\ Areas \subseteq [src : Rectangle, dst : Rectangle, keeps : BOOLEAN]
    /\ Pictures \subseteq Nat \X Nat /\ Screens \subseteq Nat \X Nat

VARIABLE formatAnswer       (* what the API was asked last, and its answer  *)

ClocksKHz == {27000, 40000, 59341, 59400, 65000, 71000, 74176, 74250, 83500, 85750, 88750,
              108000, 119000, 148352, 148500, 162000, 296703, 297000, 593407, 594000}

At0(lo, hi, v) == IF v < lo THEN lo ELSE IF v > hi THEN hi ELSE v
Even(v)        == 2 * (v \div 2)
Gap(a, b)      == IF a < b THEN b - a ELSE a - b

-----------------------------------------------------------------------------
(* Check, and the shim's bdout_mode_check after it; the name and the flags
   of a timing are left out.                                                *)

Refresh(m) == (m.clock * 1000 + (m.ht * m.vt) \div 2) \div (m.ht * m.vt)

InOrder(display, start, end, total) ==
    0 < display /\ display < start /\ start < end /\ end <= total /\ total <= 65535

Check(m) ==
    /\ m.clock \in ClocksKHz
    /\ InOrder(m.w, m.hs, m.he, m.ht) /\ InOrder(m.h, m.vs, m.ve, m.vt)
    /\ m.w <= 4096 /\ m.h <= 4096 /\ m.w % 2 = 0 /\ m.h % 2 = 0
    /\ Refresh(m) \in 20..120

(* Fit: CVT's reduced blanking, at least 80 pixels a line in steps of 8 and
   460 us a frame, then the smallest clock that covers it, its blanking
   spread over both axes.                                                   *)

Fits0(w, h, hz) ==
    /\ w \in 320..4096 /\ h \in 200..4096 /\ w % 2 = 0 /\ h % 2 = 0
    /\ hz \in 23..120

(* Mutant of HMin: rounded to the nearest step that is there.               *)
HMinDown(w) == ((w + 80) \div 8) * 8
HMin(w)     == ((w + 80 + 7) \div 8) * 8

(* The loop's result: the least v with v - h of at least 460e-6 * hz * v.   *)
VMin(h, hz) ==
    LET slope == 50000 - 23 * hz  least == (50000 * h + slope - 1) \div slope
    IN  IF least < h + 15 THEN h + 15 ELSE least

Covers(clock, w, h, hz) == (clock * 1000) \div hz >= HMin(w) * VMin(h, hz)

OffBy(clock, hz, ht, vt) == Gap(clock * 1000, hz * (ht * vt))
Near(clock, hz, ht, vt)  == OffBy(clock, hz, ht, vt) <= (hz * (ht * vt)) \div 2000
Tight(clock, hz, ht, vt) == OffBy(clock, hz, ht, vt) <= (hz * (ht * vt)) \div 20000

(* sqrt(area / hMin * vMin), to the line below.                             *)
VTarget(clock, w, h, hz) ==
    LET square == (((clock * 1000) \div hz) \div HMin(w)) * VMin(h, hz)
    IN  CHOOSE v \in 1..65535 : v * v <= square /\ square < (v + 1) * (v + 1)

Totals(clock, w, h, hz, last) ==
    LET Lines(vt) == {(((clock * 1000) \div (hz * vt)) \div 8) * 8,
                      (((clock * 1000 + hz * vt - 1) \div (hz * vt) + 7) \div 8) * 8}
    IN  {t \in UNION {Lines(vt) \X {vt} : vt \in VMin(h, hz)..last} :
            t[1] \in HMin(w)..65535 /\ t[2] \in VMin(h, hz)..65535
            /\ Near(clock, hz, t[1], t[2])}

(* better: a refresh within 0.005%, then the even spread, then the nearer.  *)
Better(clock, hz, target, a, b) ==
    LET tight(t) == Tight(clock, hz, t[1], t[2])
        spread(t) == Gap(t[2], target)
    IN  IF tight(a) # tight(b) THEN tight(a)
        ELSE IF spread(a) # spread(b) THEN spread(a) < spread(b)
        ELSE OffBy(clock, hz, a[1], a[2]) < OffBy(clock, hz, b[1], b[2])

ModeOf(clock, w, h, t) ==
    LET front == At0(8, 48, Even((t[1] - w - 32) \div 3)) IN
    [clock |-> clock, w |-> w, hs |-> w + front, he |-> w + front + 32, ht |-> t[1],
     h |-> h, vs |-> h + 3, ve |-> h + 9, vt |-> t[2]]

(* The best the clock has, none where it has none; more than one where they
   are as good.                                                             *)
Best(clock, w, h, hz) ==
    IF ~Covers(clock, w, h, hz) THEN {}
    ELSE LET target == VTarget(clock, w, h, hz)
             totals == Totals(clock, w, h, hz, (3 * target) \div 2 + 16)
         IN  {t \in totals : \A u \in totals : ~Better(clock, hz, target, u, t)}

Fit(w, h, hz) ==
    IF ~Fits0(w, h, hz) THEN {}
    ELSE UNION {{ModeOf(clock, w, h, t) : t \in Best(clock, w, h, hz)} :
                clock \in {c \in ClocksKHz : \A d \in ClocksKHz : d < c => Best(d, w, h, hz) = {}}}

-----------------------------------------------------------------------------
(* Preview: the source area and the place on the screen, in even pixels.    *)

ValidRect(r) ==
    /\ r.x \in 0..Unit /\ r.y \in 0..Unit /\ r.w > 0 /\ r.h > 0
    /\ r.w <= Unit - r.x /\ r.h <= Unit - r.y

Part(n, share) == Even((n * share + Unit \div 2) \div Unit)
Within(size, from, len) == IF from + len > size THEN Even(size - from) ELSE len

CutOut(r, pw, ph) ==
    [x |-> Part(pw, r.x), y |-> Part(ph, r.y),
     w |-> Within(pw, Part(pw, r.x), Part(pw, r.w)),
     h |-> Within(ph, Part(ph, r.y), Part(ph, r.h))]

(* Mutant of Barred: the bars the wrong way round.                          *)
BarredWrong(src, dst) ==
    LET tall == Even((dst.w * src.h + src.w \div 2) \div src.w)
        wide == Even((dst.h * src.w + src.h \div 2) \div src.h)
    IN  IF src.w * dst.h < dst.w * src.h
        THEN [dst EXCEPT !.y = @ + Even((dst.h - tall) \div 2), !.h = tall]
        ELSE IF src.w * dst.h > dst.w * src.h
        THEN [dst EXCEPT !.x = @ + Even((dst.w - wide) \div 2), !.w = wide]
        ELSE dst

(* Bars above and below, or at the sides, and the picture between them.     *)
Barred(src, dst) ==
    LET tall == Even((dst.w * src.h + src.w \div 2) \div src.w)
        wide == Even((dst.h * src.w + src.h \div 2) \div src.h)
    IN  IF src.w * dst.h > dst.w * src.h
        THEN [dst EXCEPT !.y = @ + Even((dst.h - tall) \div 2), !.h = tall]
        ELSE IF src.w * dst.h < dst.w * src.h
        THEN [dst EXCEPT !.x = @ + Even((dst.w - wide) \div 2), !.w = wide]
        ELSE dst

(* The hardware scales 8:1 at most, either way.                             *)
Scales(a, b) == a <= 8 * b /\ b <= 8 * a

Preview(area, pic, scr) ==
    LET src == CutOut(area.src, pic[1], pic[2])
        dst == CutOut(area.dst, scr[1], scr[2])
        out == IF area.keeps THEN Barred(src, dst) ELSE dst
    IN  IF /\ pic[1] >= 16 /\ pic[2] >= 16 /\ scr[1] >= 16 /\ scr[2] >= 16
           /\ ValidRect(area.src) /\ ValidRect(area.dst)
           /\ src.w >= 16 /\ src.h >= 16 /\ dst.w >= 16 /\ dst.h >= 16
           /\ out.w >= 16 /\ out.h >= 16
           /\ Scales(src.w, out.w) /\ Scales(src.h, out.h)
        THEN {[src |-> src, dst |-> out]} ELSE {}

-----------------------------------------------------------------------------
NothingAsked == [kind |-> "none", asked |-> <<>>, gives |-> {}]
FormatsInit == formatAnswer = NothingAsked

handleResolve(w, h, hz) ==
    formatAnswer' = [kind |-> "fit", asked |-> <<w, h, hz>>, gives |-> Fit(w, h, hz)]
handleTiming(m) ==
    formatAnswer' = [kind |-> "timing", asked |-> <<m>>, gives |-> {x \in {m} : Check(x)}]
handlePreview(area, pic, scr) ==
    formatAnswer' = [kind |-> "area", asked |-> <<area, pic, scr>>, gives |-> Preview(area, pic, scr)]

(* Each from the start: no answer depends on the one before.                *)
AskAgain == formatAnswer # NothingAsked /\ formatAnswer' = NothingAsked

FormatsNext ==
    \/ /\ formatAnswer = NothingAsked
       /\ \/ \E s \in Sizes, hz \in Rates : handleResolve(s[1], s[2], hz)
          \/ \E m \in Timings : handleTiming(m)
          \/ \E area \in Areas, pic \in Pictures, scr \in Screens : handlePreview(area, pic, scr)
    \/ AskAgain

-----------------------------------------------------------------------------
(* Whatever is typed, a timing that is given is one the shim accepts: in
   order, on a clock there is, of the size that was asked for, with the
   least blanking a screen expects, and at the refresh, to 0.05%.           *)
FittedIsAccepted ==
    formatAnswer.kind = "fit" => \A m \in formatAnswer.gives :
        /\ Check(m) /\ m.ht - m.w >= 80 /\ m.ht % 8 = 0 /\ m.vt - m.h >= 15
        /\ <<m.w, m.h>> = <<formatAnswer.asked[1], formatAnswer.asked[2]>>
        /\ Refresh(m) = formatAnswer.asked[3] /\ Near(m.clock, formatAnswer.asked[3], m.ht, m.vt)

(* timings.go: within 0.005% wherever that clock has totals that get there. *)
TightWhereItCan ==
    formatAnswer.kind = "fit" => \A m \in formatAnswer.gives :
        LET w == m.w  h == m.h  hz == formatAnswer.asked[3] IN
        (\E t \in Totals(m.clock, w, h, hz, ((m.clock * 1000) \div hz) \div HMin(w)) : Tight(m.clock, hz, t[1], t[2]))
            => Tight(m.clock, hz, m.ht, m.vt)

(* The part that is shown is inside the picture and its place inside the
   screen, in even pixels the hardware can scale, and where the aspect is
   kept the shape is the source's to two pixels.                            *)
PlaneIsInside ==
    formatAnswer.kind = "area" => \A p \in formatAnswer.gives :
        LET area == formatAnswer.asked[1]  pic == formatAnswer.asked[2]  scr == formatAnswer.asked[3] IN
        /\ p.src.x + p.src.w <= pic[1] /\ p.src.y + p.src.h <= pic[2]
        /\ p.dst.x + p.dst.w <= scr[1] /\ p.dst.y + p.dst.h <= scr[2]
        /\ p.src.x >= 0 /\ p.src.y >= 0 /\ p.dst.x >= 0 /\ p.dst.y >= 0
        /\ \A n \in {p.src.x, p.src.y, p.src.w, p.src.h, p.dst.x, p.dst.y, p.dst.w, p.dst.h} : n % 2 = 0
        /\ p.dst.w >= 16 /\ p.dst.h >= 16
        /\ area.keeps => Gap(p.src.w * p.dst.h, p.dst.w * p.src.h) <= 2 * p.src.w
                      \/ Gap(p.src.w * p.dst.h, p.dst.w * p.src.h) <= 2 * p.src.h
=============================================================================
