-------------------------- MODULE IsoTpPairProofs --------------------------
(***************************************************************************)
(* Two transports on one bus implement MsgTransfer in each direction, for  *)
(* every configuration and whatever is lost but first frames.              *)
(***************************************************************************)
EXTENDS IsoTpPair, TLAPS

-----------------------------------------------------------------------------
(* Messages between the two transports, one direction at a time: a sender's*)
(* tx and sduRx, the frames between, a receiver's rx, sduTx and what its   *)
(* upper layer was given.  The operators below take them as parameters, and*)
(* are used with A sending to B and with B sending to A.                   *)

(* Where consecutive frames begin.                                         *)
FirstLoad(len) == FrameLen - (IF len > 4095 THEN 6 ELSE 2)
NextLoad == FrameLen - 1
Aligned(len, off) == \E k \in Nat : off = FirstLoad(len) + k * NextLoad

(* A message as it was asked for; the lengths are lens.                    *)
Asked(lens, k) == [msg |-> k, len |-> lens[k], ta |-> "phys"]

Carrying(f) == f.kind \in {"SF", "FF", "CF"}
Opening(f)  == f.kind \in {"SF", "FF"}

(* A frame that carries a part of a message, and the right part.           *)
Genuine(lens, f) ==
  /\ f.kind \in {"SF", "FF", "CF", "FC"}
  /\ f.kind = "SF" => f.n = lens[f.msg] /\ f.addr = "phys"
  /\ f.kind = "FF" => /\ f.ok /\ f.total = lens[f.msg] /\ f.n < f.total
                      /\ f.n = FirstLoad(f.total) /\ f.addr = "phys"
  /\ f.kind = "CF" => /\ f.off \in Nat /\ f.off < lens[f.msg] /\ Aligned(lens[f.msg], f.off)
                      /\ f.n \in 1 .. NextLoad
                      /\ f.off + f.n < lens[f.msg] => f.n = NextLoad

(* Frame e was sent earlier than f.                                        *)
Before(e, f) ==
  \/ e.msg < f.msg
  \/ /\ e.msg = f.msg /\ f.kind = "CF"
     /\ e.kind = "FF" \/ (e.kind = "CF" /\ e.off + NextLoad <= f.off)

(* How far the bytes of a message yet to come are past those a reception   *)
(* has: what it misses it never makes up for.                              *)
Gap(r) == IF r.acc.intact THEN 0 ELSE NextLoad

(* What is true of f when the frames ahead of it are those of E: they are  *)
(* earlier ones, and of a consecutive frame the first frame is among them, *)
(* or nothing that opens another message.                                  *)
InOrder(E, f) ==
  /\ \A e \in E : Carrying(e) => Before(e, f)
  /\ f.kind = "CF" =>
       \/ \E e \in E : e.kind = "FF" /\ e.msg = f.msg
       \/ \A e \in E : ~Opening(e)

(* And of a reception under way.                                           *)
Awaits(E, f, r) ==
  r.state # "IDLE" =>
    /\ r.acc.msg <= f.msg
    /\ Opening(f) => r.acc.msg < f.msg
    /\ f.kind = "CF" /\ f.msg = r.acc.msg => r.filled + Gap(r) <= f.off
    /\ f.kind = "CF" /\ f.msg # r.acc.msg => \E e \in E : Opening(e)

(* Younger than everything that was handed up.                             *)
Newer(u, g, k) ==
  /\ (IF g = <<>> THEN 0 ELSE g[Len(g)].msg) < k
  /\ \A i \in DOMAIN u : u[i].kind = "MSG" => u[i].msg < k

Fits(lens, n, E, f, r, u, g) ==
  /\ Genuine(lens, f)
  /\ Carrying(f) =>
       /\ f.msg \in 1 .. n
       /\ InOrder(E, f) /\ Awaits(E, f, r)
       /\ Opening(f) => Newer(u, g, f.msg)

-----------------------------------------------------------------------------
(* Arithmetic of the frames.                                               *)
LEMMA Loads ==
  /\ FrameLen \in 8 .. 64 /\ NextLoad \in 7 .. 63
  /\ \A len : FirstLoad(len) \in 2 .. 62
BY LinkAssumption DEF LinkAssumption, NextLoad, FirstLoad

LEMMA Spaced ==
  ASSUME NEW len, NEW x, NEW y, Aligned(len, x), Aligned(len, y), x < y
  PROVE  x + NextLoad <= y
<1>1. PICK j \in Nat : x = FirstLoad(len) + j * NextLoad
  BY DEF Aligned
<1>2. PICK k \in Nat : y = FirstLoad(len) + k * NextLoad
  BY DEF Aligned
<1>0. NextLoad \in Nat /\ FirstLoad(len) \in Nat
  BY Loads
<1> HIDE DEF Aligned
<1>3. ASSUME NEW a \in Nat, NEW b \in Nat, a <= b, NEW c \in Nat PROVE a * c <= b * c
  BY <1>3
<1>4. CASE k <= j
  <2>1. k * NextLoad <= j * NextLoad
    BY <1>0, <1>3, <1>4
  <2>2. j * NextLoad \in Nat /\ k * NextLoad \in Nat
    BY <1>0
  <2> QED
    BY ONLY <1>0, <1>1, <1>2, <2>1, <2>2, x < y
<1>5. CASE j + 1 <= k
  <2>1. (j + 1) * NextLoad <= k * NextLoad
    BY <1>0, <1>3, <1>5
  <2>2. (j + 1) * NextLoad = j * NextLoad + NextLoad
    BY <1>0
  <2>3. j * NextLoad \in Nat /\ k * NextLoad \in Nat
    BY <1>0
  <2> QED
    BY ONLY <1>0, <1>1, <1>2, <2>1, <2>2, <2>3
<1> QED
  BY <1>4, <1>5

LEMMA AlignedNext ==
  ASSUME NEW len, NEW x \in Nat, Aligned(len, x)
  PROVE  Aligned(len, x + NextLoad)
<1>1. PICK j \in Nat : x = FirstLoad(len) + j * NextLoad
  BY DEF Aligned
<1>2. x + NextLoad = FirstLoad(len) + (j + 1) * NextLoad
  BY <1>1, Loads
<1> QED
  BY <1>2 DEF Aligned

LEMMA AlignedFirst == \A len : Aligned(len, FirstLoad(len))
<1>1. ASSUME NEW len PROVE FirstLoad(len) = FirstLoad(len) + 0 * NextLoad
  BY Loads
<1> QED
  BY <1>1 DEF Aligned

-----------------------------------------------------------------------------
(* The next frame of a transmission, as far as the link cares.             *)
IsFirst(f, s) ==
  \/ f.kind = "SF" /\ f.addr = "phys" /\ f.msg = s.msg /\ f.n = s.len
  \/ /\ f.kind = "FF" /\ f.addr = "phys" /\ f.msg = s.msg /\ f.total = s.len /\ f.ok
     /\ f.n = FirstLoad(f.total) /\ f.n < f.total

IsNext(f, t) ==
  /\ f.kind = "CF" /\ f.msg = t.sdu.msg /\ f.off = t.sent
  /\ f.n \in 1 .. NextLoad
  /\ f.off + f.n < t.sdu.len => f.n = NextLoad

IsDue(f, t) == IF t.sent = 0 THEN IsFirst(f, t.sdu) ELSE IsNext(f, t)

(* A sender fetches a request, goes on, gives up, or emits what is due.    *)
Held(t) == t.state # "IDLE"
Fetches(t, q, t1, q1) ==
  \/ t1 = t /\ q1 = q
  \/ /\ ~Held(t) /\ q # <<>> /\ q1 = Tail(q)
     /\ Held(t1) /\ t1.sdu = Head(q) /\ t1.sent = 0
GoesOn(t, t2) == Held(t2) => Held(t) /\ t2.sdu = t.sdu /\ t2.sent = t.sent
Emits(t, e, t2) ==
  /\ Held(t) /\ IsDue(e, t)
  /\ Held(t2) =>
       /\ t2.sdu = t.sdu
       /\ \/ e.kind = "FF" /\ t2.sent = e.n
          \/ e.kind = "CF" /\ t2.sent = t.sent + NextLoad /\ t2.sent < t.sdu.len
Sends(t, q, o, t2, q2, o2) ==
  \E t1 :
    /\ Fetches(t, q, t1, q2)
    /\ \/ GoesOn(t1, t2) /\ (o2 = o \/ \E c : c.kind = "FC" /\ o2 = Append(o, c))
       \/ \E e : Emits(t1, e, t2) /\ o2 = Append(o, e)

(* A receiver adds outcomes to what it hands up, but no message.           *)
Adds(u, v) ==
  /\ \E M : v \in Seq(M)
  /\ Len(u) <= Len(v)
  /\ \A i \in 1 .. Len(u) : v[i] = u[i]
  /\ \A i \in Len(u) + 1 .. Len(v) : v[i].kind # "MSG"

(* A reception stays, or is given up; a frame opens one, or is copied in.  *)
Stays(r, r2) == r2.state # "IDLE" => r.state # "IDLE" /\ r2.acc = r.acc
                                     /\ r2.filled = r.filled /\ r2.total = r.total
OpenedBy(f, r) ==
  /\ r.state # "IDLE" /\ r.total = f.total /\ r.filled = f.n
  /\ r.acc = [msg |-> f.msg, intact |-> TRUE]

Share(r, f) == IF f.n < r.total - r.filled THEN f.n ELSE r.total - r.filled
Intact(r, f) == r.acc.intact /\ (Share(r, f) > 0 => f.msg = r.acc.msg /\ f.off = r.filled)
CopiedIn(r, f, r2) ==
  /\ r2.state # "IDLE" /\ r2.total = r.total /\ r2.filled = r.filled + Share(r, f)
  /\ r2.acc = [msg |-> r.acc.msg, intact |-> Intact(r, f)]

IsMessage(s, k, len, intact) == s.kind = "MSG" /\ s.msg = k /\ s.len = len /\ s.intact = intact

(* What a receiver makes of frame f, its queue to the upper layer was u.   *)
Receives(f, r, u, r2, u2) ==
  \/ r2.state = "IDLE" /\ Adds(u, u2)
  \/ ~Opening(f) /\ Stays(r, r2) /\ Adds(u, u2)
  \/ f.kind = "FF" /\ OpenedBy(f, r2) /\ Adds(u, u2)
  \/ /\ f.kind = "CF" /\ r.state # "IDLE"
     /\ CopiedIn(r, f, r2) /\ r2.filled < r2.total /\ u2 = u
  \/ /\ r2.state = "IDLE"
     /\ \E v, s :
          /\ Adds(u, v) /\ u2 = Append(v, s)
          /\ \/ f.kind = "SF" /\ IsMessage(s, f.msg, f.n, TRUE)
             \/ /\ f.kind = "CF" /\ r.state # "IDLE"
                /\ r.filled + Share(r, f) >= r.total
                /\ IsMessage(s, r.acc.msg, r.total, Intact(r, f))

(* One direction: asked, tx, sduRx of the sender; the receiver's canRx i,  *)
(* the sender's canTx o; rx, sduTx and got of the receiver.                *)
SenderOk(lens, n, t, q) ==
  /\ lens \in Seq(Nat \ {0}) /\ n \in 0 .. Len(lens)
  /\ \E M : q \in Seq(M)
  /\ n + Len(q) <= Len(lens)
  /\ \A x \in DOMAIN q : q[x] = Asked(lens, n + x)
  /\ Held(t) => /\ n >= 1 /\ t.sdu = Asked(lens, n)
                /\ t.sent # 0 => /\ t.sent \in Nat /\ t.sent < lens[n]
                                  /\ Aligned(lens[n], t.sent)

Ahead(w, p) == {w[i] : i \in 1 .. p - 1}
WireOk(lens, n, t, w, r, u, g) ==
  /\ \A p \in 1 .. Len(w) : Fits(lens, n, Ahead(w, p), w[p], r, u, g)
  /\ Held(t) => \A f : IsDue(f, t) => Fits(lens, n, Ahead(w, Len(w) + 1), f, r, u, g)

ReceiverOk(lens, n, r, u, g) ==
  r.state # "IDLE" =>
    /\ r.acc.msg \in 1 .. n /\ Newer(u, g, r.acc.msg)
    /\ r.acc.intact \in BOOLEAN
    /\ r.total = lens[r.acc.msg] /\ r.filled \in Nat /\ r.filled < r.total
    /\ r.acc.intact => Aligned(r.total, r.filled)

Latest(g) == IF g = <<>> THEN 0 ELSE g[Len(g)].msg
UpperOk(lens, n, u, g) ==
  /\ (\E M : u \in Seq(M)) /\ \E M : g \in Seq(M)
  /\ Latest(g) \in 0 .. n
  /\ \A i \in DOMAIN u : u[i].kind = "MSG" =>
       /\ u[i].msg \in 1 .. n /\ Latest(g) < u[i].msg
       /\ u[i].len = lens[u[i].msg] /\ u[i].intact = TRUE
  /\ \A i, j \in DOMAIN u :
       i < j /\ u[i].kind = "MSG" /\ u[j].kind = "MSG" => u[i].msg < u[j].msg

-----------------------------------------------------------------------------
(* What happens to the frames between keeps each in its place.  A frame is *)
(* lost that is no first frame; the frame in front is taken.               *)
LEMMA OrderWithout ==
  ASSUME NEW E, NEW D, NEW x, NEW f, InOrder(E, f),
         D \subseteq E, E \subseteq D \cup {x}, x.kind # "FF"
  PROVE  InOrder(D, f)
  BY DEF InOrder, Opening

LEMMA AwaitsWithout ==
  ASSUME NEW E, NEW D, NEW x, NEW f, NEW r, Carrying(f), InOrder(E, f), Awaits(E, f, r),
         D \subseteq E, E \subseteq D \cup {x}, x.kind # "FF"
  PROVE  Awaits(D, f, r)
  BY DEF InOrder, Awaits, Opening

LEMMA OrderBehind ==
  ASSUME NEW E, NEW D, NEW x, NEW f, InOrder(E, f), Carrying(f), f.msg \in Nat,
         D \subseteq E, E = D \cup {x},
         x.kind = "FF" => x.msg \in Nat,
         \A d \in D : Carrying(d) => d.msg \in Nat /\ (Carrying(x) => Before(x, d))
  PROVE  InOrder(D, f)
<1>1. CASE x.kind # "FF"
  BY <1>1, OrderWithout
<1>2. CASE x.kind = "FF"
  <2>1. \A e \in D : Carrying(e) => Before(e, f)
    BY DEF InOrder
  <2>2. ASSUME f.kind = "CF"
        PROVE  \/ \E e \in D : e.kind = "FF" /\ e.msg = f.msg
               \/ \A e \in D : ~Opening(e)
    <3>1. PICK e \in E : e.kind = "FF" /\ e.msg = f.msg
      BY <1>2, <2>2 DEF InOrder, Opening
    <3>2. CASE e \in D
      BY <3>1, <3>2
    <3>3. ASSUME e = x, NEW d \in D PROVE ~Opening(d)
      <4>1. Opening(d) => Carrying(d) /\ d.kind # "CF"
        BY DEF Opening, Carrying
      <4>2. Carrying(x)
        BY <1>2 DEF Carrying
      <4>3. Opening(d) => x.msg < d.msg /\ (d.msg < f.msg \/ d.msg = f.msg)
        BY <2>1, <4>1, <4>2 DEF Before
      <4> QED
        BY <1>2, <3>1, <3>3, <4>1, <4>3
    <3> QED
      BY <3>2, <3>3
  <2> QED
    BY <2>1, <2>2 DEF InOrder
<1> QED
  BY <1>1, <1>2

(* A reception opened by the frame in front.                               *)
LEMMA AwaitsOpened ==
  ASSUME NEW lens, NEW E, NEW D, NEW x, NEW f, NEW r, OpenedBy(x, r),
         Genuine(lens, x), x.kind = "FF", x.msg \in Nat,
         InOrder(E, f), Carrying(f), f.msg \in Nat, Genuine(lens, f), E = D \cup {x}
  PROVE  Awaits(D, f, r)
<1>1. r.acc.msg = x.msg /\ Gap(r) = 0 /\ r.filled = FirstLoad(lens[x.msg])
  BY DEF OpenedBy, Gap, Genuine
<1>2. Before(x, f)
  BY DEF InOrder, Carrying
<1>3. f.kind = "CF" /\ f.msg = x.msg => FirstLoad(lens[x.msg]) <= f.off
  <2>1. ASSUME NEW k \in Nat, f.off = FirstLoad(lens[x.msg]) + k * NextLoad
        PROVE  FirstLoad(lens[x.msg]) <= f.off
    <3>1. k * NextLoad \in Nat /\ FirstLoad(lens[x.msg]) \in Nat
      BY Loads
    <3> QED
      BY <2>1, <3>1
  <2> QED
    BY <2>1 DEF Genuine, Aligned
<1>4. f.kind = "CF" /\ f.msg # x.msg => \E e \in D : Opening(e)
  BY DEF InOrder, Opening
<1> QED
  BY <1>1, <1>2, <1>3, <1>4, Loads DEF Awaits, Before, Opening, Carrying

(* The frame in front is copied in.                                        *)
LEMMA AwaitsCopied ==
  ASSUME NEW E, NEW D, NEW x, NEW f, NEW r, NEW r2, CopiedIn(r, x, r2), r.state # "IDLE",
         x.kind = "CF", x.msg = r.acc.msg, r2.filled + Gap(r2) <= x.off + NextLoad,
         r2.filled \in Nat, Gap(r2) \in Nat, x.off \in Nat, f.kind = "CF" => f.off \in Nat,
         Carrying(f), f.msg \in Nat, InOrder(E, f), Awaits(E, f, r), E = D \cup {x}
  PROVE  Awaits(D, f, r2)
<1>1. r2.acc.msg = r.acc.msg
  BY DEF CopiedIn
<1>2. Before(x, f)
  BY DEF InOrder, Carrying
<1>3. f.kind = "CF" /\ f.msg = r.acc.msg => x.off + NextLoad <= f.off
  <2>1. f.msg = r.acc.msg => ~(x.msg < f.msg)
    OBVIOUS
  <2> QED
    BY <1>2, <2>1 DEF Before
<1>4. f.kind = "CF" /\ f.msg # r.acc.msg => \E e \in D : Opening(e)
  BY DEF Awaits, Opening
<1> QED
  BY <1>1, <1>3, <1>4, Loads DEF Awaits

-----------------------------------------------------------------------------
(* What a receiver makes of the frame in front.  The frame continues the   *)
(* reception, or a part is missing that nothing to come makes up for.      *)
LEMMA Copied ==
  ASSUME NEW lens, NEW n \in Nat, NEW r, NEW u, NEW g, ReceiverOk(lens, n, r, u, g),
         r.state # "IDLE", NEW x, x.kind = "CF", Genuine(lens, x), x.msg \in Nat,
         Awaits({}, x, r), \A k \in 1 .. n : lens[k] \in Nat
  PROVE  /\ x.msg = r.acc.msg
         /\ Intact(r, x) \in BOOLEAN
         /\ r.filled + Share(r, x) \in Nat
         /\ r.filled + Share(r, x) >= r.total => Intact(r, x)
         /\ r.filled + Share(r, x) < r.total =>
              /\ Intact(r, x) => Aligned(r.total, r.filled + Share(r, x))
              /\ r.filled + Share(r, x) + (IF Intact(r, x) THEN 0 ELSE NextLoad) <= x.off + NextLoad
<1>1. x.msg = r.acc.msg /\ r.filled + Gap(r) <= x.off
  BY DEF Awaits
<1>2. /\ r.total = lens[x.msg] /\ r.total \in Nat /\ r.filled \in Nat /\ r.filled < r.total
      /\ r.acc.intact \in BOOLEAN /\ r.acc.intact => Aligned(r.total, r.filled)
  BY <1>1 DEF ReceiverOk
<1>3. /\ x.off \in Nat /\ x.off < r.total /\ Aligned(r.total, x.off) /\ x.n \in 1 .. NextLoad
      /\ x.off + x.n < r.total => x.n = NextLoad
  BY <1>2 DEF Genuine
<1>4. NextLoad \in Nat \ {0}
  BY Loads
<1>5. Share(r, x) \in 1 .. NextLoad /\ Share(r, x) <= x.n /\ Share(r, x) <= r.total - r.filled
      /\ (Share(r, x) = x.n \/ Share(r, x) = r.total - r.filled)
  BY <1>2, <1>3, <1>4 DEF Share
<1>6. Intact(r, x) <=> r.acc.intact /\ x.off = r.filled
  BY <1>1, <1>4, <1>5 DEF Intact
<1>7. Intact(r, x) \in BOOLEAN
  BY DEF Intact
<1>8. CASE Intact(r, x)
  <2>1. ASSUME r.filled + Share(r, x) < r.total
        PROVE  Share(r, x) = NextLoad /\ Aligned(r.total, r.filled + Share(r, x))
    <3>1. Share(r, x) = NextLoad
      BY <1>2, <1>3, <1>4, <1>5, <1>6, <1>8, <2>1
    <3> QED
      BY <1>2, <1>3, <1>6, <1>8, <3>1, AlignedNext
  <2> QED
    BY <1>1, <1>2, <1>3, <1>4, <1>5, <1>6, <1>7, <1>8, <2>1
<1>9. CASE ~Intact(r, x)
  <2>1. r.filled + NextLoad <= x.off
    <3>1. CASE r.acc.intact
      <4>1. r.filled <= x.off /\ r.filled # x.off
        BY <1>1, <1>2, <1>6, <1>9, <3>1 DEF Gap
      <4> QED
        BY <1>2, <1>3, <3>1, <4>1, Spaced
    <3>2. CASE ~r.acc.intact
      BY <1>1, <3>2 DEF Gap
    <3> QED
      BY <3>1, <3>2
  <2> QED
    BY <1>1, <1>2, <1>3, <1>4, <1>5, <1>7, <1>9, <2>1
<1> QED
  BY <1>8, <1>9

(* Handing up.                                                             *)
LEMMA AddsKeeps ==
  ASSUME NEW lens, NEW n, NEW u, NEW v, NEW g, Adds(u, v), UpperOk(lens, n, u, g)
  PROVE  /\ UpperOk(lens, n, v, g)
         /\ \A k : Newer(u, g, k) => Newer(v, g, k)
<1>1. PICK M : u \in Seq(M)
  BY DEF UpperOk
<1>2. PICK N : v \in Seq(N)
  BY DEF Adds
<1>3. \A i \in DOMAIN v : v[i].kind = "MSG" => i \in DOMAIN u /\ v[i] = u[i]
  BY <1>1, <1>2 DEF Adds
<1> QED
  BY <1>2, <1>3 DEF UpperOk, Newer

LEMMA HandedUp ==
  ASSUME NEW lens, NEW n, NEW u, NEW g, NEW s, UpperOk(lens, n, u, g),
         NEW k \in 1 .. n, n \in Nat, Newer(u, g, k), IsMessage(s, k, lens[k], TRUE)
  PROVE  /\ UpperOk(lens, n, Append(u, s), g)
         /\ \A j : j \in Nat /\ k < j /\ Newer(u, g, j) => Newer(Append(u, s), g, j)
<1> DEFINE v == Append(u, s)
<1>1. PICK M : u \in Seq(M)
  BY DEF UpperOk
<1>2. u \in Seq(M \cup {s})
  BY <1>1
<1>3. /\ v \in Seq(M \cup {s})
      /\ \A i \in DOMAIN v : (i \in DOMAIN u /\ v[i] = u[i]) \/ (i = Len(u) + 1 /\ v[i] = s)
      /\ \A i \in DOMAIN u : i \in Nat /\ i < Len(u) + 1
      /\ Len(u) \in Nat
  BY <1>2
<1> HIDE DEF v
<1>4. s.kind = "MSG" /\ s.msg = k /\ s.len = lens[k] /\ s.intact = TRUE
  BY DEF IsMessage
<1>5. Latest(g) < k /\ \A i \in DOMAIN u : u[i].kind = "MSG" => u[i].msg < k
  BY DEF Newer, Latest
<1>6. \A i \in DOMAIN v : v[i].kind = "MSG" =>
       /\ v[i].msg \in 1 .. n /\ Latest(g) < v[i].msg
       /\ v[i].len = lens[v[i].msg] /\ v[i].intact = TRUE
  BY <1>3, <1>4, <1>5 DEF UpperOk
<1>7. \A i, j \in DOMAIN v :
       i < j /\ v[i].kind = "MSG" /\ v[j].kind = "MSG" => v[i].msg < v[j].msg
  <2>1. ASSUME NEW i \in DOMAIN v, NEW j \in DOMAIN v,
               i < j, v[i].kind = "MSG", v[j].kind = "MSG"
        PROVE  v[i].msg < v[j].msg
    <3>1. i \in DOMAIN u /\ v[i] = u[i]
      BY ONLY <1>3, <2>1
    <3>2. (j \in DOMAIN u /\ v[j] = u[j]) \/ v[j] = s
      BY <1>3
    <3> QED
      BY <1>4, <1>5, <2>1, <3>1, <3>2 DEF UpperOk
  <2> QED
    BY <2>1
<1>8. UpperOk(lens, n, v, g)
  BY <1>3, <1>6, <1>7 DEF UpperOk
<1>9. ASSUME NEW j \in Nat, k < j, Newer(u, g, j) PROVE Newer(v, g, j)
  BY <1>3, <1>4, <1>9 DEF Newer
<1> QED
  BY <1>8, <1>9 DEF v

(* What the receiver holds, and hands up, after the frame in front.        *)
LEMMA ReceiverTakes ==
  ASSUME NEW lens, NEW n \in Nat, \A k \in 1 .. n : lens[k] \in Nat,
         NEW r, NEW u, NEW g, NEW x, NEW r2, NEW u2,
         ReceiverOk(lens, n, r, u, g), UpperOk(lens, n, u, g),
         Fits(lens, n, {}, x, r, u, g), Receives(x, r, u, r2, u2)
  PROVE  ReceiverOk(lens, n, r2, u2, g) /\ UpperOk(lens, n, u2, g)
<1>1. CASE r2.state = "IDLE" /\ Adds(u, u2)
  BY <1>1, AddsKeeps DEF ReceiverOk
<1>2. CASE ~Opening(x) /\ Stays(r, r2) /\ Adds(u, u2)
  <2>1. UpperOk(lens, n, u2, g) /\ \A k : Newer(u, g, k) => Newer(u2, g, k)
    BY <1>2, AddsKeeps
  <2>2. ASSUME r2.state # "IDLE"
        PROVE  /\ r.state # "IDLE" /\ r2.acc = r.acc
               /\ r2.filled = r.filled /\ r2.total = r.total
    BY <1>2, <2>2 DEF Stays
  <2> QED
    BY <2>1, <2>2 DEF ReceiverOk
<1>3. CASE x.kind = "FF" /\ OpenedBy(x, r2) /\ Adds(u, u2)
  <2>1. /\ x.msg \in 1 .. n /\ Newer(u, g, x.msg) /\ x.total = lens[x.msg]
        /\ x.n < x.total /\ x.n = FirstLoad(x.total)
    BY <1>3 DEF Fits, Carrying, Opening, Genuine
  <2>2. /\ r2.acc.msg = x.msg /\ r2.acc.intact = TRUE
        /\ r2.total = x.total /\ r2.filled = x.n
    BY <1>3 DEF OpenedBy
  <2>3. Newer(u2, g, x.msg) /\ UpperOk(lens, n, u2, g)
    BY <1>3, <2>1, AddsKeeps
  <2>4. x.n \in Nat
    BY <2>1, Loads
  <2> QED
    BY <2>1, <2>2, <2>3, <2>4, AlignedFirst DEF ReceiverOk
<1>4. ASSUME x.kind = "CF", r.state # "IDLE"
      PROVE  /\ r.acc.msg \in 1 .. n /\ Newer(u, g, r.acc.msg)
             /\ r.total = lens[r.acc.msg] /\ r.total \in Nat
             /\ Intact(r, x) \in BOOLEAN
             /\ r.filled + Share(r, x) \in Nat
             /\ r.filled + Share(r, x) >= r.total => Intact(r, x)
             /\ r.filled + Share(r, x) < r.total =>
                  (Intact(r, x) => Aligned(r.total, r.filled + Share(r, x)))
  <2>1. x.msg \in Nat /\ Genuine(lens, x) /\ Awaits({}, x, r)
    BY <1>4 DEF Fits, Carrying
  <2> QED
    BY <1>4, <2>1, Copied DEF ReceiverOk
<1>5. CASE x.kind = "CF" /\ r.state # "IDLE" /\ CopiedIn(r, x, r2) /\ r2.filled < r2.total /\ u2 = u
  BY <1>4, <1>5 DEF CopiedIn, ReceiverOk
<1>6. CASE /\ r2.state = "IDLE"
           /\ \E v, s :
                /\ Adds(u, v) /\ u2 = Append(v, s)
                /\ \/ x.kind = "SF" /\ IsMessage(s, x.msg, x.n, TRUE)
                   \/ /\ x.kind = "CF" /\ r.state # "IDLE"
                      /\ r.filled + Share(r, x) >= r.total
                      /\ IsMessage(s, r.acc.msg, r.total, Intact(r, x))
  <2>1. PICK v, s :
                /\ Adds(u, v) /\ u2 = Append(v, s)
                /\ \/ x.kind = "SF" /\ IsMessage(s, x.msg, x.n, TRUE)
                   \/ /\ x.kind = "CF" /\ r.state # "IDLE"
                      /\ r.filled + Share(r, x) >= r.total
                      /\ IsMessage(s, r.acc.msg, r.total, Intact(r, x))
    BY <1>6
  <2>2. UpperOk(lens, n, v, g) /\ \A k : Newer(u, g, k) => Newer(v, g, k)
    BY <2>1, AddsKeeps
  <2>3. CASE x.kind = "SF" /\ IsMessage(s, x.msg, x.n, TRUE)
    <3>1. x.msg \in 1 .. n /\ Newer(v, g, x.msg) /\ x.n = lens[x.msg]
      BY <2>2, <2>3 DEF Fits, Carrying, Opening, Genuine
    <3> QED
      BY <1>6, <2>1, <2>2, <2>3, <3>1, HandedUp DEF ReceiverOk
  <2>4. CASE /\ x.kind = "CF" /\ r.state # "IDLE"
             /\ r.filled + Share(r, x) >= r.total
             /\ IsMessage(s, r.acc.msg, r.total, Intact(r, x))
    <3>1. Intact(r, x) = TRUE
      BY <1>4, <2>4
    <3> QED
      BY <1>4, <1>6, <2>1, <2>2, <2>4, <3>1, HandedUp DEF ReceiverOk
  <2> QED
    BY <2>1, <2>3, <2>4
<1> QED
  BY <1>1, <1>2, <1>3, <1>5, <1>6 DEF Receives

(* And the frames behind it still fit.                                     *)
LEMMA BehindTaken ==
  ASSUME NEW lens, NEW n \in Nat, \A k \in 1 .. n : lens[k] \in Nat,
         NEW r, NEW u, NEW g, NEW x, NEW r2, NEW u2,
         ReceiverOk(lens, n, r, u, g), UpperOk(lens, n, u, g),
         Fits(lens, n, {}, x, r, u, g), Receives(x, r, u, r2, u2),
         NEW D, NEW E, NEW f, E = D \cup {x}, Fits(lens, n, E, f, r, u, g),
         \A d \in D : Carrying(d) => d.msg \in Nat /\ (Carrying(x) => Before(x, d))
  PROVE  Fits(lens, n, D, f, r2, u2, g)
<1> SUFFICES ASSUME Carrying(f)
             PROVE  InOrder(D, f) /\ Awaits(D, f, r2) /\ (Opening(f) => Newer(u2, g, f.msg))
  BY DEF Fits
<1>1. /\ Genuine(lens, f) /\ f.msg \in 1 .. n /\ InOrder(E, f) /\ Awaits(E, f, r)
      /\ Opening(f) => Newer(u, g, f.msg)
  BY DEF Fits
<1>2. Genuine(lens, x) /\ (Carrying(x) => x.msg \in 1 .. n /\ Awaits({}, x, r))
  BY DEF Fits
<1>3. InOrder(D, f)
  BY <1>1, <1>2, OrderBehind DEF Carrying
<1>4. Carrying(x) => Before(x, f)
  BY <1>1 DEF InOrder
<1>5. CASE r2.state = "IDLE" /\ Adds(u, u2)
  BY <1>1, <1>3, <1>5, AddsKeeps DEF Awaits
<1>6. CASE ~Opening(x) /\ Stays(r, r2) /\ Adds(u, u2)
  <2>1. Awaits(D, f, r)
    BY <1>1, <1>6, AwaitsWithout DEF Opening
  <2>2. Awaits(D, f, r2)
    BY <1>6, <2>1 DEF Awaits, Stays, Gap
  <2> QED
    BY <1>1, <1>3, <1>6, <2>2, AddsKeeps
<1>7. CASE x.kind = "FF" /\ OpenedBy(x, r2) /\ Adds(u, u2)
  <2>1. Awaits(D, f, r2)
    BY <1>1, <1>2, <1>7, AwaitsOpened DEF Carrying
  <2> QED
    BY <1>1, <1>3, <1>7, <2>1, AddsKeeps
<1>8. CASE x.kind = "CF" /\ r.state # "IDLE" /\ CopiedIn(r, x, r2) /\ r2.filled < r2.total /\ u2 = u
  <2>1. /\ x.msg = r.acc.msg
        /\ Intact(r, x) \in BOOLEAN
        /\ r.filled + Share(r, x) \in Nat
        /\ r.filled + Share(r, x) < r.total =>
             r.filled + Share(r, x) + (IF Intact(r, x) THEN 0 ELSE NextLoad) <= x.off + NextLoad
    BY <1>2, <1>8, Copied DEF Carrying
  <2>2. /\ r2.filled \in Nat /\ Gap(r2) \in Nat
        /\ r2.filled + Gap(r2) <= x.off + NextLoad
    BY <1>8, <2>1, Loads DEF CopiedIn, Gap
  <2>3. x.off \in Nat /\ (f.kind = "CF" => f.off \in Nat)
    BY <1>1, <1>2, <1>8 DEF Genuine
  <2>4. Awaits(D, f, r2)
    BY <1>1, <1>8, <2>1, <2>2, <2>3, AwaitsCopied
  <2> QED
    BY <1>1, <1>3, <1>8, <2>4
<1>9. CASE /\ r2.state = "IDLE"
           /\ \E v, s :
                /\ Adds(u, v) /\ u2 = Append(v, s)
                /\ \/ x.kind = "SF" /\ IsMessage(s, x.msg, x.n, TRUE)
                   \/ /\ x.kind = "CF" /\ r.state # "IDLE"
                      /\ r.filled + Share(r, x) >= r.total
                      /\ IsMessage(s, r.acc.msg, r.total, Intact(r, x))
  <2>1. PICK v, s :
                /\ Adds(u, v) /\ u2 = Append(v, s)
                /\ \/ x.kind = "SF" /\ IsMessage(s, x.msg, x.n, TRUE)
                   \/ /\ x.kind = "CF" /\ r.state # "IDLE"
                      /\ r.filled + Share(r, x) >= r.total
                      /\ IsMessage(s, r.acc.msg, r.total, Intact(r, x))
    BY <1>9
  <2>2. UpperOk(lens, n, v, g) /\ \A k : Newer(u, g, k) => Newer(v, g, k)
    BY <2>1, AddsKeeps
  <2>3. ASSUME Opening(f) PROVE Newer(Append(v, s), g, f.msg)
    <3>1. CASE x.kind = "SF" /\ IsMessage(s, x.msg, x.n, TRUE)
      <4>1. x.msg \in 1 .. n /\ Newer(v, g, x.msg) /\ x.n = lens[x.msg]
        BY <2>2, <3>1 DEF Fits, Carrying, Opening, Genuine
      <4>2. x.msg < f.msg
        BY <1>4, <2>3, <3>1 DEF Before, Carrying, Opening
      <4>3. IsMessage(s, x.msg, lens[x.msg], TRUE)
        BY <3>1, <4>1
      <4>4. f.msg \in Nat /\ Newer(v, g, f.msg)
        BY <1>1, <2>2, <2>3
      <4>5. \A j : j \in Nat /\ x.msg < j /\ Newer(v, g, j) => Newer(Append(v, s), g, j)
        BY <2>2, <4>1, <4>3, HandedUp
      <4> QED
        BY <4>2, <4>4, <4>5
    <3>2. CASE /\ x.kind = "CF" /\ r.state # "IDLE"
               /\ r.filled + Share(r, x) >= r.total
               /\ IsMessage(s, r.acc.msg, r.total, Intact(r, x))
      <4>1. r.acc.msg \in 1 .. n /\ Newer(v, g, r.acc.msg) /\ r.total = lens[r.acc.msg]
        BY <2>2, <3>2 DEF ReceiverOk
      <4>2. Intact(r, x) \in BOOLEAN /\ Intact(r, x)
        BY <1>2, <3>2, Copied DEF Carrying
      <4>3. IsMessage(s, r.acc.msg, lens[r.acc.msg], TRUE)
        BY <3>2, <4>1, <4>2
      <4>4. f.msg \in Nat /\ Newer(v, g, f.msg) /\ r.acc.msg < f.msg
        BY <1>1, <2>2, <2>3, <3>2 DEF Awaits
      <4>5. \A j : j \in Nat /\ r.acc.msg < j /\ Newer(v, g, j) => Newer(Append(v, s), g, j)
        BY <2>2, <4>1, <4>3, HandedUp
      <4> QED
        BY <4>4, <4>5
    <3> QED
      BY <2>1, <3>1, <3>2
  <2> QED
    BY <1>3, <1>9, <2>1, <2>3 DEF Awaits
<1> QED
  BY <1>5, <1>6, <1>7, <1>8, <1>9 DEF Receives

(* One direction.                                                          *)
Dir(lens, n, t, q, w, r, u, g) ==
  /\ SenderOk(lens, n, t, q) /\ ReceiverOk(lens, n, r, u, g)
  /\ WireOk(lens, n, t, w, r, u, g) /\ UpperOk(lens, n, u, g)

LEMMA Lengths ==
  ASSUME NEW lens, NEW n, NEW t, NEW q, SenderOk(lens, n, t, q)
  PROVE  n \in Nat /\ \A k \in 1 .. n : lens[k] \in Nat \ {0}
<1>1. lens \in Seq(Nat \ {0}) /\ n \in 0 .. Len(lens)
  BY DEF SenderOk
<1> QED
  BY <1>1

(* The receiver takes the frame in front.                                  *)
LEMMA DirTakes ==
  ASSUME NEW lens, NEW n, NEW t, NEW q, NEW w, NEW r, NEW u, NEW g,
         Dir(lens, n, t, q, w, r, u, g), NEW M, w \in Seq(M), w # <<>>,
         NEW r2, NEW u2, Receives(Head(w), r, u, r2, u2)
  PROVE  Dir(lens, n, t, q, Tail(w), r2, u2, g)
<1> DEFINE v == Tail(w)
           x == Head(w)
<1>1. /\ SenderOk(lens, n, t, q) /\ ReceiverOk(lens, n, r, u, g)
      /\ WireOk(lens, n, t, w, r, u, g) /\ UpperOk(lens, n, u, g)
  BY DEF Dir
<1>2. n \in Nat /\ \A k \in 1 .. n : lens[k] \in Nat
  BY <1>1, Lengths
<1>3. /\ Len(w) \in Nat \ {0} /\ Len(v) \in Nat /\ Len(w) = Len(v) + 1 /\ x = w[1]
      /\ \A p \in 1 .. Len(v) : v[p] = w[p + 1]
  BY DEF v, x
<1> HIDE DEF v, x
<1>4. ASSUME NEW p \in 1 .. Len(v) + 1
      PROVE  /\ p + 1 \in 2 .. Len(w) + 1
             /\ Ahead(w, p + 1) = Ahead(v, p) \cup {x}
  <2>1. \A i \in 1 .. p : w[i] = IF i = 1 THEN x ELSE v[i - 1]
    BY <1>3
  <2>2. {w[i] : i \in 1 .. p} = {v[i] : i \in 1 .. p - 1} \cup {x}
    <3>1. ASSUME NEW i \in 1 .. p PROVE w[i] \in {v[j] : j \in 1 .. p - 1} \cup {x}
      <4>1. CASE i = 1
        BY <2>1, <4>1
      <4>2. CASE i # 1
        <5>1. i - 1 \in 1 .. p - 1 /\ w[i] = v[i - 1]
          BY <2>1, <4>2
        <5> QED
          BY <5>1
      <4> QED
        BY <4>1, <4>2
    <3>2. x \in {w[i] : i \in 1 .. p}
      BY <2>1
    <3>3. ASSUME NEW j \in 1 .. p - 1 PROVE v[j] \in {w[i] : i \in 1 .. p}
      <4>1. j + 1 \in 1 .. p /\ w[j + 1] = v[j]
        BY <2>1
      <4> QED
        BY <4>1
    <3> QED
      BY <3>1, <3>2, <3>3
  <2>3. (p + 1) - 1 = p
    OBVIOUS
  <2> QED
    <3>1. Ahead(w, p + 1) = {w[i] : i \in 1 .. (p + 1) - 1} /\ Ahead(v, p) = {v[i] : i \in 1 .. p - 1}
      BY DEF Ahead
    <3>2. Ahead(w, p + 1) = {w[i] : i \in 1 .. p}
      BY ONLY <2>3, <3>1
    <3>3. p + 1 \in 2 .. Len(w) + 1
      BY <1>3
    <3> QED
      BY ONLY <2>2, <3>1, <3>2, <3>3
<1>5. Fits(lens, n, {}, x, r, u, g)
  <2>1. Ahead(w, 1) = {}
    BY DEF Ahead
  <2> QED
    <3>1. 1 \in 1 .. Len(w)
      BY <1>3
    <3>2. Fits(lens, n, Ahead(w, 1), w[1], r, u, g)
      BY <1>1, <3>1 DEF WireOk
    <3> QED
      BY <1>3, <2>1, <3>2
<1>6. ASSUME NEW p \in 1 .. Len(v) + 1, NEW d \in Ahead(v, p), Carrying(d)
      PROVE  d.msg \in Nat /\ (Carrying(x) => Before(x, d))
  <2>1. PICK i \in 1 .. p - 1 : d = v[i]
    BY <1>6 DEF Ahead
  <2>2. i \in 1 .. Len(v) /\ i + 1 \in 1 .. Len(w) /\ d = w[i + 1]
    BY <1>3, <2>1
  <2>3. Fits(lens, n, Ahead(w, i + 1), d, r, u, g)
    BY <1>1, <2>2 DEF WireOk
  <2>4. x \in Ahead(w, i + 1)
    BY <1>4, <2>2
  <2> QED
    BY <1>2, <1>6, <2>3, <2>4 DEF Fits, InOrder
<1>7. Receives(x, r, u, r2, u2)
  BY DEF x
<1>8. ASSUME NEW p \in 1 .. Len(v) + 1, NEW f, Fits(lens, n, Ahead(w, p + 1), f, r, u, g)
      PROVE  Fits(lens, n, Ahead(v, p), f, r2, u2, g)
  <2>1. \A d \in Ahead(v, p) : Carrying(d) => d.msg \in Nat /\ (Carrying(x) => Before(x, d))
    BY <1>6
  <2> QED
    <3>1. Ahead(w, p + 1) = Ahead(v, p) \cup {x}
      BY <1>4
    <3>2. \A D, E : E = D \cup {x} /\ Fits(lens, n, E, f, r, u, g)
                      /\ (\A d \in D : Carrying(d) => d.msg \in Nat /\ (Carrying(x) => Before(x, d)))
                    => Fits(lens, n, D, f, r2, u2, g)
      BY <1>1, <1>2, <1>5, <1>7, BehindTaken
    <3> QED
      BY ONLY <1>8, <2>1, <3>1, <3>2
<1>9. ReceiverOk(lens, n, r2, u2, g) /\ UpperOk(lens, n, u2, g)
  BY <1>1, <1>2, <1>5, <1>7, ReceiverTakes
<1>10. WireOk(lens, n, t, v, r2, u2, g)
  <2>1. ASSUME NEW p \in 1 .. Len(v) PROVE Fits(lens, n, Ahead(v, p), v[p], r2, u2, g)
    <3>1. p + 1 \in 1 .. Len(w) /\ v[p] = w[p + 1] /\ p \in 1 .. Len(v) + 1
      BY <1>3
    <3>2. Fits(lens, n, Ahead(w, p + 1), v[p], r, u, g)
      BY <1>1, <3>1 DEF WireOk
    <3> QED
      BY <1>8, <3>1, <3>2
  <2>2. ASSUME Held(t), NEW f, IsDue(f, t)
        PROVE  Fits(lens, n, Ahead(v, Len(v) + 1), f, r2, u2, g)
    <3>1. Fits(lens, n, Ahead(w, Len(v) + 1 + 1), f, r, u, g)
      BY <1>1, <1>3, <2>2 DEF WireOk
    <3>2. Len(v) + 1 \in 1 .. Len(v) + 1
      BY <1>3
    <3> QED
      BY <1>8, <3>1, <3>2
  <2> QED
    BY <2>1, <2>2 DEF WireOk
<1> QED
  BY <1>1, <1>9, <1>10 DEF Dir, v

(* It takes none, or the upper layer takes something of its.               *)
LEMMA DirRests ==
  ASSUME NEW lens, NEW n, NEW t, NEW q, NEW w, NEW r, NEW u, NEW g,
         Dir(lens, n, t, q, w, r, u, g),
         NEW r2, NEW u2, r2.state = "IDLE" \/ Stays(r, r2), Adds(u, u2)
  PROVE  Dir(lens, n, t, q, w, r2, u2, g)
<1>1. /\ SenderOk(lens, n, t, q) /\ ReceiverOk(lens, n, r, u, g)
      /\ WireOk(lens, n, t, w, r, u, g) /\ UpperOk(lens, n, u, g)
  BY DEF Dir
<1>2. UpperOk(lens, n, u2, g) /\ \A k : Newer(u, g, k) => Newer(u2, g, k)
  BY <1>1, AddsKeeps
<1>3. ASSUME r2.state # "IDLE"
      PROVE  /\ r.state # "IDLE" /\ r2.acc = r.acc
             /\ r2.filled = r.filled /\ r2.total = r.total
  BY <1>3 DEF Stays
<1>4. ReceiverOk(lens, n, r2, u2, g)
  BY <1>1, <1>2, <1>3 DEF ReceiverOk
<1>5. ASSUME NEW E, NEW f, Awaits(E, f, r) PROVE Awaits(E, f, r2)
  BY <1>3, <1>5 DEF Awaits, Gap
<1>6. \A E, f : Fits(lens, n, E, f, r, u, g) => Fits(lens, n, E, f, r2, u2, g)
  BY <1>2, <1>5 DEF Fits
<1>7. WireOk(lens, n, t, w, r2, u2, g)
  BY <1>1, <1>6 DEF WireOk
<1> QED
  BY <1>1, <1>2, <1>4, <1>7 DEF Dir

(* A frame that opens no segmented message is lost on its way.             *)
LEMMA DirLoses ==
  ASSUME NEW lens, NEW n, NEW t, NEW q, NEW r, NEW u, NEW g,
         NEW M, NEW i \in Seq(M), NEW o \in Seq(M), o # <<>>, Head(o).kind # "FF",
         Dir(lens, n, t, q, i \o o, r, u, g)
  PROVE  Dir(lens, n, t, q, i \o Tail(o), r, u, g)
<1> DEFINE w == i \o o
           v == i \o Tail(o)
           x == Head(o)
           k == Len(i)
<1>1. /\ SenderOk(lens, n, t, q) /\ ReceiverOk(lens, n, r, u, g)
      /\ WireOk(lens, n, t, w, r, u, g) /\ UpperOk(lens, n, u, g)
  BY DEF Dir
<1>2. /\ k \in Nat /\ Len(v) \in Nat /\ Len(w) = Len(v) + 1 /\ k \in 0 .. Len(v)
      /\ w[k + 1] = x
      /\ \A p \in 1 .. k : v[p] = w[p]
      /\ \A p \in k + 1 .. Len(v) : v[p] = w[p + 1]
  <2>1. /\ Len(o) \in Nat \ {0} /\ Tail(o) \in Seq(M) /\ Len(Tail(o)) = Len(o) - 1 /\ x = o[1]
        /\ \A p \in 1 .. Len(o) - 1 : Tail(o)[p] = o[p + 1]
    OBVIOUS
  <2>2. /\ k \in Nat /\ Len(w) = k + Len(o) /\ Len(v) = k + Len(o) - 1
        /\ \A p \in 1 .. k : v[p] = i[p] /\ w[p] = i[p]
    BY <2>1
  <2>3. \A p \in k + 1 .. k + Len(o) : w[p] = o[p - k]
    BY <2>1
  <2>4. \A p \in k + 1 .. k + Len(o) - 1 : v[p] = Tail(o)[p - k]
    BY <2>1
  <2> HIDE DEF w, v, x, k
  <2>5. ASSUME NEW p \in k + 1 .. Len(v) PROVE v[p] = w[p + 1]
    <3>1. p - k \in 1 .. Len(o) - 1 /\ p + 1 \in k + 1 .. k + Len(o) /\ (p + 1) - k = (p - k) + 1
      BY <2>1, <2>2
    <3>2. v[p] = Tail(o)[p - k] /\ Tail(o)[p - k] = o[(p - k) + 1]
      BY <2>1, <2>2, <2>4, <3>1
    <3>3. w[p + 1] = o[(p + 1) - k]
      BY <2>3, <3>1
    <3> QED
      BY <3>1, <3>2, <3>3
  <2>6. w[k + 1] = x
    <3>1. k + 1 \in k + 1 .. k + Len(o) /\ (k + 1) - k = 1
      BY <2>1, <2>2
    <3>2. w[k + 1] = o[(k + 1) - k]
      BY <2>3, <3>1
    <3> QED
      BY <2>1, <3>1, <3>2
  <2>7. k \in 0 .. Len(v) /\ Len(v) \in Nat /\ Len(w) = Len(v) + 1
    BY <2>1, <2>2
  <2> QED
    BY <2>2, <2>5, <2>6, <2>7
<1>3. x.kind # "FF"
  OBVIOUS
<1> HIDE DEF w, v, x, k
(* Every frame kept has the same ahead of it, or all but the lost one.     *)
<1>4. ASSUME NEW p \in 1 .. k + 1 PROVE Ahead(v, p) = Ahead(w, p)
  <2>1. \A j \in 1 .. p - 1 : v[j] = w[j]
    BY <1>2
  <2> QED
    BY <2>1 DEF Ahead
<1>5. ASSUME NEW p \in k + 1 .. Len(v) + 1
      PROVE  Ahead(v, p) \subseteq Ahead(w, p + 1) /\ Ahead(w, p + 1) \subseteq Ahead(v, p) \cup {x}
  <2>1. ASSUME NEW j \in 1 .. p - 1 PROVE v[j] \in Ahead(w, p + 1)
    <3>1. \E h \in 1 .. (p + 1) - 1 : v[j] = w[h]
      <4>1. CASE j <= k
        BY <1>2, <4>1
      <4>2. CASE j > k
        BY <1>2, <4>2
      <4> QED
        BY <1>2, <4>1, <4>2
    <3> QED
      BY <3>1 DEF Ahead
  <2>2. ASSUME NEW j \in 1 .. (p + 1) - 1 PROVE w[j] \in Ahead(v, p) \cup {x}
    <3>1. CASE j = k + 1
      BY <1>2, <3>1
    <3>2. ASSUME j # k + 1 PROVE \E h \in 1 .. p - 1 : w[j] = v[h]
      <4>1. CASE j <= k
        BY <1>2, <4>1
      <4>2. CASE j > k
        <5>1. j - 1 \in k + 1 .. Len(v) /\ j - 1 \in 1 .. p - 1 /\ (j - 1) + 1 = j
          BY <1>2, <3>2, <4>2
        <5>2. v[j - 1] = w[(j - 1) + 1]
          BY <1>2, <5>1
        <5> QED
          BY <5>1, <5>2
      <4> QED
        BY <1>2, <4>1, <4>2
    <3> QED
      BY <3>1, <3>2 DEF Ahead
  <2> QED
    BY <2>1, <2>2 DEF Ahead
<1>6. ASSUME NEW p \in k + 1 .. Len(v) + 1, NEW f, Fits(lens, n, Ahead(w, p + 1), f, r, u, g)
      PROVE  Fits(lens, n, Ahead(v, p), f, r, u, g)
  <2>1. \A D, E : D \subseteq E /\ E \subseteq D \cup {x} /\ Fits(lens, n, E, f, r, u, g)
                  => Fits(lens, n, D, f, r, u, g)
    BY <1>3, OrderWithout, AwaitsWithout DEF Fits
  <2> QED
    BY <1>5, <1>6, <2>1
<1>7. ASSUME NEW p \in 1 .. Len(v) PROVE Fits(lens, n, Ahead(v, p), v[p], r, u, g)
  <2>1. CASE p <= k
    <3>1. p \in 1 .. Len(w) /\ p \in 1 .. k + 1 /\ v[p] = w[p]
      BY <1>2, <2>1
    <3> QED
      BY <1>1, <1>4, <3>1 DEF WireOk
  <2>2. CASE p > k
    <3>1. p + 1 \in 1 .. Len(w) /\ p \in k + 1 .. Len(v) + 1 /\ v[p] = w[p + 1]
      BY <1>2, <2>2
    <3>2. Fits(lens, n, Ahead(w, p + 1), v[p], r, u, g)
      BY <1>1, <3>1 DEF WireOk
    <3> QED
      BY <1>6, <3>1, <3>2
  <2> QED
    BY <1>2, <2>1, <2>2
<1>8. ASSUME Held(t), NEW f, IsDue(f, t)
      PROVE  Fits(lens, n, Ahead(v, Len(v) + 1), f, r, u, g)
  <2>1. Fits(lens, n, Ahead(w, (Len(v) + 1) + 1), f, r, u, g)
    BY <1>1, <1>2, <1>8 DEF WireOk
  <2>2. Len(v) + 1 \in k + 1 .. Len(v) + 1
    BY <1>2
  <2> QED
    BY <1>6, <2>1, <2>2
<1>9. WireOk(lens, n, t, v, r, u, g)
  BY <1>7, <1>8 DEF WireOk
<1> QED
  BY <1>1, <1>9 DEF Dir, v

(* The sender fetches the next request: no message is as young.            *)
LEMMA DirFetches ==
  ASSUME NEW lens, NEW n, NEW t, NEW q, NEW w, NEW r, NEW u, NEW g,
         Dir(lens, n, t, q, w, r, u, g), NEW N, w \in Seq(N),
         NEW t1, NEW q1, Fetches(t, q, t1, q1)
  PROVE  Dir(lens, n + Len(q) - Len(q1), t1, q1, w, r, u, g)
<1>1. /\ SenderOk(lens, n, t, q) /\ ReceiverOk(lens, n, r, u, g)
      /\ WireOk(lens, n, t, w, r, u, g) /\ UpperOk(lens, n, u, g)
  BY DEF Dir
<1>2. n \in Nat /\ \A k \in 1 .. n : lens[k] \in Nat \ {0}
  BY <1>1, Lengths
<1>3. PICK M : q \in Seq(M)
  BY <1>1 DEF SenderOk
<1>4. CASE t1 = t /\ q1 = q
  <2>1. n + Len(q) - Len(q1) = n
    BY <1>2, <1>3, <1>4
  <2> QED
    BY <1>4, <2>1
<1>5. CASE /\ ~Held(t) /\ q # <<>> /\ q1 = Tail(q)
           /\ Held(t1) /\ t1.sdu = Head(q) /\ t1.sent = 0
  <2>1. /\ Len(q) \in Nat \ {0} /\ q1 \in Seq(M) /\ Len(q1) = Len(q) - 1 /\ Head(q) = q[1]
        /\ \A x \in DOMAIN q1 : x \in Nat /\ x + 1 \in DOMAIN q /\ q1[x] = q[x + 1]
        /\ 1 \in DOMAIN q
    BY <1>3, <1>5
  <2>2. n + Len(q) - Len(q1) = n + 1
    BY <1>2, <2>1
  <2>3. /\ lens \in Seq(Nat \ {0}) /\ n + Len(q) <= Len(lens)
        /\ \A x \in DOMAIN q : q[x] = Asked(lens, n + x)
    BY <1>1 DEF SenderOk
  <2>4. t1.sdu = Asked(lens, n + 1)
    BY <1>5, <2>1, <2>3
  <2>5. SenderOk(lens, n + 1, t1, q1)
    <3>1. n + 1 \in 0 .. Len(lens) /\ n + 1 + Len(q1) <= Len(lens)
      BY <1>2, <2>1, <2>3
    <3>2. \A x \in DOMAIN q1 : q1[x] = Asked(lens, n + 1 + x)
      <4>1. ASSUME NEW x \in DOMAIN q1 PROVE n + (x + 1) = n + 1 + x
        BY <1>2, <2>1
      <4> QED
        BY <2>1, <2>3, <4>1
    <3> QED
      BY <1>2, <1>5, <2>1, <2>3, <2>4, <3>1, <3>2 DEF SenderOk
  <2>6. ReceiverOk(lens, n + 1, r, u, g)
    BY <1>1, <1>2 DEF ReceiverOk
  <2>7. UpperOk(lens, n + 1, u, g)
    BY <1>1, <1>2 DEF UpperOk
  <2>8. ASSUME NEW E, NEW f, Fits(lens, n, E, f, r, u, g) PROVE Fits(lens, n + 1, E, f, r, u, g)
    BY <1>2, <2>8 DEF Fits
  <2>9. ASSUME NEW f, IsDue(f, t1)
        PROVE  Fits(lens, n + 1, Ahead(w, Len(w) + 1), f, r, u, g)
    <3>1. /\ f.kind \in {"SF", "FF"} /\ f.msg = n + 1 /\ f.addr = "phys"
          /\ f.kind = "SF" => f.n = lens[n + 1]
          /\ f.kind = "FF" => /\ f.total = lens[n + 1] /\ f.ok
                              /\ f.n = FirstLoad(f.total) /\ f.n < f.total
      BY <1>5, <2>4, <2>9 DEF IsDue, IsFirst, Asked
    <3>2. Genuine(lens, f)
      BY <3>1 DEF Genuine
    <3>3. InOrder(Ahead(w, Len(w) + 1), f)
      <4>1. ASSUME NEW e \in Ahead(w, Len(w) + 1), Carrying(e) PROVE Before(e, f)
        <5>1. PICK i \in 1 .. (Len(w) + 1) - 1 : e = w[i]
          BY DEF Ahead
        <5>2. i \in 1 .. Len(w)
          BY <5>1
        <5>3. Fits(lens, n, Ahead(w, i), e, r, u, g)
          BY <1>1, <5>1, <5>2 DEF WireOk
        <5> QED
          BY <1>2, <3>1, <4>1, <5>3 DEF Fits, Before
      <4> QED
        BY <3>1, <4>1 DEF InOrder
    <3>4. Awaits(Ahead(w, Len(w) + 1), f, r)
      BY <1>1, <1>2, <3>1 DEF Awaits, ReceiverOk
    <3>5. Newer(u, g, f.msg)
      BY <1>1, <1>2, <3>1 DEF Newer, UpperOk, Latest
    <3> QED
      BY <1>2, <3>1, <3>2, <3>3, <3>4, <3>5 DEF Fits
  <2>10. WireOk(lens, n + 1, t1, w, r, u, g)
    BY <1>1, <2>8, <2>9 DEF WireOk
  <2> QED
    BY <2>2, <2>5, <2>6, <2>7, <2>10 DEF Dir
<1> QED
  BY <1>4, <1>5 DEF Fetches

(* A frame is put behind the others, with or without a further one due.    *)
LEMMA WireGrows ==
  ASSUME NEW lens, NEW n, NEW t, NEW w, NEW r, NEW u, NEW g, NEW N, w \in Seq(N),
         WireOk(lens, n, t, w, r, u, g),
         NEW e, Fits(lens, n, Ahead(w, Len(w) + 1), e, r, u, g),
         NEW t2,
         Held(t2) => \A f : IsDue(f, t2)
                        => Fits(lens, n, Ahead(w, Len(w) + 1) \cup {e}, f, r, u, g)
  PROVE  WireOk(lens, n, t2, Append(w, e), r, u, g)
<1> DEFINE v == Append(w, e)
<1>1. /\ Len(w) \in Nat /\ Len(v) = Len(w) + 1 /\ v[Len(w) + 1] = e
      /\ \A p \in 1 .. Len(w) : v[p] = w[p]
  OBVIOUS
<1> HIDE DEF v
<1>2. \A p \in 1 .. Len(w) + 1 : Ahead(v, p) = Ahead(w, p)
  <2>1. ASSUME NEW p \in 1 .. Len(w) + 1 PROVE \A j \in 1 .. p - 1 : v[j] = w[j]
    BY <1>1
  <2> QED
    BY <2>1 DEF Ahead
<1>3. Ahead(v, Len(v) + 1) = Ahead(w, Len(w) + 1) \cup {e}
  <2>1. ASSUME NEW j \in 1 .. (Len(v) + 1) - 1 PROVE v[j] \in Ahead(w, Len(w) + 1) \cup {e}
    <3>1. CASE j = Len(w) + 1
      BY <1>1, <3>1
    <3>2. ASSUME j # Len(w) + 1 PROVE \E h \in 1 .. (Len(w) + 1) - 1 : v[j] = w[h]
      BY <1>1, <3>2
    <3> QED
      BY <3>1, <3>2 DEF Ahead
  <2>2. ASSUME NEW j \in 1 .. (Len(w) + 1) - 1 PROVE w[j] \in Ahead(v, Len(v) + 1)
    <3>1. \E h \in 1 .. (Len(v) + 1) - 1 : w[j] = v[h]
      BY <1>1
    <3> QED
      BY <3>1 DEF Ahead
  <2>3. e \in Ahead(v, Len(v) + 1)
    <3>1. \E h \in 1 .. (Len(v) + 1) - 1 : e = v[h]
      BY <1>1
    <3> QED
      BY <3>1 DEF Ahead
  <2> QED
    BY <2>1, <2>2, <2>3 DEF Ahead
<1>4. ASSUME NEW p \in 1 .. Len(v) PROVE Fits(lens, n, Ahead(v, p), v[p], r, u, g)
  <2>1. CASE p \in 1 .. Len(w)
    <3>1. p \in 1 .. Len(w) + 1
      BY <1>1, <2>1
    <3> QED
      BY <1>1, <1>2, <2>1, <3>1 DEF WireOk
  <2>2. CASE p = Len(w) + 1
    <3>1. p \in 1 .. Len(w) + 1
      BY <1>1, <2>2
    <3> QED
      BY <1>1, <1>2, <2>2, <3>1
  <2> QED
    BY <1>1, <2>1, <2>2
<1> QED
  BY <1>3, <1>4 DEF WireOk, v

(* The sender goes on, perhaps with a flow control for the other direction.*)
LEMMA DirGoesOn ==
  ASSUME NEW lens, NEW n, NEW t, NEW q, NEW w, NEW r, NEW u, NEW g,
         Dir(lens, n, t, q, w, r, u, g), NEW N, w \in Seq(N), NEW t2, GoesOn(t, t2)
  PROVE  /\ Dir(lens, n, t2, q, w, r, u, g)
         /\ \A c : c.kind = "FC" => Dir(lens, n, t2, q, Append(w, c), r, u, g)
<1>1. /\ SenderOk(lens, n, t, q) /\ ReceiverOk(lens, n, r, u, g)
      /\ WireOk(lens, n, t, w, r, u, g) /\ UpperOk(lens, n, u, g)
  BY DEF Dir
<1>2. SenderOk(lens, n, t2, q)
  BY <1>1 DEF SenderOk, GoesOn
<1>3. Held(t2) => Held(t) /\ \A f : IsDue(f, t2) => IsDue(f, t)
  BY DEF GoesOn, IsDue, IsFirst, IsNext
<1>4. WireOk(lens, n, t2, w, r, u, g)
  BY <1>1, <1>3 DEF WireOk
<1>5. ASSUME NEW c, c.kind = "FC" PROVE WireOk(lens, n, t2, Append(w, c), r, u, g)
  <2>1. \A E : Fits(lens, n, E, c, r, u, g)
    BY <1>5 DEF Fits, Genuine, Carrying
  <2>2. ASSUME NEW E, NEW f, Fits(lens, n, E, f, r, u, g) PROVE Fits(lens, n, E \cup {c}, f, r, u, g)
    <3>1. ~Carrying(c) /\ ~Opening(c) /\ c.kind # "FF"
      BY <1>5 DEF Carrying, Opening
    <3>2. InOrder(E, f) => InOrder(E \cup {c}, f)
      BY <3>1 DEF InOrder
    <3>3. Awaits(E, f, r) => Awaits(E \cup {c}, f, r)
      BY DEF Awaits
    <3> QED
      BY <2>2, <3>2, <3>3 DEF Fits
  <2>3. Held(t2) => \A f : IsDue(f, t2) => Fits(lens, n, Ahead(w, Len(w) + 1), f, r, u, g)
    BY <1>4 DEF WireOk
  <2> QED
    BY <1>4, <2>1, <2>2, <2>3, WireGrows
<1> QED
  BY <1>1, <1>2, <1>4, <1>5 DEF Dir

(* The sender emits the frame that is due; the next follows it.            *)
LEMMA DueNext ==
  ASSUME NEW lens, NEW n \in Nat, NEW t, NEW t2, NEW e, Emits(t, e, t2), Held(t2),
         lens[n] \in Nat, t.sdu = Asked(lens, n), t.sent \in Nat,
         t.sent # 0 => Aligned(lens[n], t.sent)
  PROVE  /\ e.msg = n /\ t2.sdu = Asked(lens, n)
         /\ t2.sent \in Nat /\ t2.sent # 0 /\ t2.sent < lens[n] /\ Aligned(lens[n], t2.sent)
         /\ e.kind = "FF" \/ (e.kind = "CF" /\ e.off \in Nat /\ t2.sent = e.off + NextLoad)
<1>1. IsDue(e, t) /\ t2.sdu = t.sdu /\ t.sdu.msg = n /\ t.sdu.len = lens[n]
  BY DEF Emits, Asked
<1>2. CASE e.kind = "FF" /\ t2.sent = e.n
  <2>1. /\ e.msg = n /\ e.total = lens[n] /\ e.n = FirstLoad(e.total) /\ e.n < e.total
    BY <1>1, <1>2 DEF IsDue, IsFirst, IsNext
  <2>2. FirstLoad(lens[n]) \in 2 .. 62
    BY Loads
  <2> QED
    BY <1>1, <1>2, <2>1, <2>2, AlignedFirst
<1>3. CASE e.kind = "CF" /\ t2.sent = t.sent + NextLoad /\ t2.sent < t.sdu.len
  <2>1. t.sent # 0 /\ e.msg = n /\ e.off = t.sent
    BY <1>1, <1>3 DEF IsDue, IsFirst, IsNext
  <2> QED
    BY <1>1, <1>3, <2>1, AlignedNext, Loads
<1> QED
  BY <1>2, <1>3 DEF Emits

LEMMA DirEmits ==
  ASSUME NEW lens, NEW n, NEW t, NEW q, NEW w, NEW r, NEW u, NEW g,
         Dir(lens, n, t, q, w, r, u, g), NEW N, w \in Seq(N),
         NEW e, NEW t2, Emits(t, e, t2)
  PROVE  Dir(lens, n, t2, q, Append(w, e), r, u, g)
<1>1. /\ SenderOk(lens, n, t, q) /\ ReceiverOk(lens, n, r, u, g)
      /\ WireOk(lens, n, t, w, r, u, g) /\ UpperOk(lens, n, u, g)
  BY DEF Dir
<1>2. n \in Nat /\ \A k \in 1 .. n : lens[k] \in Nat \ {0}
  BY <1>1, Lengths
<1>3. Held(t) /\ IsDue(e, t)
  BY DEF Emits
<1>4. n >= 1 /\ t.sdu = Asked(lens, n) /\ (t.sent # 0 => t.sent \in Nat /\ Aligned(lens[n], t.sent))
  BY <1>1, <1>3 DEF SenderOk
<1>5. lens[n] \in Nat /\ t.sent \in Nat
  BY <1>2, <1>4
<1>6. Fits(lens, n, Ahead(w, Len(w) + 1), e, r, u, g)
  BY <1>1, <1>3 DEF WireOk
<1>7. ASSUME Held(t2)
      PROVE  /\ e.msg = n /\ t2.sdu = Asked(lens, n)
             /\ t2.sent \in Nat /\ t2.sent # 0 /\ t2.sent < lens[n] /\ Aligned(lens[n], t2.sent)
             /\ e.kind = "FF" \/ (e.kind = "CF" /\ e.off \in Nat /\ t2.sent = e.off + NextLoad)
  BY <1>2, <1>4, <1>5, <1>7, DueNext
<1>8. SenderOk(lens, n, t2, q)
  BY <1>1, <1>4, <1>7 DEF SenderOk
<1>9. ASSUME Held(t2), NEW f, IsDue(f, t2)
      PROVE  Fits(lens, n, Ahead(w, Len(w) + 1) \cup {e}, f, r, u, g)
  <2> DEFINE E == Ahead(w, Len(w) + 1)
  <2> HIDE DEF E
  <2>1. /\ f.kind = "CF" /\ f.msg = n /\ f.off = t2.sent /\ f.n \in 1 .. NextLoad
        /\ f.off + f.n < lens[n] => f.n = NextLoad
    BY <1>7, <1>9 DEF IsDue, IsNext, Asked
  <2>2. Genuine(lens, f)
    BY <1>7, <1>9, <2>1 DEF Genuine
  <2>3. e.kind = "FF" \/ (e.kind = "CF" /\ e.off \in Nat /\ f.off = e.off + NextLoad)
    BY <1>7, <1>9, <2>1
  <2>4. /\ Genuine(lens, e) /\ e.msg \in 1 .. n /\ e.msg = n /\ InOrder(E, e) /\ Awaits(E, e, r)
    BY <1>6, <1>7, <1>9, <2>3 DEF Fits, Carrying, E
  <2>5. Before(e, f)
    BY <1>2, <1>7, <1>9, <2>1, <2>3, <2>4, Loads DEF Before
  <2>6. ASSUME NEW d \in E, Carrying(d), d.msg \in Nat, d.kind = "CF" => d.off \in Nat PROVE Before(d, f)
    <3>1. Before(d, e)
      BY <2>4, <2>6 DEF InOrder
    <3> QED
      BY <1>2, <2>1, <2>3, <2>4, <2>6, <3>1, Loads DEF Before
  <2>7. ASSUME NEW d \in E, Carrying(d) PROVE d.msg \in Nat /\ (d.kind = "CF" => d.off \in Nat)
    <3>1. PICK i \in 1 .. (Len(w) + 1) - 1 : d = w[i]
      BY <2>7 DEF E, Ahead
    <3>2. i \in 1 .. Len(w)
      BY <3>1
    <3>3. Fits(lens, n, Ahead(w, i), d, r, u, g)
      BY <1>1, <3>1, <3>2 DEF WireOk
    <3> QED
      BY <1>2, <2>7, <3>3 DEF Fits, Genuine
  <2>8. InOrder(E \cup {e}, f)
    <3>1. \A d \in E \cup {e} : Carrying(d) => Before(d, f)
      BY <2>5, <2>6, <2>7
    <3>2. \/ \E d \in E \cup {e} : d.kind = "FF" /\ d.msg = f.msg
          \/ \A d \in E \cup {e} : ~Opening(d)
      <4>1. CASE e.kind = "FF"
        BY <2>1, <2>4, <4>1
      <4>2. CASE e.kind = "CF"
        BY <2>1, <2>4, <4>2 DEF InOrder, Opening
      <4> QED
        BY <2>3, <4>1, <4>2
    <3> QED
      BY <3>1, <3>2 DEF InOrder
  <2>9. Awaits(E \cup {e}, f, r)
    <3>1. CASE e.kind = "FF"
      BY <1>1, <1>2, <2>1, <2>4, <3>1 DEF Awaits, Opening, ReceiverOk
    <3>2. ASSUME e.kind = "CF", r.state # "IDLE"
          PROVE  /\ r.acc.msg <= f.msg
                 /\ f.msg = r.acc.msg => r.filled + Gap(r) <= f.off
                 /\ f.msg # r.acc.msg => \E d \in E : Opening(d)
      <4>1. r.filled + Gap(r) \in Nat
        BY <1>1, <3>2, Loads DEF ReceiverOk, Gap
      <4>2. /\ r.acc.msg <= e.msg /\ (e.msg = r.acc.msg => r.filled + Gap(r) <= e.off)
            /\ (e.msg # r.acc.msg => \E d \in E : Opening(d))
        BY <2>4, <3>2 DEF Awaits
      <4>3. e.off \in Nat /\ f.off = e.off + NextLoad
        BY <2>3, <3>2
      <4> QED
        BY <2>1, <2>4, <4>1, <4>2, <4>3, Loads
    <3> QED
      BY <2>1, <2>3, <3>1, <3>2 DEF Awaits, Opening
  <2> QED
    BY <1>2, <2>1, <2>2, <2>4, <2>8, <2>9 DEF Fits, Opening, E
<1>10. WireOk(lens, n, t2, Append(w, e), r, u, g)
  BY <1>1, <1>6, <1>9, WireGrows
<1> QED
  BY <1>1, <1>8, <1>10 DEF Dir

(* What a sender's step does to its direction.                             *)
LEMMA DirSends ==
  ASSUME NEW lens, NEW n, NEW t, NEW q, NEW r, NEW u, NEW g,
         NEW N, NEW i \in Seq(N), NEW o \in Seq(N),
         Dir(lens, n, t, q, i \o o, r, u, g),
         NEW t2, NEW q2, NEW o2, Sends(t, q, o, t2, q2, o2)
  PROVE  Dir(lens, n + Len(q) - Len(q2), t2, q2, i \o o2, r, u, g)
<1>1. PICK t1 :
        /\ Fetches(t, q, t1, q2)
        /\ \/ GoesOn(t1, t2) /\ (o2 = o \/ \E c : c.kind = "FC" /\ o2 = Append(o, c))
           \/ \E e : Emits(t1, e, t2) /\ o2 = Append(o, e)
  BY DEF Sends
<1>2. i \o o \in Seq(N) /\ \A e : i \o Append(o, e) = Append(i \o o, e)
  <2>1. ASSUME NEW e PROVE i \o Append(o, e) = Append(i \o o, e)
    <3>1. i \in Seq(N \cup {e}) /\ o \in Seq(N \cup {e})
      OBVIOUS
    <3> QED
      BY <3>1
  <2> QED
    BY <2>1
<1> DEFINE w == i \o o
           m == n + Len(q) - Len(q2)
<1>3. Dir(lens, m, t1, q2, w, r, u, g)
  BY <1>1, <1>2, DirFetches
<1>4. w \in Seq(N)
  BY <1>2
<1> HIDE DEF w, m
<1>5. CASE GoesOn(t1, t2) /\ o2 = o
  <2>1. Dir(lens, m, t2, q2, w, r, u, g)
    BY <1>3, <1>4, <1>5, DirGoesOn
  <2> QED
    BY <1>5, <2>1 DEF w, m
<1>6. ASSUME GoesOn(t1, t2), NEW c, c.kind = "FC", o2 = Append(o, c)
      PROVE  Dir(lens, m, t2, q2, i \o o2, r, u, g)
  <2>1. Dir(lens, m, t2, q2, Append(w, c), r, u, g)
    BY <1>3, <1>4, <1>6, DirGoesOn
  <2>2. i \o o2 = Append(w, c)
    BY <1>2, <1>6 DEF w
  <2> QED
    BY <2>1, <2>2
<1>7. ASSUME NEW e, Emits(t1, e, t2), o2 = Append(o, e)
      PROVE  Dir(lens, m, t2, q2, i \o o2, r, u, g)
  <2>1. Dir(lens, m, t2, q2, Append(w, e), r, u, g)
    BY <1>3, <1>4, <1>7, DirEmits
  <2>2. i \o o2 = Append(w, e)
    BY <1>2, <1>7 DEF w
  <2> QED
    BY <2>1, <2>2
<1> QED
  BY <1>1, <1>5, <1>6, <1>7 DEF m

(* The sender's upper layer hands a message over.                          *)
LEMMA DirAsks ==
  ASSUME NEW lens, NEW n, NEW t, NEW q, NEW w, NEW r, NEW u, NEW g,
         Dir(lens, n, t, q, w, r, u, g), n + Len(q) < Len(lens)
  PROVE  LET q2 == Append(q, Asked(lens, n + Len(q) + 1)) IN
         Dir(lens, n, t, q2, w, r, u, g) /\ Len(q2) = Len(q) + 1
<1> DEFINE s == Asked(lens, n + Len(q) + 1)
           q2 == Append(q, s)
<1>1. SenderOk(lens, n, t, q) /\ n \in Nat
  BY Lengths DEF Dir
<1>2. PICK M : q \in Seq(M)
  BY <1>1 DEF SenderOk
<1>3. q \in Seq(M \cup {s})
  BY <1>2
<1>4. /\ q2 \in Seq(M \cup {s}) /\ Len(q2) = Len(q) + 1 /\ Len(q) \in Nat
      /\ \A x \in DOMAIN q2 : (x \in DOMAIN q /\ q2[x] = q[x]) \/ (x = Len(q) + 1 /\ q2[x] = s)
  BY <1>3
<1>5. \A x \in DOMAIN q2 : q2[x] = Asked(lens, n + x)
  <2>1. \A x \in DOMAIN q : q[x] = Asked(lens, n + x)
    BY <1>1 DEF SenderOk
  <2>2. n + Len(q) + 1 = n + (Len(q) + 1)
    BY <1>1, <1>4
  <2> HIDE DEF q2
  <2>3. s = Asked(lens, n + (Len(q) + 1))
    BY <2>2
  <2> HIDE DEF s
  <2> QED
    BY <1>4, <2>1, <2>3
<1> HIDE DEF q2, s
<1>6. SenderOk(lens, n, t, q2)
  <2>1. lens \in Seq(Nat \ {0}) /\ Len(lens) \in Nat
    BY <1>1 DEF SenderOk
  <2>2. n + Len(q2) <= Len(lens)
    BY <1>1, <1>4, <2>1
  <2> QED
    BY <1>1, <1>4, <1>5, <2>2 DEF SenderOk
<1> QED
  BY <1>4, <1>6 DEF Dir, q2, s

(* The receiver's upper layer takes what comes next: a message is whole and*)
(* younger than those it has.                                              *)
Taken(g, s) == IF s.kind = "MSG" THEN Append(g, Message(s)) ELSE g

LEMMA DirGives ==
  ASSUME NEW lens, NEW n, NEW t, NEW q, NEW w, NEW r, NEW u, NEW g,
         Dir(lens, n, t, q, w, r, u, g), u # <<>>
  PROVE  /\ Dir(lens, n, t, q, w, r, Tail(u), Taken(g, Head(u)))
         /\ Head(u).kind = "MSG" =>
              \E k \in Latest(g) + 1 .. n :
                Message(Head(u)) = [msg |-> k, len |-> lens[k], intact |-> TRUE]
<1> DEFINE v == Tail(u)
           s == Head(u)
           h == Taken(g, s)
<1>1. /\ SenderOk(lens, n, t, q) /\ ReceiverOk(lens, n, r, u, g)
      /\ WireOk(lens, n, t, w, r, u, g) /\ UpperOk(lens, n, u, g)
  BY DEF Dir
<1>2. n \in Nat
  BY <1>1, Lengths
<1>3. PICK M : u \in Seq(M)
  BY <1>1 DEF UpperOk
<1>4. PICK G : g \in Seq(G)
  BY <1>1 DEF UpperOk
<1>5. /\ v \in Seq(M) /\ s = u[1] /\ 1 \in DOMAIN u
      /\ \A i \in DOMAIN v : i \in Nat /\ i + 1 \in DOMAIN u /\ 1 < i + 1 /\ v[i] = u[i + 1]
  BY <1>3
<1>6. s.kind = "MSG" => /\ s.msg \in 1 .. n /\ Latest(g) < s.msg
                        /\ s.len = lens[s.msg] /\ s.intact = TRUE
  BY <1>1, <1>5 DEF UpperOk
<1>7. Latest(g) \in 0 .. n
  BY <1>1 DEF UpperOk
<1>8. /\ h \in Seq(G \cup {Message(s)})
      /\ Latest(h) = IF s.kind = "MSG" THEN s.msg ELSE Latest(g)
  <2>1. CASE s.kind = "MSG"
    <3>1. g \in Seq(G \cup {Message(s)}) /\ h = Append(g, Message(s))
      BY <1>4, <2>1 DEF Taken
    <3>2. h \in Seq(G \cup {Message(s)}) /\ h # <<>> /\ h[Len(h)] = Message(s)
      BY <3>1
    <3> QED
      BY <2>1, <3>2 DEF Latest, Message
  <2>2. CASE s.kind # "MSG"
    BY <1>4, <2>2 DEF Taken
  <2> QED
    BY <2>1, <2>2
<1> HIDE DEF v, s, h
<1>9. ASSUME NEW k, Newer(u, g, k) PROVE Newer(v, h, k)
  BY <1>5, <1>8, <1>9 DEF Newer, Latest
<1>10. UpperOk(lens, n, v, h)
  <2>1. Latest(h) \in 0 .. n
    BY <1>2, <1>6, <1>7, <1>8
  <2>2. ASSUME NEW i \in DOMAIN v, v[i].kind = "MSG"
        PROVE  /\ v[i].msg \in 1 .. n /\ Latest(h) < v[i].msg
               /\ v[i].len = lens[v[i].msg] /\ v[i].intact = TRUE
    <3>1. /\ u[i + 1].msg \in 1 .. n /\ Latest(g) < u[i + 1].msg
          /\ u[i + 1].len = lens[u[i + 1].msg] /\ u[i + 1].intact = TRUE
          /\ s.kind = "MSG" => s.msg < u[i + 1].msg
      BY <1>1, <1>5, <2>2 DEF UpperOk
    <3> QED
      BY <1>5, <1>8, <3>1
  <2>3. ASSUME NEW i \in DOMAIN v, NEW j \in DOMAIN v, i < j, v[i].kind = "MSG", v[j].kind = "MSG"
        PROVE  v[i].msg < v[j].msg
    <3>1. i + 1 < j + 1
      BY <1>5, <2>3
    <3> QED
      BY <1>1, <1>5, <2>3, <3>1 DEF UpperOk
  <2> QED
    BY <1>5, <1>8, <2>1, <2>2, <2>3 DEF UpperOk
<1>11. ReceiverOk(lens, n, r, v, h)
  BY <1>1, <1>9 DEF ReceiverOk
<1>12. \A E, f : Fits(lens, n, E, f, r, u, g) => Fits(lens, n, E, f, r, v, h)
  BY <1>9 DEF Fits
<1>13. WireOk(lens, n, t, w, r, v, h)
  BY <1>1, <1>12 DEF WireOk
<1>14. s.kind = "MSG" =>
         \E k \in Latest(g) + 1 .. n : Message(s) = [msg |-> k, len |-> lens[k], intact |-> TRUE]
  <2>1. ASSUME s.kind = "MSG"
        PROVE  /\ s.msg \in Latest(g) + 1 .. n
               /\ Message(s) = [msg |-> s.msg, len |-> lens[s.msg], intact |-> TRUE]
    <3>1. s.msg \in Latest(g) + 1 .. n
      BY <1>2, <1>6, <1>7, <2>1
    <3>2. s.len = lens[s.msg] /\ s.intact = TRUE
      BY <1>6, <2>1
    <3> QED
      BY <3>1, <3>2 DEF Message
  <2> QED
    BY <2>1
<1> QED
  BY <1>1, <1>10, <1>11, <1>13, <1>14 DEF Dir, v, s, h

-----------------------------------------------------------------------------
(* What one call of either instance is to the direction it sends in, and to*)
(* the one it receives in.                                                 *)

(* Bytes on the wire for n of them (nx_can_dlc_to_len, nx_can_len_to_dlc). *)
WireOf(n) ==
  CHOOSE w \in (0 .. 8) \cup {12, 16, 20, 24, 32, 48, 64} :
    /\ n <= w
    /\ \A v \in (0 .. 8) \cup {12, 16, 20, 24, 32, 48, 64} : n <= v => w <= v

LEMMA WireRounds ==
  ASSUME NEW n \in 0 .. FrameLen
  PROVE  WireOf(n) \in n .. FrameLen
<1> DEFINE Lens == (0 .. 8) \cup {12, 16, 20, 24, 32, 48, 64}
           Least(w) == n <= w /\ \A v \in Lens : n <= v => w <= v
<1>0. FrameLen \in Lens /\ FrameLen \in 8 .. 64
  BY LinkAssumption DEF LinkAssumption
<1>1. \E w \in Lens : Least(w)
  <2>1. CASE n \in 0 .. 8
    <3>1. n \in Lens /\ Least(n)
      BY <2>1
    <3> QED BY <3>1
  <2>2. CASE n \in 9 .. 12
    <3>1. 12 \in Lens /\ Least(12)
      BY <2>2
    <3> QED BY <3>1
  <2>3. CASE n \in 13 .. 16
    <3>1. 16 \in Lens /\ Least(16)
      BY <2>3
    <3> QED BY <3>1
  <2>4. CASE n \in 17 .. 20
    <3>1. 20 \in Lens /\ Least(20)
      BY <2>4
    <3> QED BY <3>1
  <2>5. CASE n \in 21 .. 24
    <3>1. 24 \in Lens /\ Least(24)
      BY <2>5
    <3> QED BY <3>1
  <2>6. CASE n \in 25 .. 32
    <3>1. 32 \in Lens /\ Least(32)
      BY <2>6
    <3> QED BY <3>1
  <2>7. CASE n \in 33 .. 48
    <3>1. 48 \in Lens /\ Least(48)
      BY <2>7
    <3> QED BY <3>1
  <2>8. CASE n \in 49 .. 64
    <3>1. 64 \in Lens /\ Least(64)
      BY <2>8
    <3> QED BY <3>1
  <2> QED BY <1>0, <2>1, <2>2, <2>3, <2>4, <2>5, <2>6, <2>7, <2>8
<1>2. WireOf(n) \in Lens /\ Least(WireOf(n))
  BY <1>1 DEF WireOf
<1> QED
  BY <1>0, <1>2

(* What a consecutive frame carries: all there is room for, unless that is *)
(* more than is left; then all that is left, and padding.                  *)
Rest(left) == IF left < NextLoad THEN left ELSE NextLoad
Padded(n, pads) == WireOf(IF pads /\ n < 8 THEN 8 ELSE n)

LEMMA NextCarries ==
  ASSUME NEW left \in Nat \ {0}, NEW pads
  PROVE  LET n == Padded(Rest(left) + 1, pads) - 1 IN
         /\ n \in 1 .. NextLoad
         /\ n < left => n = NextLoad
         /\ Rest(left) \in 1 .. NextLoad
         /\ Rest(left) < left => Rest(left) = NextLoad
<1>1. NextLoad \in 7 .. 63 /\ FrameLen = NextLoad + 1 /\ FrameLen \in 8 .. 64
  BY Loads DEF NextLoad
<1>2. Rest(left) \in 1 .. NextLoad /\ (Rest(left) < left => Rest(left) = NextLoad)
  BY <1>1 DEF Rest
<1>3. \A m \in 0 .. FrameLen : WireOf(m) \in m .. FrameLen
  BY WireRounds
<1>4. Padded(Rest(left) + 1, pads) \in Rest(left) + 1 .. FrameLen
  BY <1>1, <1>2, <1>3 DEF Padded
<1> HIDE DEF Padded, Rest
<1> QED
  BY <1>1, <1>2, <1>4

(* Outcomes are added to what is handed up.                                *)
LEMMA AddsNone == ASSUME NEW u, NEW M, u \in Seq(M) PROVE Adds(u, u)
  BY DEF Adds

LEMMA AddsOne ==
  ASSUME NEW u, NEW v, Adds(u, v), NEW M, u \in Seq(M), NEW s, s.kind # "MSG"
  PROVE  Adds(u, Append(v, s))
<1>1. PICK N : v \in Seq(N)
  BY DEF Adds
<1>2. v \in Seq(N \cup {s})
  BY <1>1
<1>3. /\ Append(v, s) \in Seq(N \cup {s}) /\ Len(Append(v, s)) = Len(v) + 1
      /\ \A i \in 1 .. Len(v) : Append(v, s)[i] = v[i]
      /\ Append(v, s)[Len(v) + 1] = s /\ Len(v) \in Nat /\ Len(u) \in Nat
  BY <1>2
<1> DEFINE w == Append(v, s)
<1> HIDE DEF w
<1>4. /\ w \in Seq(N \cup {s}) /\ Len(w) = Len(v) + 1
      /\ \A i \in 1 .. Len(v) : w[i] = v[i]
      /\ w[Len(v) + 1] = s
  BY <1>3 DEF w
<1>5. Len(u) <= Len(w) /\ \A i \in 1 .. Len(u) : w[i] = u[i]
  BY <1>3, <1>4 DEF Adds
<1>6. ASSUME NEW i \in Len(u) + 1 .. Len(w) PROVE w[i].kind # "MSG"
  BY <1>3, <1>4 DEF Adds
<1>7. Adds(u, w)
  BY <1>4, <1>5, <1>6 DEF Adds
<1> QED
  BY <1>7 DEF w

(* A.                                                                      *)
ShapeA ==
  /\ {"state", "sn", "left", "total", "filled", "timer", "acc"} \subseteq DOMAIN rxA
  /\ {"state", "sent", "sdu"} \subseteq DOMAIN txA
  /\ txA.state \in {"SEND", "WAIT_FC"} => txA.sent # 0
  /\ roomA = "any"
  /\ \E M : canRxA \in Seq(M)
  /\ \E M : canTxA \in Seq(M)

RestsA == rxA'.state = "IDLE" \/ Stays(rxA, rxA')
LeavesA == canRxA' = canRxA /\ RestsA /\ Adds(sduTxA, sduTxA')
TakesA ==
  /\ canRxA # <<>> /\ canRxA' = Tail(canRxA)
  /\ Receives(Head(canRxA), rxA, sduTxA, rxA', sduTxA')

(* What is published; what flow control does to a reception.               *)
LEMMA PublishedA ==
  ASSUME NEW M, sduTxA \in Seq(M)
  PROVE  /\ \A v, s : Adds(sduTxA, v) /\ s.kind # "MSG" => Adds(sduTxA, A!OfferSdu(v, s))
         /\ \A v, x : Adds(sduTxA, v) => /\ Adds(sduTxA, A!Report(v, A!RxFailed(x)))
                                         /\ Adds(sduTxA, A!Report(v, A!TxEnded(x)))
         /\ \A x : Adds(sduTxA, A!AfterRxAbort(x))
         /\ Adds(sduTxA, sduTxA)
<1>1. Adds(sduTxA, sduTxA)
  BY AddsNone
<1>2. \A v, s : Adds(sduTxA, v) /\ s.kind # "MSG" => Adds(sduTxA, A!OfferSdu(v, s))
  BY AddsOne DEF A!OfferSdu
<1>3. \A x : A!RxFailed(x).kind # "MSG" /\ A!TxEnded(x).kind # "MSG"
  BY DEF A!RxFailed, A!TxEnded
<1>4. \A v, x : Adds(sduTxA, v) => /\ Adds(sduTxA, A!Report(v, A!RxFailed(x)))
                                   /\ Adds(sduTxA, A!Report(v, A!TxEnded(x)))
  BY <1>2, <1>3 DEF A!Report
<1>5. \A x : Adds(sduTxA, A!AfterRxAbort(x))
  BY <1>1, <1>4 DEF A!AfterRxAbort
<1> QED
  BY <1>1, <1>2, <1>4, <1>5

LEMMA GrantedA ==
  ASSUME NEW r, {"state", "left", "timer"} \subseteq DOMAIN r, r.state # "IDLE"
  PROVE  /\ A!AfterCts(r).state # "IDLE" /\ A!AfterCts(r).acc = r.acc
         /\ A!AfterCts(r).filled = r.filled /\ A!AfterCts(r).total = r.total
         /\ DOMAIN A!AfterCts(r) = DOMAIN r
  BY DEF A!AfterCts

LEMMA OfferedA ==
  ASSUME NEW c, c.kind = "FC"
  PROVE  A!OfferFrame(c) = canTxA \/ \E e : e.kind = "FC" /\ A!OfferFrame(c) = Append(canTxA, e)
  BY DEF A!OfferFrame

(* A frame is taken.                                                       *)
LEMMA TakenA ==
  ASSUME ShapeA, NEW M, sduTxA \in Seq(M), A!Drain,
         NEW lens, Genuine(lens, Head(canRxA)), Opening(Head(canRxA)) => lens[Head(canRxA).msg] \in Nat
  PROVE  TakesA /\ {"state", "sn", "left", "total", "filled", "timer", "acc"} \subseteq DOMAIN rxA'
<1> DEFINE f == Head(canRxA)
           fields == {"state", "sn", "left", "total", "filled", "timer", "acc"}
<1>1. /\ \A v, x : Adds(sduTxA, v) => Adds(sduTxA, A!Report(v, A!TxEnded(x)))
      /\ \A x : Adds(sduTxA, A!AfterRxAbort(x))
      /\ Adds(sduTxA, sduTxA)
  BY PublishedA
<1>2. fields \subseteq DOMAIN rxA /\ fields \subseteq DOMAIN A!IdleRx /\ A!IdleRx.state = "IDLE"
  BY DEF ShapeA, A!IdleRx
<1>3. canRxA # <<>>
  BY DEF A!Drain
<1>4. Genuine(lens, f) /\ (Opening(f) => lens[f.msg] \in Nat)
  OBVIOUS
<1> HIDE DEF f
<1>5. CASE A!RecvSF(f)
  <2>1. rxA' = A!IdleRx /\ canRxA' = Tail(canRxA) /\ f.kind = "SF"
    BY <1>5 DEF A!RecvSF, A!Take
  <2>2. \E v : /\ Adds(sduTxA, v)
               /\ \/ sduTxA' = v
                  \/ \E s : sduTxA' = Append(v, s) /\ IsMessage(s, f.msg, f.n, TRUE)
    <3> DEFINE v == IF f.addr = "phys" THEN A!AfterRxAbort("UNEXP_PDU") ELSE sduTxA
               s == A!Received(f.addr, f.msg, f.n, TRUE)
    <3>1. Adds(sduTxA, v)
      BY <1>1
    <3>2. sduTxA' = v \/ sduTxA' = Append(v, s)
      BY <1>5 DEF A!RecvSF, A!OfferSdu
    <3>3. IsMessage(s, f.msg, f.n, TRUE)
      BY DEF A!Received, IsMessage
    <3> QED
      BY <3>1, <3>2, <3>3
  <2> QED
    BY <1>2, <1>3, <2>1, <2>2 DEF TakesA, Receives, f
<1>6. CASE A!RecvFF(f)
  <2>1. canRxA' = Tail(canRxA) /\ f.kind = "FF" /\ f.n < f.total /\ f.n \in Nat /\ f.total \in Nat
    <3>1. f.kind = "FF"
      BY <1>6 DEF A!RecvFF
    <3>2. f.n < f.total /\ f.n = FirstLoad(f.total) /\ f.total = lens[f.msg] /\ f.total \in Nat
      BY <1>4, <3>1 DEF Genuine, Opening
    <3>3. canRxA' = Tail(canRxA)
      BY <1>6 DEF A!RecvFF, A!Take
    <3>4. f.n \in Nat
      <4>1. FirstLoad(f.total) \in 2 .. 62
        BY Loads
      <4> QED
        BY ONLY <3>2, <4>1
    <3> QED
      BY <3>1, <3>2, <3>3, <3>4
  <2>2. /\ sduTxA' = A!AfterRxAbort("UNEXP_PDU")
        /\ rxA' = A!IdleRx \/ rxA' = A!AfterCts(A!Opened(f))
    <3>1. ~(f.n >= f.total)
      BY <2>1
    <3> QED
      BY <1>6, <3>1 DEF A!RecvFF, A!EmitCts
  <2>3. Adds(sduTxA, sduTxA')
    BY <1>1, <2>2
  <2>4. CASE rxA' = A!IdleRx
    BY <1>2, <1>3, <2>1, <2>3, <2>4 DEF TakesA, Receives, f
  <2>5. CASE rxA' = A!AfterCts(A!Opened(f))
    <3> DEFINE r == A!Opened(f)
    <3>1. /\ fields \subseteq DOMAIN r /\ r.state # "IDLE" /\ r.total = f.total /\ r.filled = f.n
          /\ r.acc = [msg |-> f.msg, intact |-> TRUE]
      BY DEF A!Opened
    <3> HIDE DEF r
    <3>2. /\ A!AfterCts(r).state # "IDLE" /\ A!AfterCts(r).acc = r.acc
          /\ A!AfterCts(r).filled = r.filled /\ A!AfterCts(r).total = r.total
          /\ DOMAIN A!AfterCts(r) = DOMAIN r
      BY <3>1, GrantedA
    <3>3. rxA' = A!AfterCts(r)
      BY <2>5 DEF r
    <3>4. OpenedBy(f, rxA')
      BY <3>1, <3>2, <3>3 DEF OpenedBy
    <3> QED
      BY <1>3, <2>1, <2>3, <3>1, <3>2, <3>3, <3>4 DEF TakesA, Receives, f
  <2> QED
    BY <2>2, <2>4, <2>5
<1>7. CASE A!RecvCF(f)
  <2> DEFINE r == A!AfterCf(f)
  <2>1. canRxA' = Tail(canRxA) /\ f.kind = "CF" /\ rxA.state = "ASSEM"
    BY <1>7 DEF A!RecvCF, A!Take
  <2>2. /\ r.state = "ASSEM" /\ r.total = rxA.total /\ r.filled = rxA.filled + Share(rxA, f)
        /\ r.acc = [msg |-> rxA.acc.msg, intact |-> Intact(rxA, f)]
        /\ DOMAIN r = DOMAIN rxA
    BY <1>2, <2>1 DEF A!AfterCf, A!Least, Share, Intact
  <2>3. \/ rxA' = A!IdleRx /\ \E x : sduTxA' = A!AfterRxAbort(x)
        \/ /\ r.filled >= r.total /\ rxA' = A!IdleRx
           /\ sduTxA' = A!OfferSdu(sduTxA, A!Received("phys", r.acc.msg, r.total, r.acc.intact))
        \/ /\ r.filled < r.total /\ (rxA' = r \/ rxA' = A!AfterCts(r))
           /\ sduTxA' = sduTxA
    BY <1>7 DEF A!RecvCF, A!RxAbort, A!EmitCts
  <2> HIDE DEF r
  <2>4. CASE rxA' = A!IdleRx /\ \E x : sduTxA' = A!AfterRxAbort(x)
    BY <1>1, <1>2, <1>3, <2>1, <2>4 DEF TakesA, Receives, f
  <2>5. CASE /\ r.filled >= r.total /\ rxA' = A!IdleRx
             /\ sduTxA' = A!OfferSdu(sduTxA, A!Received("phys", r.acc.msg, r.total, r.acc.intact))
    <3> DEFINE s == A!Received("phys", r.acc.msg, r.total, r.acc.intact)
    <3>1. IsMessage(s, rxA.acc.msg, rxA.total, Intact(rxA, f))
      BY <2>2 DEF A!Received, IsMessage
    <3>2. sduTxA' = sduTxA \/ sduTxA' = Append(sduTxA, s)
      BY <2>5 DEF A!OfferSdu
    <3>3. rxA.state # "IDLE" /\ rxA.filled + Share(rxA, f) >= rxA.total
      BY <2>1, <2>2, <2>5
    <3> HIDE DEF s
    <3>4. CASE sduTxA' = sduTxA
      BY <1>1, <1>2, <1>3, <2>1, <2>5, <3>4 DEF TakesA, Receives, f
    <3>5. CASE sduTxA' = Append(sduTxA, s)
      BY <1>1, <1>2, <1>3, <2>1, <2>5, <3>1, <3>3, <3>5 DEF TakesA, Receives, f
    <3> QED
      BY <3>2, <3>4, <3>5
  <2>6. CASE /\ r.filled < r.total /\ (rxA' = r \/ rxA' = A!AfterCts(r))
             /\ sduTxA' = sduTxA
    <3>1. r.state # "IDLE" /\ {"state", "left", "timer"} \subseteq DOMAIN r
      BY <1>2, <2>2
    <3>2. /\ A!AfterCts(r).state # "IDLE" /\ A!AfterCts(r).acc = r.acc
          /\ A!AfterCts(r).filled = r.filled /\ A!AfterCts(r).total = r.total
          /\ DOMAIN A!AfterCts(r) = DOMAIN r
      BY <3>1, GrantedA
    <3>3. /\ rxA'.state # "IDLE" /\ rxA'.acc = r.acc /\ rxA'.filled = r.filled
          /\ rxA'.total = r.total /\ DOMAIN rxA' = DOMAIN r
      BY <2>6, <3>1, <3>2
    <3>4. CopiedIn(rxA, f, rxA') /\ rxA'.filled < rxA'.total
      BY <2>2, <2>6, <3>3 DEF CopiedIn
    <3> QED
      BY <1>2, <1>3, <2>1, <2>2, <2>6, <3>3, <3>4 DEF TakesA, Receives, f
  <2> QED
    BY <2>3, <2>4, <2>5, <2>6
<1>8. CASE A!RecvFC(f)
  <2>1. canRxA' = Tail(canRxA) /\ rxA' = rxA /\ f.kind = "FC"
    BY <1>8 DEF A!RecvFC, A!Take
  <2>2. sduTxA' = sduTxA \/ \E x : sduTxA' = A!Report(sduTxA, A!TxEnded(x))
    BY <1>8 DEF A!RecvFC, A!TxEnd
  <2>3. Adds(sduTxA, sduTxA') /\ Stays(rxA, rxA') /\ ~Opening(f)
    BY <1>1, <2>1, <2>2 DEF Stays, Opening
  <2> QED
    BY <1>2, <1>3, <2>1, <2>3 DEF TakesA, Receives, f
<1>9. CASE A!Ignore(f)
  <2>1. canRxA' = Tail(canRxA) /\ rxA' = rxA /\ sduTxA' = sduTxA
    BY <1>9 DEF A!Ignore, A!Take
  <2>2. ~Opening(f)
    BY <1>4, <1>9 DEF A!Ignore, A!Ignored, Opening, Genuine
  <2>3. Stays(rxA, rxA')
    BY <2>1 DEF Stays
  <2> QED
    BY <1>1, <1>2, <1>3, <2>1, <2>2, <2>3 DEF TakesA, Receives, f
<1> QED
  BY <1>5, <1>6, <1>7, <1>8, <1>9 DEF A!Drain, f

(* A call in the direction it receives in.                                 *)
LEMMA ReceivesA ==
  ASSUME ShapeA, NEW M, sduTxA \in Seq(M), A!Process,
         NEW lens, canRxA # <<>> => /\ Genuine(lens, Head(canRxA))
                                    /\ Opening(Head(canRxA)) => lens[Head(canRxA).msg] \in Nat
  PROVE  /\ LeavesA \/ TakesA
         /\ {"state", "sn", "left", "total", "filled", "timer", "acc"} \subseteq DOMAIN rxA'
<1> DEFINE fields == {"state", "sn", "left", "total", "filled", "timer", "acc"}
<1>1. /\ \A v, x : Adds(sduTxA, v) => Adds(sduTxA, A!Report(v, A!TxEnded(x)))
      /\ \A x : Adds(sduTxA, A!AfterRxAbort(x))
      /\ Adds(sduTxA, sduTxA)
  BY PublishedA
<1>2. fields \subseteq DOMAIN rxA /\ fields \subseteq DOMAIN A!IdleRx /\ A!IdleRx.state = "IDLE"
  BY DEF ShapeA, A!IdleRx
<1>3. CASE A!Drain
  <2>1. canRxA # <<>>
    BY <1>3 DEF A!Drain
  <2> QED
    BY <1>3, <2>1, TakenA
<1>4. CASE A!Timers
  <2>1. /\ canRxA' = canRxA
        /\ rxA' = rxA \/ rxA' = A!IdleRx \/ (rxA.state = "FC_WAIT" /\ rxA' = A!AfterCts(rxA))
    BY <1>4 DEF A!Timers, A!EmitCts
  <2>2. RestsA /\ fields \subseteq DOMAIN rxA'
    <3>1. CASE rxA' = rxA
      BY <1>2, <3>1 DEF RestsA, Stays
    <3>2. CASE rxA' = A!IdleRx
      BY <1>2, <3>2 DEF RestsA
    <3>3. CASE rxA.state = "FC_WAIT" /\ rxA' = A!AfterCts(rxA)
      <4>1. {"state", "left", "timer"} \subseteq DOMAIN rxA /\ rxA.state # "IDLE"
        BY <1>2, <3>3
      <4> QED
        BY <1>2, <3>3, <4>1, GrantedA DEF RestsA, Stays
    <3> QED
      BY <2>1, <3>1, <3>2, <3>3
  <2>3. Adds(sduTxA, sduTxA')
    <3> DEFINE q == IF A!RxLate
                    THEN A!AfterRxAbort(IF rxA.state = "ASSEM" THEN "TIMEOUT_CR" ELSE "TIMEOUT_A")
                    ELSE sduTxA
    <3>1. Adds(sduTxA, q)
      BY <1>1
    <3>2. sduTxA' = q \/ \E x : sduTxA' = A!Report(q, A!TxEnded(x))
      BY <1>4 DEF A!Timers
    <3> HIDE DEF q
    <3> QED
      BY <1>1, <3>1, <3>2
  <2> QED
    BY <2>1, <2>2, <2>3 DEF LeavesA
<1>5. ASSUME canRxA' = canRxA, rxA' = rxA,
             sduTxA' = sduTxA \/ sduTxA' = A!Report(sduTxA, A!TxEnded("OK"))
      PROVE  LeavesA /\ fields \subseteq DOMAIN rxA'
  BY <1>1, <1>2, <1>5 DEF LeavesA, RestsA, Stays
<1>6. CASE A!Begin
  BY <1>5, <1>6 DEF A!Begin
<1>7. CASE A!StartSend
  BY <1>5, <1>7 DEF A!StartSend, A!OfferFirst, A!TxEnd
<1>8. CASE A!RetryFirst
  BY <1>5, <1>8 DEF A!RetryFirst, A!OfferFirst, A!TxEnd
<1>9. CASE A!SendCF
  BY <1>5, <1>9 DEF A!SendCF, A!TxEnd
<1>10. CASE A!EndCall
  BY <1>5, <1>10 DEF A!EndCall
<1>11. CASE A!Sample
  BY <1>5, <1>11 DEF A!Sample
<1> QED
  BY <1>3, <1>4, <1>6, <1>7, <1>8, <1>9, <1>10, <1>11 DEF A!Process

(* And in the direction it sends in.  The first frame of a request:        *)
LEMMA FirstA ==
  ASSUME NEW s, s.ta = "phys", s.len \in Nat \ {0}
  PROVE  LET f == A!FirstFrame(s) IN
         /\ IsFirst(f, s)
         /\ ~A!FitsSingle(s) => f.kind = "FF" /\ f.n = A!FfLoad(s.len) /\ f.n # 0
<1>0. FrameLen \in 8 .. 64
  BY LinkAssumption DEF LinkAssumption
<1>1. A!FfLoad(s.len) = FirstLoad(s.len) /\ FirstLoad(s.len) \in 2 .. 62
  BY Loads DEF A!FfLoad, FirstLoad
<1>2. CASE A!FitsSingle(s)
  BY <1>2 DEF A!FirstFrame, A!SF, IsFirst
<1>3. CASE ~A!FitsSingle(s)
  <2>1. A!SfCapacity < s.len
    BY <1>0, <1>3 DEF A!FitsSingle, A!SfCapacity
  <2>2. FirstLoad(s.len) < s.len
    BY <1>0, <2>1 DEF A!SfCapacity, FirstLoad
  <2>3. /\ A!FirstFrame(s) = A!FF("phys", s.msg, A!FfLoad(s.len), s.len, TRUE)
    BY <1>3 DEF A!FirstFrame
  <2>4. /\ A!FirstFrame(s).kind = "FF" /\ A!FirstFrame(s).addr = "phys"
        /\ A!FirstFrame(s).msg = s.msg /\ A!FirstFrame(s).n = A!FfLoad(s.len)
        /\ A!FirstFrame(s).total = s.len /\ A!FirstFrame(s).ok = TRUE
    BY <2>3 DEF A!FF
  <2> HIDE DEF A!FirstFrame
  <2>5. IsFirst(A!FirstFrame(s), s)
    BY <1>1, <2>2, <2>4 DEF IsFirst
  <2>6. A!FfLoad(s.len) # 0
    BY <1>1
  <2> QED
    BY <1>3, <2>4, <2>5, <2>6
<1> QED
  BY <1>2, <1>3

(* A first frame is offered, by a transmission that holds its request.     *)
LEMMA OffersFirstA ==
  ASSUME NEW t, NEW s, {"state", "sent", "sdu"} \subseteq DOMAIN t, t.sdu = s, t.sent = 0,
         s.ta = "phys", s.len \in Nat \ {0}, A!OfferFirst(t, s)
  PROVE  /\ {"state", "sent", "sdu"} \subseteq DOMAIN txA'
         /\ txA'.state \in {"SEND", "WAIT_FC"} => txA'.sent # 0
         /\ \A h : Held(h) /\ h.sdu = s /\ h.sent = 0 =>
              \/ GoesOn(h, txA') /\ canTxA' = canTxA
              \/ \E e : Emits(h, e, txA') /\ canTxA' = Append(canTxA, e)
<1> DEFINE f == A!FirstFrame(s)
<1>1. IsFirst(f, s) /\ (~A!FitsSingle(s) => f.kind = "FF" /\ f.n = A!FfLoad(s.len) /\ f.n # 0)
  BY FirstA
<1>2. \/ txA' = A!Hold(t) /\ canTxA' = canTxA
      \/ canTxA' = Append(canTxA, f) /\ txA' = A!IdleTx
      \/ /\ canTxA' = Append(canTxA, f) /\ ~A!FitsSingle(s)
         /\ txA' = [t EXCEPT !.state = "WAIT_FC", !.sent = A!FfLoad(s.len), !.gap = 0, !.timer = NBs]
  BY DEF A!OfferFirst, A!TxEnd
<1> HIDE DEF f
<1>3. CASE txA' = A!Hold(t) /\ canTxA' = canTxA
  <2>1. /\ txA'.state = "WAIT_LINK" /\ txA'.sdu = s /\ txA'.sent = 0
        /\ {"state", "sent", "sdu"} \subseteq DOMAIN txA'
    BY <1>3 DEF A!Hold
  <2> QED
    BY <1>3, <2>1 DEF GoesOn, Held
<1>4. CASE canTxA' = Append(canTxA, f) /\ txA' = A!IdleTx
  <2>1. txA'.state = "IDLE" /\ {"state", "sent", "sdu"} \subseteq DOMAIN txA'
    BY <1>4 DEF A!IdleTx
  <2>2. \A h : Held(h) /\ h.sdu = s /\ h.sent = 0 => Emits(h, f, txA')
    BY <1>1, <2>1 DEF Emits, Held, IsDue
  <2> QED
    BY <1>4, <2>1, <2>2
<1>5. CASE /\ canTxA' = Append(canTxA, f) /\ ~A!FitsSingle(s)
           /\ txA' = [t EXCEPT !.state = "WAIT_FC", !.sent = A!FfLoad(s.len), !.gap = 0, !.timer = NBs]
  <2>1. /\ {"state", "sent", "sdu"} \subseteq DOMAIN txA'
        /\ txA'.state = "WAIT_FC" /\ txA'.sdu = s /\ txA'.sent = A!FfLoad(s.len)
    BY <1>5
  <2>2. \A h : Held(h) /\ h.sdu = s /\ h.sent = 0 => Emits(h, f, txA')
    BY <1>1, <1>5, <2>1 DEF Emits, Held, IsDue
  <2> QED
    BY <1>1, <1>5, <2>1, <2>2
<1> QED
  BY <1>2, <1>3, <1>4, <1>5

LEMMA NextA ==
  ASSUME NEW n, NEW lens, txA.sdu = Asked(lens, n), lens[n] \in Nat, txA.sent \in Nat \ {0},
         txA.sent < lens[n], Held(txA)
  PROVE  /\ IsDue(A!NextCF, txA) /\ A!NextCF.kind = "CF"
         /\ txA.sent + A!Chunk < txA.sdu.len => A!Chunk = NextLoad
         /\ A!Chunk \in Nat \ {0}
<1> DEFINE left == txA.sdu.len - txA.sent
           k == Padded(Rest(left) + 1, PadFrames) - 1
<1>1. txA.sdu.len = lens[n] /\ txA.sdu.ta = "phys" /\ txA.sdu.len \in Nat
  BY DEF Asked
<1>2. left \in Nat \ {0}
  BY <1>1
<1>3. A!Chunk = Rest(left)
  <2>1. NextLoad \in Nat /\ A!CfLoad = NextLoad
    BY Loads DEF A!CfLoad, NextLoad
  <2> QED
    BY <1>2, <2>1 DEF A!Chunk, A!Least, Rest
<1>4. A!PaddedLen(A!Chunk + 1) - 1 = k
  <2>1. \A m : A!WireLen(m) = WireOf(m)
    BY DEF A!WireLen, WireOf
  <2> QED
    BY <1>3, <2>1 DEF A!PaddedLen, Padded
<1>5. /\ k \in 1 .. NextLoad /\ (k < left => k = NextLoad)
      /\ Rest(left) \in 1 .. NextLoad /\ (Rest(left) < left => Rest(left) = NextLoad)
  BY <1>2, NextCarries
<1> HIDE DEF k
<1>6. A!NextCF = A!CF("phys", txA.sdu.msg, txA.sent, k, txA.sn)
  BY <1>1, <1>4 DEF A!NextCF
<1>7. /\ A!NextCF.kind = "CF" /\ A!NextCF.msg = txA.sdu.msg /\ A!NextCF.off = txA.sent
      /\ A!NextCF.n = k
  BY <1>6 DEF A!CF
<1> HIDE DEF A!NextCF
<1>8. txA.sent + k < txA.sdu.len => k = NextLoad
  BY <1>1, <1>5, Loads
<1>9. IsDue(A!NextCF, txA)
  BY <1>5, <1>7, <1>8 DEF IsDue, IsNext
<1>10. txA.sent + A!Chunk < txA.sdu.len => A!Chunk = NextLoad
  BY <1>1, <1>3, <1>5, Loads
<1> QED
  BY <1>3, <1>5, <1>7, <1>9, <1>10, Loads

LEMMA SendsA ==
  ASSUME ShapeA, A!Process, NEW lens, NEW n, SenderOk(lens, n, txA, sduRxA)
  PROVE  /\ Sends(txA, sduRxA, canTxA, txA', sduRxA', canTxA')
         /\ {"state", "sent", "sdu"} \subseteq DOMAIN txA'
         /\ txA'.state \in {"SEND", "WAIT_FC"} => txA'.sent # 0
<1> DEFINE fields == {"state", "sent", "sdu"}
           Kept(t) == fields \subseteq DOMAIN t /\ (t.state \in {"SEND", "WAIT_FC"} => t.sent # 0)
<1>1. Kept(txA) /\ Kept(A!IdleTx) /\ ~Held(A!IdleTx)
  BY DEF ShapeA, A!IdleTx, Held
<1>2. Held(txA) => /\ txA.sdu = Asked(lens, n) /\ n >= 1 /\ lens[n] \in Nat \ {0}
                   /\ txA.sent # 0 => txA.sent \in Nat /\ txA.sent < lens[n]
  <2>1. n \in Nat /\ \A k \in 1 .. n : lens[k] \in Nat \ {0}
    BY Lengths
  <2> QED
    BY <2>1 DEF SenderOk
(* The request stays, and what is done with it changes.                    *)
<1>3. ASSUME sduRxA' = sduRxA, GoesOn(txA, txA'), Kept(txA'),
             canTxA' = canTxA \/ \E c : c.kind = "FC" /\ canTxA' = Append(canTxA, c)
      PROVE  Sends(txA, sduRxA, canTxA, txA', sduRxA', canTxA') /\ Kept(txA')
  BY <1>3 DEF Sends, Fetches
<1>4. ASSUME txA' = txA \/ txA' = A!IdleTx PROVE GoesOn(txA, txA') /\ Kept(txA')
  BY <1>1, <1>4 DEF GoesOn
<1>5. CASE A!Begin
  BY <1>3, <1>4, <1>5 DEF A!Begin
<1>6. CASE A!EndCall
  BY <1>3, <1>4, <1>6 DEF A!EndCall
<1>12. CASE A!Sample
  <2>1. /\ canTxA' = canTxA /\ sduRxA' = sduRxA
        /\ txA' = [txA EXCEPT !.gap = 0]
    BY <1>12 DEF A!Sample
  <2>2. /\ txA'.state = txA.state /\ txA'.sdu = txA.sdu /\ txA'.sent = txA.sent
        /\ fields \subseteq DOMAIN txA'
    BY <1>1, <2>1
  <2>3. GoesOn(txA, txA') /\ Kept(txA')
    BY <1>1, <2>2 DEF GoesOn, Held
  <2> QED
    BY <1>3, <2>1, <2>3
<1>7. CASE A!Drain
  <2> DEFINE f == Head(canRxA)
  <2>1. sduRxA' = sduRxA
    BY <1>7 DEF A!Drain, A!RecvSF, A!RecvFF, A!RecvCF, A!RecvFC, A!Ignore, A!Take
  <2>2. canTxA' = canTxA \/ \E c : c.kind = "FC" /\ canTxA' = A!OfferFrame(c)
    <3>1. \A x, a, b : A!FC("phys", x, a, b, TRUE).kind = "FC"
      BY DEF A!FC
    <3>2. CASE A!RecvSF(f) \/ A!RecvFC(f) \/ A!Ignore(f)
      BY <3>2 DEF A!RecvSF, A!RecvFC, A!Ignore
    <3>3. CASE A!RecvFF(f)
      BY <3>1, <3>3 DEF A!RecvFF, A!EmitCts
    <3>4. CASE A!RecvCF(f)
      BY <3>1, <3>4 DEF A!RecvCF, A!EmitCts
    <3> QED
      BY <1>7, <3>2, <3>3, <3>4 DEF A!Drain
  <2>3. canTxA' = canTxA \/ \E c : c.kind = "FC" /\ canTxA' = Append(canTxA, c)
    BY <2>2, OfferedA
  <2>4. GoesOn(txA, txA') /\ Kept(txA')
    <3>1. CASE A!RecvSF(f) \/ A!RecvFF(f) \/ A!RecvCF(f) \/ A!Ignore(f)
      <4>1. txA' = txA
        BY <3>1 DEF A!RecvSF, A!RecvFF, A!RecvCF, A!Ignore
      <4> QED
        BY <1>4, <4>1
    <3>2. CASE A!RecvFC(f)
      <4>1. \/ txA' = A!IdleTx
            \/ txA' = [txA EXCEPT !.wft = (txA.wft + 1) % 256, !.timer = NBs]
            \/ txA' = [txA EXCEPT !.state = "SEND", !.wft = 0, !.bs = f.bs,
                                  !.stmin = A!StminTicks(f.stmin), !.timer = 0]
        BY <3>2 DEF A!RecvFC, A!TxEnd
      <4>2. txA.state = "WAIT_FC"
        BY <3>2 DEF A!RecvFC
      <4>3. txA' # A!IdleTx =>
              /\ fields \subseteq DOMAIN txA' /\ txA'.sdu = txA.sdu /\ txA'.sent = txA.sent
              /\ txA'.state \in {"SEND", "WAIT_FC"}
        BY <1>1, <4>1, <4>2
      <4> QED
        BY <1>1, <1>4, <4>2, <4>3 DEF GoesOn, Held
    <3> QED
      BY <1>7, <3>1, <3>2 DEF A!Drain
  <2> QED
    BY <1>3, <2>1, <2>3, <2>4
<1>8. CASE A!Timers
  <2>1. sduRxA' = sduRxA /\ (txA' = txA \/ txA' = A!IdleTx)
    BY <1>8 DEF A!Timers
  <2>2. canTxA' = canTxA \/ \E c : c.kind = "FC" /\ canTxA' = A!OfferFrame(c)
    <3>1. \A x, a, b : A!FC("phys", x, a, b, TRUE).kind = "FC"
      BY DEF A!FC
    <3> QED
      BY <1>8, <3>1 DEF A!Timers, A!EmitCts
  <2>3. canTxA' = canTxA \/ \E c : c.kind = "FC" /\ canTxA' = Append(canTxA, c)
    BY <2>2, OfferedA
  <2> QED
    BY <1>3, <1>4, <2>1, <2>3
<1>9. CASE A!StartSend
  <2> DEFINE s == Head(sduRxA)
             t == [A!IdleTx EXCEPT !.sn = 1, !.sdu = s]
             h == [state |-> "WAIT_LINK", sdu |-> s, sent |-> 0]
  <2>1. /\ txA.state = "IDLE" /\ sduRxA # <<>> /\ sduRxA' = Tail(sduRxA) /\ A!OfferFirst(t, s)
    BY <1>9 DEF A!StartSend
  <2>2. s.ta = "phys" /\ s.len \in Nat \ {0}
    <3>1. /\ lens \in Seq(Nat \ {0}) /\ n \in 0 .. Len(lens) /\ n + Len(sduRxA) <= Len(lens)
          /\ \A x \in DOMAIN sduRxA : sduRxA[x] = Asked(lens, n + x)
      BY DEF SenderOk
    <3>2. PICK M : sduRxA \in Seq(M)
      BY DEF SenderOk
    <3>3. 1 \in DOMAIN sduRxA /\ s = sduRxA[1] /\ Len(sduRxA) >= 1 /\ Len(sduRxA) \in Nat
      BY <2>1, <3>2
    <3>4. s = Asked(lens, n + 1) /\ lens[n + 1] \in Nat \ {0}
      BY <3>1, <3>3
    <3> HIDE DEF s
    <3> QED
      BY <3>4 DEF Asked
  <2>3. fields \subseteq DOMAIN t /\ t.sdu = s /\ t.sent = 0
    BY DEF A!IdleTx
  <2>4. Held(h) /\ h.sdu = s /\ h.sent = 0
    BY DEF Held
  <2> HIDE DEF t, h
  <2>5. /\ Kept(txA')
        /\ \/ GoesOn(h, txA') /\ canTxA' = canTxA
           \/ \E e : Emits(h, e, txA') /\ canTxA' = Append(canTxA, e)
    BY <2>1, <2>2, <2>3, <2>4, OffersFirstA
  <2>6. Fetches(txA, sduRxA, h, sduRxA')
    BY <2>1, <2>4 DEF Fetches, Held
  <2> QED
    BY <2>5, <2>6 DEF Sends
<1>10. CASE A!RetryFirst
  <2>1. /\ Held(txA) /\ txA.sent = 0 /\ sduRxA' = sduRxA /\ A!OfferFirst(txA, txA.sdu)
    BY <1>10 DEF A!RetryFirst, Held
  <2>2. txA.sdu.ta = "phys" /\ txA.sdu.len \in Nat \ {0}
    BY <1>2, <2>1 DEF Asked
  <2>3. fields \subseteq DOMAIN txA
    BY <1>1
  <2>4. /\ Kept(txA')
        /\ \/ GoesOn(txA, txA') /\ canTxA' = canTxA
           \/ \E e : Emits(txA, e, txA') /\ canTxA' = Append(canTxA, e)
    BY <2>1, <2>2, <2>3, OffersFirstA
  <2>5. Fetches(txA, sduRxA, txA, sduRxA')
    BY <2>1 DEF Fetches
  <2> QED
    BY <2>4, <2>5 DEF Sends
<1>11. CASE A!SendCF
  <2>1. /\ Held(txA) /\ txA.sent # 0 /\ sduRxA' = sduRxA
        /\ txA.state \in {"WAIT_LINK", "SEND"}
    <3>1. txA.state \in {"WAIT_LINK", "SEND"} /\ (txA.state = "WAIT_LINK" => txA.sent > 0)
      BY <1>11 DEF A!SendCF, A!FrameInHand
    <3> QED
      BY <1>1, <1>11, <3>1 DEF A!SendCF, Held
  <2>2. /\ IsDue(A!NextCF, txA) /\ A!NextCF.kind = "CF"
        /\ txA.sent + A!Chunk < txA.sdu.len => A!Chunk = NextLoad
        /\ A!Chunk \in Nat \ {0} /\ txA.sent \in Nat \ {0}
    <3>1. /\ txA.sdu = Asked(lens, n) /\ lens[n] \in Nat /\ txA.sent \in Nat \ {0} /\ txA.sent < lens[n]
      BY <1>2, <2>1
    <3> QED
      BY <2>1, <3>1, NextA
  <2>3. \/ txA' = A!Hold(txA) /\ canTxA' = canTxA
        \/ txA' = A!IdleTx /\ canTxA' = Append(canTxA, A!NextCF)
        \/ /\ canTxA' = Append(canTxA, A!NextCF) /\ txA.sent + A!Chunk < txA.sdu.len
           /\ fields \subseteq DOMAIN txA' /\ txA'.sdu = txA.sdu /\ txA'.sent = txA.sent + A!Chunk
    <3> HIDE DEF A!NextCF, A!Chunk
    <3> QED
      BY <1>1, <1>11 DEF A!SendCF, A!TxEnd
  <2> HIDE DEF A!NextCF, A!Chunk
  <2>4. CASE txA' = A!Hold(txA) /\ canTxA' = canTxA
    <3>1. txA'.sdu = txA.sdu /\ txA'.sent = txA.sent /\ fields \subseteq DOMAIN txA'
      BY <1>1, <2>4 DEF A!Hold
    <3>2. GoesOn(txA, txA') /\ Kept(txA')
      BY <2>1, <3>1 DEF GoesOn
    <3> QED
      BY <1>3, <2>1, <2>4, <3>2
  <2>5. CASE txA' = A!IdleTx /\ canTxA' = Append(canTxA, A!NextCF)
    <3>1. Emits(txA, A!NextCF, txA')
      BY <1>1, <2>1, <2>2, <2>5 DEF Emits
    <3>2. Fetches(txA, sduRxA, txA, sduRxA')
      BY <2>1 DEF Fetches
    <3> QED
      BY <1>1, <2>5, <3>1, <3>2 DEF Sends
  <2>6. CASE /\ canTxA' = Append(canTxA, A!NextCF) /\ txA.sent + A!Chunk < txA.sdu.len
             /\ fields \subseteq DOMAIN txA' /\ txA'.sdu = txA.sdu /\ txA'.sent = txA.sent + A!Chunk
    <3>1. txA'.sent = txA.sent + NextLoad /\ txA'.sent < txA.sdu.len /\ txA'.sent # 0
      BY <2>2, <2>6
    <3>2. Emits(txA, A!NextCF, txA')
      BY <2>1, <2>2, <2>6, <3>1 DEF Emits
    <3>3. Fetches(txA, sduRxA, txA, sduRxA')
      BY <2>1 DEF Fetches
    <3> QED
      BY <2>6, <3>1, <3>2, <3>3 DEF Sends
  <2> QED
    BY <2>3, <2>4, <2>5, <2>6
<1> QED
  BY <1>5, <1>6, <1>7, <1>8, <1>9, <1>10, <1>11, <1>12 DEF A!Process

(* B, likewise.                                                            *)
ShapeB ==
  /\ {"state", "sn", "left", "total", "filled", "timer", "acc"} \subseteq DOMAIN rxB
  /\ {"state", "sent", "sdu"} \subseteq DOMAIN txB
  /\ txB.state \in {"SEND", "WAIT_FC"} => txB.sent # 0
  /\ roomB = "any"
  /\ \E M : canRxB \in Seq(M)
  /\ \E M : canTxB \in Seq(M)

RestsB == rxB'.state = "IDLE" \/ Stays(rxB, rxB')
LeavesB == canRxB' = canRxB /\ RestsB /\ Adds(sduTxB, sduTxB')
TakesB ==
  /\ canRxB # <<>> /\ canRxB' = Tail(canRxB)
  /\ Receives(Head(canRxB), rxB, sduTxB, rxB', sduTxB')

(* What is published; what flow control does to a reception.               *)
LEMMA PublishedB ==
  ASSUME NEW M, sduTxB \in Seq(M)
  PROVE  /\ \A v, s : Adds(sduTxB, v) /\ s.kind # "MSG" => Adds(sduTxB, B!OfferSdu(v, s))
         /\ \A v, x : Adds(sduTxB, v) => /\ Adds(sduTxB, B!Report(v, B!RxFailed(x)))
                                         /\ Adds(sduTxB, B!Report(v, B!TxEnded(x)))
         /\ \A x : Adds(sduTxB, B!AfterRxAbort(x))
         /\ Adds(sduTxB, sduTxB)
<1>1. Adds(sduTxB, sduTxB)
  BY AddsNone
<1>2. \A v, s : Adds(sduTxB, v) /\ s.kind # "MSG" => Adds(sduTxB, B!OfferSdu(v, s))
  BY AddsOne DEF B!OfferSdu
<1>3. \A x : B!RxFailed(x).kind # "MSG" /\ B!TxEnded(x).kind # "MSG"
  BY DEF B!RxFailed, B!TxEnded
<1>4. \A v, x : Adds(sduTxB, v) => /\ Adds(sduTxB, B!Report(v, B!RxFailed(x)))
                                   /\ Adds(sduTxB, B!Report(v, B!TxEnded(x)))
  BY <1>2, <1>3 DEF B!Report
<1>5. \A x : Adds(sduTxB, B!AfterRxAbort(x))
  BY <1>1, <1>4 DEF B!AfterRxAbort
<1> QED
  BY <1>1, <1>2, <1>4, <1>5

LEMMA GrantedB ==
  ASSUME NEW r, {"state", "left", "timer"} \subseteq DOMAIN r, r.state # "IDLE"
  PROVE  /\ B!AfterCts(r).state # "IDLE" /\ B!AfterCts(r).acc = r.acc
         /\ B!AfterCts(r).filled = r.filled /\ B!AfterCts(r).total = r.total
         /\ DOMAIN B!AfterCts(r) = DOMAIN r
  BY DEF B!AfterCts

LEMMA OfferedB ==
  ASSUME NEW c, c.kind = "FC"
  PROVE  B!OfferFrame(c) = canTxB \/ \E e : e.kind = "FC" /\ B!OfferFrame(c) = Append(canTxB, e)
  BY DEF B!OfferFrame

(* A frame is taken.                                                       *)
LEMMA TakenB ==
  ASSUME ShapeB, NEW M, sduTxB \in Seq(M), B!Drain,
         NEW lens, Genuine(lens, Head(canRxB)), Opening(Head(canRxB)) => lens[Head(canRxB).msg] \in Nat
  PROVE  TakesB /\ {"state", "sn", "left", "total", "filled", "timer", "acc"} \subseteq DOMAIN rxB'
<1> DEFINE f == Head(canRxB)
           fields == {"state", "sn", "left", "total", "filled", "timer", "acc"}
<1>1. /\ \A v, x : Adds(sduTxB, v) => Adds(sduTxB, B!Report(v, B!TxEnded(x)))
      /\ \A x : Adds(sduTxB, B!AfterRxAbort(x))
      /\ Adds(sduTxB, sduTxB)
  BY PublishedB
<1>2. fields \subseteq DOMAIN rxB /\ fields \subseteq DOMAIN B!IdleRx /\ B!IdleRx.state = "IDLE"
  BY DEF ShapeB, B!IdleRx
<1>3. canRxB # <<>>
  BY DEF B!Drain
<1>4. Genuine(lens, f) /\ (Opening(f) => lens[f.msg] \in Nat)
  OBVIOUS
<1> HIDE DEF f
<1>5. CASE B!RecvSF(f)
  <2>1. rxB' = B!IdleRx /\ canRxB' = Tail(canRxB) /\ f.kind = "SF"
    BY <1>5 DEF B!RecvSF, B!Take
  <2>2. \E v : /\ Adds(sduTxB, v)
               /\ \/ sduTxB' = v
                  \/ \E s : sduTxB' = Append(v, s) /\ IsMessage(s, f.msg, f.n, TRUE)
    <3> DEFINE v == IF f.addr = "phys" THEN B!AfterRxAbort("UNEXP_PDU") ELSE sduTxB
               s == B!Received(f.addr, f.msg, f.n, TRUE)
    <3>1. Adds(sduTxB, v)
      BY <1>1
    <3>2. sduTxB' = v \/ sduTxB' = Append(v, s)
      BY <1>5 DEF B!RecvSF, B!OfferSdu
    <3>3. IsMessage(s, f.msg, f.n, TRUE)
      BY DEF B!Received, IsMessage
    <3> QED
      BY <3>1, <3>2, <3>3
  <2> QED
    BY <1>2, <1>3, <2>1, <2>2 DEF TakesB, Receives, f
<1>6. CASE B!RecvFF(f)
  <2>1. canRxB' = Tail(canRxB) /\ f.kind = "FF" /\ f.n < f.total /\ f.n \in Nat /\ f.total \in Nat
    <3>1. f.kind = "FF"
      BY <1>6 DEF B!RecvFF
    <3>2. f.n < f.total /\ f.n = FirstLoad(f.total) /\ f.total = lens[f.msg] /\ f.total \in Nat
      BY <1>4, <3>1 DEF Genuine, Opening
    <3>3. canRxB' = Tail(canRxB)
      BY <1>6 DEF B!RecvFF, B!Take
    <3>4. f.n \in Nat
      <4>1. FirstLoad(f.total) \in 2 .. 62
        BY Loads
      <4> QED
        BY ONLY <3>2, <4>1
    <3> QED
      BY <3>1, <3>2, <3>3, <3>4
  <2>2. /\ sduTxB' = B!AfterRxAbort("UNEXP_PDU")
        /\ rxB' = B!IdleRx \/ rxB' = B!AfterCts(B!Opened(f))
    <3>1. ~(f.n >= f.total)
      BY <2>1
    <3> QED
      BY <1>6, <3>1 DEF B!RecvFF, B!EmitCts
  <2>3. Adds(sduTxB, sduTxB')
    BY <1>1, <2>2
  <2>4. CASE rxB' = B!IdleRx
    BY <1>2, <1>3, <2>1, <2>3, <2>4 DEF TakesB, Receives, f
  <2>5. CASE rxB' = B!AfterCts(B!Opened(f))
    <3> DEFINE r == B!Opened(f)
    <3>1. /\ fields \subseteq DOMAIN r /\ r.state # "IDLE" /\ r.total = f.total /\ r.filled = f.n
          /\ r.acc = [msg |-> f.msg, intact |-> TRUE]
      BY DEF B!Opened
    <3> HIDE DEF r
    <3>2. /\ B!AfterCts(r).state # "IDLE" /\ B!AfterCts(r).acc = r.acc
          /\ B!AfterCts(r).filled = r.filled /\ B!AfterCts(r).total = r.total
          /\ DOMAIN B!AfterCts(r) = DOMAIN r
      BY <3>1, GrantedB
    <3>3. rxB' = B!AfterCts(r)
      BY <2>5 DEF r
    <3>4. OpenedBy(f, rxB')
      BY <3>1, <3>2, <3>3 DEF OpenedBy
    <3> QED
      BY <1>3, <2>1, <2>3, <3>1, <3>2, <3>3, <3>4 DEF TakesB, Receives, f
  <2> QED
    BY <2>2, <2>4, <2>5
<1>7. CASE B!RecvCF(f)
  <2> DEFINE r == B!AfterCf(f)
  <2>1. canRxB' = Tail(canRxB) /\ f.kind = "CF" /\ rxB.state = "ASSEM"
    BY <1>7 DEF B!RecvCF, B!Take
  <2>2. /\ r.state = "ASSEM" /\ r.total = rxB.total /\ r.filled = rxB.filled + Share(rxB, f)
        /\ r.acc = [msg |-> rxB.acc.msg, intact |-> Intact(rxB, f)]
        /\ DOMAIN r = DOMAIN rxB
    BY <1>2, <2>1 DEF B!AfterCf, B!Least, Share, Intact
  <2>3. \/ rxB' = B!IdleRx /\ \E x : sduTxB' = B!AfterRxAbort(x)
        \/ /\ r.filled >= r.total /\ rxB' = B!IdleRx
           /\ sduTxB' = B!OfferSdu(sduTxB, B!Received("phys", r.acc.msg, r.total, r.acc.intact))
        \/ /\ r.filled < r.total /\ (rxB' = r \/ rxB' = B!AfterCts(r))
           /\ sduTxB' = sduTxB
    BY <1>7 DEF B!RecvCF, B!RxAbort, B!EmitCts
  <2> HIDE DEF r
  <2>4. CASE rxB' = B!IdleRx /\ \E x : sduTxB' = B!AfterRxAbort(x)
    BY <1>1, <1>2, <1>3, <2>1, <2>4 DEF TakesB, Receives, f
  <2>5. CASE /\ r.filled >= r.total /\ rxB' = B!IdleRx
             /\ sduTxB' = B!OfferSdu(sduTxB, B!Received("phys", r.acc.msg, r.total, r.acc.intact))
    <3> DEFINE s == B!Received("phys", r.acc.msg, r.total, r.acc.intact)
    <3>1. IsMessage(s, rxB.acc.msg, rxB.total, Intact(rxB, f))
      BY <2>2 DEF B!Received, IsMessage
    <3>2. sduTxB' = sduTxB \/ sduTxB' = Append(sduTxB, s)
      BY <2>5 DEF B!OfferSdu
    <3>3. rxB.state # "IDLE" /\ rxB.filled + Share(rxB, f) >= rxB.total
      BY <2>1, <2>2, <2>5
    <3> HIDE DEF s
    <3>4. CASE sduTxB' = sduTxB
      BY <1>1, <1>2, <1>3, <2>1, <2>5, <3>4 DEF TakesB, Receives, f
    <3>5. CASE sduTxB' = Append(sduTxB, s)
      BY <1>1, <1>2, <1>3, <2>1, <2>5, <3>1, <3>3, <3>5 DEF TakesB, Receives, f
    <3> QED
      BY <3>2, <3>4, <3>5
  <2>6. CASE /\ r.filled < r.total /\ (rxB' = r \/ rxB' = B!AfterCts(r))
             /\ sduTxB' = sduTxB
    <3>1. r.state # "IDLE" /\ {"state", "left", "timer"} \subseteq DOMAIN r
      BY <1>2, <2>2
    <3>2. /\ B!AfterCts(r).state # "IDLE" /\ B!AfterCts(r).acc = r.acc
          /\ B!AfterCts(r).filled = r.filled /\ B!AfterCts(r).total = r.total
          /\ DOMAIN B!AfterCts(r) = DOMAIN r
      BY <3>1, GrantedB
    <3>3. /\ rxB'.state # "IDLE" /\ rxB'.acc = r.acc /\ rxB'.filled = r.filled
          /\ rxB'.total = r.total /\ DOMAIN rxB' = DOMAIN r
      BY <2>6, <3>1, <3>2
    <3>4. CopiedIn(rxB, f, rxB') /\ rxB'.filled < rxB'.total
      BY <2>2, <2>6, <3>3 DEF CopiedIn
    <3> QED
      BY <1>2, <1>3, <2>1, <2>2, <2>6, <3>3, <3>4 DEF TakesB, Receives, f
  <2> QED
    BY <2>3, <2>4, <2>5, <2>6
<1>8. CASE B!RecvFC(f)
  <2>1. canRxB' = Tail(canRxB) /\ rxB' = rxB /\ f.kind = "FC"
    BY <1>8 DEF B!RecvFC, B!Take
  <2>2. sduTxB' = sduTxB \/ \E x : sduTxB' = B!Report(sduTxB, B!TxEnded(x))
    BY <1>8 DEF B!RecvFC, B!TxEnd
  <2>3. Adds(sduTxB, sduTxB') /\ Stays(rxB, rxB') /\ ~Opening(f)
    BY <1>1, <2>1, <2>2 DEF Stays, Opening
  <2> QED
    BY <1>2, <1>3, <2>1, <2>3 DEF TakesB, Receives, f
<1>9. CASE B!Ignore(f)
  <2>1. canRxB' = Tail(canRxB) /\ rxB' = rxB /\ sduTxB' = sduTxB
    BY <1>9 DEF B!Ignore, B!Take
  <2>2. ~Opening(f)
    BY <1>4, <1>9 DEF B!Ignore, B!Ignored, Opening, Genuine
  <2>3. Stays(rxB, rxB')
    BY <2>1 DEF Stays
  <2> QED
    BY <1>1, <1>2, <1>3, <2>1, <2>2, <2>3 DEF TakesB, Receives, f
<1> QED
  BY <1>5, <1>6, <1>7, <1>8, <1>9 DEF B!Drain, f

(* A call in the direction it receives in.                                 *)
LEMMA ReceivesB ==
  ASSUME ShapeB, NEW M, sduTxB \in Seq(M), B!Process,
         NEW lens, canRxB # <<>> => /\ Genuine(lens, Head(canRxB))
                                    /\ Opening(Head(canRxB)) => lens[Head(canRxB).msg] \in Nat
  PROVE  /\ LeavesB \/ TakesB
         /\ {"state", "sn", "left", "total", "filled", "timer", "acc"} \subseteq DOMAIN rxB'
<1> DEFINE fields == {"state", "sn", "left", "total", "filled", "timer", "acc"}
<1>1. /\ \A v, x : Adds(sduTxB, v) => Adds(sduTxB, B!Report(v, B!TxEnded(x)))
      /\ \A x : Adds(sduTxB, B!AfterRxAbort(x))
      /\ Adds(sduTxB, sduTxB)
  BY PublishedB
<1>2. fields \subseteq DOMAIN rxB /\ fields \subseteq DOMAIN B!IdleRx /\ B!IdleRx.state = "IDLE"
  BY DEF ShapeB, B!IdleRx
<1>3. CASE B!Drain
  <2>1. canRxB # <<>>
    BY <1>3 DEF B!Drain
  <2> QED
    BY <1>3, <2>1, TakenB
<1>4. CASE B!Timers
  <2>1. /\ canRxB' = canRxB
        /\ rxB' = rxB \/ rxB' = B!IdleRx \/ (rxB.state = "FC_WAIT" /\ rxB' = B!AfterCts(rxB))
    BY <1>4 DEF B!Timers, B!EmitCts
  <2>2. RestsB /\ fields \subseteq DOMAIN rxB'
    <3>1. CASE rxB' = rxB
      BY <1>2, <3>1 DEF RestsB, Stays
    <3>2. CASE rxB' = B!IdleRx
      BY <1>2, <3>2 DEF RestsB
    <3>3. CASE rxB.state = "FC_WAIT" /\ rxB' = B!AfterCts(rxB)
      <4>1. {"state", "left", "timer"} \subseteq DOMAIN rxB /\ rxB.state # "IDLE"
        BY <1>2, <3>3
      <4> QED
        BY <1>2, <3>3, <4>1, GrantedB DEF RestsB, Stays
    <3> QED
      BY <2>1, <3>1, <3>2, <3>3
  <2>3. Adds(sduTxB, sduTxB')
    <3> DEFINE q == IF B!RxLate
                    THEN B!AfterRxAbort(IF rxB.state = "ASSEM" THEN "TIMEOUT_CR" ELSE "TIMEOUT_A")
                    ELSE sduTxB
    <3>1. Adds(sduTxB, q)
      BY <1>1
    <3>2. sduTxB' = q \/ \E x : sduTxB' = B!Report(q, B!TxEnded(x))
      BY <1>4 DEF B!Timers
    <3> HIDE DEF q
    <3> QED
      BY <1>1, <3>1, <3>2
  <2> QED
    BY <2>1, <2>2, <2>3 DEF LeavesB
<1>5. ASSUME canRxB' = canRxB, rxB' = rxB,
             sduTxB' = sduTxB \/ sduTxB' = B!Report(sduTxB, B!TxEnded("OK"))
      PROVE  LeavesB /\ fields \subseteq DOMAIN rxB'
  BY <1>1, <1>2, <1>5 DEF LeavesB, RestsB, Stays
<1>6. CASE B!Begin
  BY <1>5, <1>6 DEF B!Begin
<1>7. CASE B!StartSend
  BY <1>5, <1>7 DEF B!StartSend, B!OfferFirst, B!TxEnd
<1>8. CASE B!RetryFirst
  BY <1>5, <1>8 DEF B!RetryFirst, B!OfferFirst, B!TxEnd
<1>9. CASE B!SendCF
  BY <1>5, <1>9 DEF B!SendCF, B!TxEnd
<1>10. CASE B!EndCall
  BY <1>5, <1>10 DEF B!EndCall
<1>11. CASE B!Sample
  BY <1>5, <1>11 DEF B!Sample
<1> QED
  BY <1>3, <1>4, <1>6, <1>7, <1>8, <1>9, <1>10, <1>11 DEF B!Process

(* And in the direction it sends in.  The first frame of a request:        *)
LEMMA FirstB ==
  ASSUME NEW s, s.ta = "phys", s.len \in Nat \ {0}
  PROVE  LET f == B!FirstFrame(s) IN
         /\ IsFirst(f, s)
         /\ ~B!FitsSingle(s) => f.kind = "FF" /\ f.n = B!FfLoad(s.len) /\ f.n # 0
<1>0. FrameLen \in 8 .. 64
  BY LinkAssumption DEF LinkAssumption
<1>1. B!FfLoad(s.len) = FirstLoad(s.len) /\ FirstLoad(s.len) \in 2 .. 62
  BY Loads DEF B!FfLoad, FirstLoad
<1>2. CASE B!FitsSingle(s)
  BY <1>2 DEF B!FirstFrame, B!SF, IsFirst
<1>3. CASE ~B!FitsSingle(s)
  <2>1. B!SfCapacity < s.len
    BY <1>0, <1>3 DEF B!FitsSingle, B!SfCapacity
  <2>2. FirstLoad(s.len) < s.len
    BY <1>0, <2>1 DEF B!SfCapacity, FirstLoad
  <2>3. /\ B!FirstFrame(s) = B!FF("phys", s.msg, B!FfLoad(s.len), s.len, TRUE)
    BY <1>3 DEF B!FirstFrame
  <2>4. /\ B!FirstFrame(s).kind = "FF" /\ B!FirstFrame(s).addr = "phys"
        /\ B!FirstFrame(s).msg = s.msg /\ B!FirstFrame(s).n = B!FfLoad(s.len)
        /\ B!FirstFrame(s).total = s.len /\ B!FirstFrame(s).ok = TRUE
    BY <2>3 DEF B!FF
  <2> HIDE DEF B!FirstFrame
  <2>5. IsFirst(B!FirstFrame(s), s)
    BY <1>1, <2>2, <2>4 DEF IsFirst
  <2>6. B!FfLoad(s.len) # 0
    BY <1>1
  <2> QED
    BY <1>3, <2>4, <2>5, <2>6
<1> QED
  BY <1>2, <1>3

(* A first frame is offered, by a transmission that holds its request.     *)
LEMMA OffersFirstB ==
  ASSUME NEW t, NEW s, {"state", "sent", "sdu"} \subseteq DOMAIN t, t.sdu = s, t.sent = 0,
         s.ta = "phys", s.len \in Nat \ {0}, B!OfferFirst(t, s)
  PROVE  /\ {"state", "sent", "sdu"} \subseteq DOMAIN txB'
         /\ txB'.state \in {"SEND", "WAIT_FC"} => txB'.sent # 0
         /\ \A h : Held(h) /\ h.sdu = s /\ h.sent = 0 =>
              \/ GoesOn(h, txB') /\ canTxB' = canTxB
              \/ \E e : Emits(h, e, txB') /\ canTxB' = Append(canTxB, e)
<1> DEFINE f == B!FirstFrame(s)
<1>1. IsFirst(f, s) /\ (~B!FitsSingle(s) => f.kind = "FF" /\ f.n = B!FfLoad(s.len) /\ f.n # 0)
  BY FirstB
<1>2. \/ txB' = B!Hold(t) /\ canTxB' = canTxB
      \/ canTxB' = Append(canTxB, f) /\ txB' = B!IdleTx
      \/ /\ canTxB' = Append(canTxB, f) /\ ~B!FitsSingle(s)
         /\ txB' = [t EXCEPT !.state = "WAIT_FC", !.sent = B!FfLoad(s.len), !.gap = 0, !.timer = NBs]
  BY DEF B!OfferFirst, B!TxEnd
<1> HIDE DEF f
<1>3. CASE txB' = B!Hold(t) /\ canTxB' = canTxB
  <2>1. /\ txB'.state = "WAIT_LINK" /\ txB'.sdu = s /\ txB'.sent = 0
        /\ {"state", "sent", "sdu"} \subseteq DOMAIN txB'
    BY <1>3 DEF B!Hold
  <2> QED
    BY <1>3, <2>1 DEF GoesOn, Held
<1>4. CASE canTxB' = Append(canTxB, f) /\ txB' = B!IdleTx
  <2>1. txB'.state = "IDLE" /\ {"state", "sent", "sdu"} \subseteq DOMAIN txB'
    BY <1>4 DEF B!IdleTx
  <2>2. \A h : Held(h) /\ h.sdu = s /\ h.sent = 0 => Emits(h, f, txB')
    BY <1>1, <2>1 DEF Emits, Held, IsDue
  <2> QED
    BY <1>4, <2>1, <2>2
<1>5. CASE /\ canTxB' = Append(canTxB, f) /\ ~B!FitsSingle(s)
           /\ txB' = [t EXCEPT !.state = "WAIT_FC", !.sent = B!FfLoad(s.len), !.gap = 0, !.timer = NBs]
  <2>1. /\ {"state", "sent", "sdu"} \subseteq DOMAIN txB'
        /\ txB'.state = "WAIT_FC" /\ txB'.sdu = s /\ txB'.sent = B!FfLoad(s.len)
    BY <1>5
  <2>2. \A h : Held(h) /\ h.sdu = s /\ h.sent = 0 => Emits(h, f, txB')
    BY <1>1, <1>5, <2>1 DEF Emits, Held, IsDue
  <2> QED
    BY <1>1, <1>5, <2>1, <2>2
<1> QED
  BY <1>2, <1>3, <1>4, <1>5

LEMMA NextB ==
  ASSUME NEW n, NEW lens, txB.sdu = Asked(lens, n), lens[n] \in Nat, txB.sent \in Nat \ {0},
         txB.sent < lens[n], Held(txB)
  PROVE  /\ IsDue(B!NextCF, txB) /\ B!NextCF.kind = "CF"
         /\ txB.sent + B!Chunk < txB.sdu.len => B!Chunk = NextLoad
         /\ B!Chunk \in Nat \ {0}
<1> DEFINE left == txB.sdu.len - txB.sent
           k == Padded(Rest(left) + 1, PadFrames) - 1
<1>1. txB.sdu.len = lens[n] /\ txB.sdu.ta = "phys" /\ txB.sdu.len \in Nat
  BY DEF Asked
<1>2. left \in Nat \ {0}
  BY <1>1
<1>3. B!Chunk = Rest(left)
  <2>1. NextLoad \in Nat /\ B!CfLoad = NextLoad
    BY Loads DEF B!CfLoad, NextLoad
  <2> QED
    BY <1>2, <2>1 DEF B!Chunk, B!Least, Rest
<1>4. B!PaddedLen(B!Chunk + 1) - 1 = k
  <2>1. \A m : B!WireLen(m) = WireOf(m)
    BY DEF B!WireLen, WireOf
  <2> QED
    BY <1>3, <2>1 DEF B!PaddedLen, Padded
<1>5. /\ k \in 1 .. NextLoad /\ (k < left => k = NextLoad)
      /\ Rest(left) \in 1 .. NextLoad /\ (Rest(left) < left => Rest(left) = NextLoad)
  BY <1>2, NextCarries
<1> HIDE DEF k
<1>6. B!NextCF = B!CF("phys", txB.sdu.msg, txB.sent, k, txB.sn)
  BY <1>1, <1>4 DEF B!NextCF
<1>7. /\ B!NextCF.kind = "CF" /\ B!NextCF.msg = txB.sdu.msg /\ B!NextCF.off = txB.sent
      /\ B!NextCF.n = k
  BY <1>6 DEF B!CF
<1> HIDE DEF B!NextCF
<1>8. txB.sent + k < txB.sdu.len => k = NextLoad
  BY <1>1, <1>5, Loads
<1>9. IsDue(B!NextCF, txB)
  BY <1>5, <1>7, <1>8 DEF IsDue, IsNext
<1>10. txB.sent + B!Chunk < txB.sdu.len => B!Chunk = NextLoad
  BY <1>1, <1>3, <1>5, Loads
<1> QED
  BY <1>3, <1>5, <1>7, <1>9, <1>10, Loads

LEMMA SendsB ==
  ASSUME ShapeB, B!Process, NEW lens, NEW n, SenderOk(lens, n, txB, sduRxB)
  PROVE  /\ Sends(txB, sduRxB, canTxB, txB', sduRxB', canTxB')
         /\ {"state", "sent", "sdu"} \subseteq DOMAIN txB'
         /\ txB'.state \in {"SEND", "WAIT_FC"} => txB'.sent # 0
<1> DEFINE fields == {"state", "sent", "sdu"}
           Kept(t) == fields \subseteq DOMAIN t /\ (t.state \in {"SEND", "WAIT_FC"} => t.sent # 0)
<1>1. Kept(txB) /\ Kept(B!IdleTx) /\ ~Held(B!IdleTx)
  BY DEF ShapeB, B!IdleTx, Held
<1>2. Held(txB) => /\ txB.sdu = Asked(lens, n) /\ n >= 1 /\ lens[n] \in Nat \ {0}
                   /\ txB.sent # 0 => txB.sent \in Nat /\ txB.sent < lens[n]
  <2>1. n \in Nat /\ \A k \in 1 .. n : lens[k] \in Nat \ {0}
    BY Lengths
  <2> QED
    BY <2>1 DEF SenderOk
(* The request stays, and what is done with it changes.                    *)
<1>3. ASSUME sduRxB' = sduRxB, GoesOn(txB, txB'), Kept(txB'),
             canTxB' = canTxB \/ \E c : c.kind = "FC" /\ canTxB' = Append(canTxB, c)
      PROVE  Sends(txB, sduRxB, canTxB, txB', sduRxB', canTxB') /\ Kept(txB')
  BY <1>3 DEF Sends, Fetches
<1>4. ASSUME txB' = txB \/ txB' = B!IdleTx PROVE GoesOn(txB, txB') /\ Kept(txB')
  BY <1>1, <1>4 DEF GoesOn
<1>5. CASE B!Begin
  BY <1>3, <1>4, <1>5 DEF B!Begin
<1>6. CASE B!EndCall
  BY <1>3, <1>4, <1>6 DEF B!EndCall
<1>12. CASE B!Sample
  <2>1. /\ canTxB' = canTxB /\ sduRxB' = sduRxB
        /\ txB' = [txB EXCEPT !.gap = 0]
    BY <1>12 DEF B!Sample
  <2>2. /\ txB'.state = txB.state /\ txB'.sdu = txB.sdu /\ txB'.sent = txB.sent
        /\ fields \subseteq DOMAIN txB'
    BY <1>1, <2>1
  <2>3. GoesOn(txB, txB') /\ Kept(txB')
    BY <1>1, <2>2 DEF GoesOn, Held
  <2> QED
    BY <1>3, <2>1, <2>3
<1>7. CASE B!Drain
  <2> DEFINE f == Head(canRxB)
  <2>1. sduRxB' = sduRxB
    BY <1>7 DEF B!Drain, B!RecvSF, B!RecvFF, B!RecvCF, B!RecvFC, B!Ignore, B!Take
  <2>2. canTxB' = canTxB \/ \E c : c.kind = "FC" /\ canTxB' = B!OfferFrame(c)
    <3>1. \A x, a, b : B!FC("phys", x, a, b, TRUE).kind = "FC"
      BY DEF B!FC
    <3>2. CASE B!RecvSF(f) \/ B!RecvFC(f) \/ B!Ignore(f)
      BY <3>2 DEF B!RecvSF, B!RecvFC, B!Ignore
    <3>3. CASE B!RecvFF(f)
      BY <3>1, <3>3 DEF B!RecvFF, B!EmitCts
    <3>4. CASE B!RecvCF(f)
      BY <3>1, <3>4 DEF B!RecvCF, B!EmitCts
    <3> QED
      BY <1>7, <3>2, <3>3, <3>4 DEF B!Drain
  <2>3. canTxB' = canTxB \/ \E c : c.kind = "FC" /\ canTxB' = Append(canTxB, c)
    BY <2>2, OfferedB
  <2>4. GoesOn(txB, txB') /\ Kept(txB')
    <3>1. CASE B!RecvSF(f) \/ B!RecvFF(f) \/ B!RecvCF(f) \/ B!Ignore(f)
      <4>1. txB' = txB
        BY <3>1 DEF B!RecvSF, B!RecvFF, B!RecvCF, B!Ignore
      <4> QED
        BY <1>4, <4>1
    <3>2. CASE B!RecvFC(f)
      <4>1. \/ txB' = B!IdleTx
            \/ txB' = [txB EXCEPT !.wft = (txB.wft + 1) % 256, !.timer = NBs]
            \/ txB' = [txB EXCEPT !.state = "SEND", !.wft = 0, !.bs = f.bs,
                                  !.stmin = B!StminTicks(f.stmin), !.timer = 0]
        BY <3>2 DEF B!RecvFC, B!TxEnd
      <4>2. txB.state = "WAIT_FC"
        BY <3>2 DEF B!RecvFC
      <4>3. txB' # B!IdleTx =>
              /\ fields \subseteq DOMAIN txB' /\ txB'.sdu = txB.sdu /\ txB'.sent = txB.sent
              /\ txB'.state \in {"SEND", "WAIT_FC"}
        BY <1>1, <4>1, <4>2
      <4> QED
        BY <1>1, <1>4, <4>2, <4>3 DEF GoesOn, Held
    <3> QED
      BY <1>7, <3>1, <3>2 DEF B!Drain
  <2> QED
    BY <1>3, <2>1, <2>3, <2>4
<1>8. CASE B!Timers
  <2>1. sduRxB' = sduRxB /\ (txB' = txB \/ txB' = B!IdleTx)
    BY <1>8 DEF B!Timers
  <2>2. canTxB' = canTxB \/ \E c : c.kind = "FC" /\ canTxB' = B!OfferFrame(c)
    <3>1. \A x, a, b : B!FC("phys", x, a, b, TRUE).kind = "FC"
      BY DEF B!FC
    <3> QED
      BY <1>8, <3>1 DEF B!Timers, B!EmitCts
  <2>3. canTxB' = canTxB \/ \E c : c.kind = "FC" /\ canTxB' = Append(canTxB, c)
    BY <2>2, OfferedB
  <2> QED
    BY <1>3, <1>4, <2>1, <2>3
<1>9. CASE B!StartSend
  <2> DEFINE s == Head(sduRxB)
             t == [B!IdleTx EXCEPT !.sn = 1, !.sdu = s]
             h == [state |-> "WAIT_LINK", sdu |-> s, sent |-> 0]
  <2>1. /\ txB.state = "IDLE" /\ sduRxB # <<>> /\ sduRxB' = Tail(sduRxB) /\ B!OfferFirst(t, s)
    BY <1>9 DEF B!StartSend
  <2>2. s.ta = "phys" /\ s.len \in Nat \ {0}
    <3>1. /\ lens \in Seq(Nat \ {0}) /\ n \in 0 .. Len(lens) /\ n + Len(sduRxB) <= Len(lens)
          /\ \A x \in DOMAIN sduRxB : sduRxB[x] = Asked(lens, n + x)
      BY DEF SenderOk
    <3>2. PICK M : sduRxB \in Seq(M)
      BY DEF SenderOk
    <3>3. 1 \in DOMAIN sduRxB /\ s = sduRxB[1] /\ Len(sduRxB) >= 1 /\ Len(sduRxB) \in Nat
      BY <2>1, <3>2
    <3>4. s = Asked(lens, n + 1) /\ lens[n + 1] \in Nat \ {0}
      BY <3>1, <3>3
    <3> HIDE DEF s
    <3> QED
      BY <3>4 DEF Asked
  <2>3. fields \subseteq DOMAIN t /\ t.sdu = s /\ t.sent = 0
    BY DEF B!IdleTx
  <2>4. Held(h) /\ h.sdu = s /\ h.sent = 0
    BY DEF Held
  <2> HIDE DEF t, h
  <2>5. /\ Kept(txB')
        /\ \/ GoesOn(h, txB') /\ canTxB' = canTxB
           \/ \E e : Emits(h, e, txB') /\ canTxB' = Append(canTxB, e)
    BY <2>1, <2>2, <2>3, <2>4, OffersFirstB
  <2>6. Fetches(txB, sduRxB, h, sduRxB')
    BY <2>1, <2>4 DEF Fetches, Held
  <2> QED
    BY <2>5, <2>6 DEF Sends
<1>10. CASE B!RetryFirst
  <2>1. /\ Held(txB) /\ txB.sent = 0 /\ sduRxB' = sduRxB /\ B!OfferFirst(txB, txB.sdu)
    BY <1>10 DEF B!RetryFirst, Held
  <2>2. txB.sdu.ta = "phys" /\ txB.sdu.len \in Nat \ {0}
    BY <1>2, <2>1 DEF Asked
  <2>3. fields \subseteq DOMAIN txB
    BY <1>1
  <2>4. /\ Kept(txB')
        /\ \/ GoesOn(txB, txB') /\ canTxB' = canTxB
           \/ \E e : Emits(txB, e, txB') /\ canTxB' = Append(canTxB, e)
    BY <2>1, <2>2, <2>3, OffersFirstB
  <2>5. Fetches(txB, sduRxB, txB, sduRxB')
    BY <2>1 DEF Fetches
  <2> QED
    BY <2>4, <2>5 DEF Sends
<1>11. CASE B!SendCF
  <2>1. /\ Held(txB) /\ txB.sent # 0 /\ sduRxB' = sduRxB
        /\ txB.state \in {"WAIT_LINK", "SEND"}
    <3>1. txB.state \in {"WAIT_LINK", "SEND"} /\ (txB.state = "WAIT_LINK" => txB.sent > 0)
      BY <1>11 DEF B!SendCF, B!FrameInHand
    <3> QED
      BY <1>1, <1>11, <3>1 DEF B!SendCF, Held
  <2>2. /\ IsDue(B!NextCF, txB) /\ B!NextCF.kind = "CF"
        /\ txB.sent + B!Chunk < txB.sdu.len => B!Chunk = NextLoad
        /\ B!Chunk \in Nat \ {0} /\ txB.sent \in Nat \ {0}
    <3>1. /\ txB.sdu = Asked(lens, n) /\ lens[n] \in Nat /\ txB.sent \in Nat \ {0} /\ txB.sent < lens[n]
      BY <1>2, <2>1
    <3> QED
      BY <2>1, <3>1, NextB
  <2>3. \/ txB' = B!Hold(txB) /\ canTxB' = canTxB
        \/ txB' = B!IdleTx /\ canTxB' = Append(canTxB, B!NextCF)
        \/ /\ canTxB' = Append(canTxB, B!NextCF) /\ txB.sent + B!Chunk < txB.sdu.len
           /\ fields \subseteq DOMAIN txB' /\ txB'.sdu = txB.sdu /\ txB'.sent = txB.sent + B!Chunk
    <3> HIDE DEF B!NextCF, B!Chunk
    <3> QED
      BY <1>1, <1>11 DEF B!SendCF, B!TxEnd
  <2> HIDE DEF B!NextCF, B!Chunk
  <2>4. CASE txB' = B!Hold(txB) /\ canTxB' = canTxB
    <3>1. txB'.sdu = txB.sdu /\ txB'.sent = txB.sent /\ fields \subseteq DOMAIN txB'
      BY <1>1, <2>4 DEF B!Hold
    <3>2. GoesOn(txB, txB') /\ Kept(txB')
      BY <2>1, <3>1 DEF GoesOn
    <3> QED
      BY <1>3, <2>1, <2>4, <3>2
  <2>5. CASE txB' = B!IdleTx /\ canTxB' = Append(canTxB, B!NextCF)
    <3>1. Emits(txB, B!NextCF, txB')
      BY <1>1, <2>1, <2>2, <2>5 DEF Emits
    <3>2. Fetches(txB, sduRxB, txB, sduRxB')
      BY <2>1 DEF Fetches
    <3> QED
      BY <1>1, <2>5, <3>1, <3>2 DEF Sends
  <2>6. CASE /\ canTxB' = Append(canTxB, B!NextCF) /\ txB.sent + B!Chunk < txB.sdu.len
             /\ fields \subseteq DOMAIN txB' /\ txB'.sdu = txB.sdu /\ txB'.sent = txB.sent + B!Chunk
    <3>1. txB'.sent = txB.sent + NextLoad /\ txB'.sent < txB.sdu.len /\ txB'.sent # 0
      BY <2>2, <2>6
    <3>2. Emits(txB, B!NextCF, txB')
      BY <2>1, <2>2, <2>6, <3>1 DEF Emits
    <3>3. Fetches(txB, sduRxB, txB, sduRxB')
      BY <2>1 DEF Fetches
    <3> QED
      BY <2>6, <3>1, <3>2, <3>3 DEF Sends
  <2> QED
    BY <2>3, <2>4, <2>5, <2>6
<1> QED
  BY <1>5, <1>6, <1>7, <1>8, <1>9, <1>10, <1>11, <1>12 DEF B!Process

-----------------------------------------------------------------------------
(* Both directions.                                                        *)
DirAB == Dir(LensA, askedA - Len(sduRxA), txA, sduRxA, canRxB \o canTxA, rxB, sduTxB, gotB)
DirBA == Dir(LensB, askedB - Len(sduRxB), txB, sduRxB, canRxA \o canTxB, rxA, sduTxA, gotA)

LinkInv ==
  /\ ShapeA /\ ShapeB
  /\ askedA \in Nat /\ askedB \in Nat
  /\ DirAB /\ DirBA

LEMMA DirStarts ==
  ASSUME NEW lens \in Seq(Nat \ {0}), NEW t, ~Held(t), NEW r, r.state = "IDLE"
  PROVE  Dir(lens, 0, t, <<>>, <<>>, r, <<>>, <<>>)
<1>1. SenderOk(lens, 0, t, <<>>)
  <2>1. Len(lens) \in Nat /\ <<>> \in Seq({}) /\ Len(<<>>) = 0
    OBVIOUS
  <2> QED
    BY <2>1 DEF SenderOk
<1>2. ReceiverOk(lens, 0, r, <<>>, <<>>)
  BY DEF ReceiverOk
<1>3. WireOk(lens, 0, t, <<>>, r, <<>>, <<>>)
  BY DEF WireOk
<1>4. UpperOk(lens, 0, <<>>, <<>>)
  <2>1. <<>> \in Seq({})
    OBVIOUS
  <2> QED
    BY <2>1 DEF UpperOk, Latest
<1> QED
  BY <1>1, <1>2, <1>3, <1>4 DEF Dir

LEMMA LinkStarts == Init => LinkInv
<1> SUFFICES ASSUME Init PROVE LinkInv
  OBVIOUS
<1>1. /\ rxA = A!IdleRx /\ txA = A!IdleTx /\ canRxA = <<>> /\ canTxA = <<>>
      /\ sduRxA = <<>> /\ sduTxA = <<>> /\ roomA = "any" /\ askedA = 0 /\ gotA = <<>>
      /\ rxB = B!IdleRx /\ txB = B!IdleTx /\ canRxB = <<>> /\ canTxB = <<>>
      /\ sduRxB = <<>> /\ sduTxB = <<>> /\ roomB = "any" /\ askedB = 0 /\ gotB = <<>>
  BY DEF Init, A!Init, B!Init
<1>2. rxA.state = "IDLE" /\ ~Held(txA) /\ rxB.state = "IDLE" /\ ~Held(txB)
  BY <1>1 DEF A!IdleRx, A!IdleTx, B!IdleRx, B!IdleTx, Held
<1>3. <<>> \in Seq({}) /\ <<>> \o <<>> = <<>> /\ 0 - Len(<<>>) = 0
  <2>1. \A s \in Seq({}) : s \o <<>> \in Seq({}) /\ Len(s \o <<>>) = Len(s)
    OBVIOUS
  <2>2. <<>> \in Seq({}) /\ Len(<<>>) = 0
    OBVIOUS
  <2>3. \A s \in Seq({}) : Len(s) = 0 => s = <<>>
    OBVIOUS
  <2>4. <<>> \o <<>> = <<>>
    BY <2>1, <2>2, <2>3
  <2>5. \A k : k = 0 => 0 - k = 0
    OBVIOUS
  <2>6. 0 - Len(<<>>) = 0
    BY ONLY <2>2, <2>5
  <2> QED
    BY <2>2, <2>4, <2>6
<1>4. ShapeA
  BY <1>1, <1>3 DEF ShapeA, A!IdleRx, A!IdleTx
<1>5. ShapeB
  BY <1>1, <1>3 DEF ShapeB, B!IdleRx, B!IdleTx
<1>6. LensA \in Seq(Nat \ {0}) /\ LensB \in Seq(Nat \ {0})
  BY LinkAssumption DEF LinkAssumption
<1>7. /\ Dir(LensA, 0, txA, <<>>, <<>>, rxB, <<>>, <<>>)
      /\ Dir(LensB, 0, txB, <<>>, <<>>, rxA, <<>>, <<>>)
  BY <1>2, <1>6, DirStarts
<1>8. DirAB /\ DirBA
  BY ONLY <1>1, <1>3, <1>7 DEF DirAB, DirBA
<1> QED
  BY <1>1, <1>4, <1>5, <1>8 DEF LinkInv

(* What a sender's step leaves in its queue is still a queue.              *)
LEMMA SendsTyped ==
  ASSUME NEW t, NEW q, NEW o, NEW t2, NEW q2, NEW o2, Sends(t, q, o, t2, q2, o2),
         NEW M, o \in Seq(M)
  PROVE  \E N : o2 \in Seq(N)
<1>1. o2 = o \/ \E e : o2 = Append(o, e)
  BY DEF Sends
<1>2. CASE o2 = o
  BY <1>2
<1>3. ASSUME NEW e, o2 = Append(o, e) PROVE o2 \in Seq(M \cup {e})
  <2>1. o \in Seq(M \cup {e})
    OBVIOUS
  <2> QED
    BY <1>3, <2>1
<1> QED
  BY <1>1, <1>2, <1>3

(* The frame in front is a genuine one.                                    *)
LEMMA FrontFits ==
  ASSUME NEW lens, NEW n, NEW t, NEW q, NEW i, NEW o, NEW r, NEW u, NEW g,
         Dir(lens, n, t, q, i \o o, r, u, g), NEW M, i \in Seq(M), o \in Seq(M), i # <<>>
  PROVE  /\ Genuine(lens, Head(i)) /\ (Opening(Head(i)) => lens[Head(i).msg] \in Nat)
         /\ i \o o \in Seq(M) /\ i \o o # <<>>
         /\ Head(i \o o) = Head(i) /\ Tail(i \o o) = Tail(i) \o o
<1>1. /\ i \o o \in Seq(M) /\ i \o o # <<>> /\ Head(i \o o) = Head(i) /\ Tail(i \o o) = Tail(i) \o o
      /\ (i \o o)[1] = Head(i) /\ 1 \in 1 .. Len(i \o o)
  <2>1. /\ Len(i) \in Nat \ {0} /\ Len(o) \in Nat /\ i \o o \in Seq(M)
        /\ Len(i \o o) = Len(i) + Len(o)
    OBVIOUS
  <2>2. 1 \in 1 .. Len(i \o o) /\ i \o o # <<>>
    BY <2>1
  <2>3. (i \o o)[1] = i[1] /\ Head(i) = i[1] /\ Head(i \o o) = (i \o o)[1]
    BY <2>1, <2>2
  <2>4. Tail(i \o o) = Tail(i) \o o
    <3> DEFINE v == Tail(i \o o)
               w == Tail(i) \o o
    <3>1. v \in Seq(M) /\ w \in Seq(M) /\ Len(v) = Len(i) + Len(o) - 1 /\ Len(w) = Len(i) - 1 + Len(o)
      BY <2>1, <2>2
    <3>2. ASSUME NEW k \in 1 .. Len(v) PROVE v[k] = w[k]
      BY <2>1, <3>1
    <3> HIDE DEF v, w
    <3>3. Len(v) = Len(w)
      BY <2>1, <3>1
    <3>4. v = w
      BY <3>1, <3>2, <3>3
    <3> QED
      BY <3>4 DEF v, w
  <2> QED
    BY <2>1, <2>2, <2>3, <2>4
<1>2. Fits(lens, n, Ahead(i \o o, 1), Head(i), r, u, g)
  BY <1>1 DEF Dir, WireOk
<1>3. n \in Nat /\ \A k \in 1 .. n : lens[k] \in Nat \ {0}
  BY Lengths DEF Dir
<1> QED
  BY <1>1, <1>2, <1>3 DEF Fits, Opening, Carrying

(* A frame changes hands.                                                  *)
LEMMA Carried ==
  ASSUME NEW M, NEW i \in Seq(M), NEW o \in Seq(M), o # <<>>
  PROVE  /\ Tail(o) \in Seq(M) /\ Append(i, Head(o)) \in Seq(M)
         /\ Append(i, Head(o)) \o Tail(o) = i \o o
<1>1. /\ Len(i) \in Nat /\ Len(o) \in Nat \ {0} /\ Tail(o) \in Seq(M) /\ Head(o) \in M
      /\ Len(Tail(o)) = Len(o) - 1 /\ Append(i, Head(o)) \in Seq(M)
  OBVIOUS
<1> DEFINE a == Append(i, Head(o))
           v == a \o Tail(o)
           w == i \o o
<1>2. /\ v \in Seq(M) /\ w \in Seq(M) /\ Len(v) = Len(i) + Len(o) /\ Len(w) = Len(i) + Len(o)
  BY <1>1
<1>3. ASSUME NEW k \in 1 .. Len(i) + Len(o) PROVE v[k] = w[k]
  BY <1>1
<1> HIDE DEF v, w
<1>4. v = w
  BY <1>2, <1>3
<1> QED
  BY <1>1, <1>4 DEF v, w

(* A runs, B rests.                                                        *)
SameB ==
  /\ rxB' = rxB /\ txB' = txB /\ canRxB' = canRxB /\ canTxB' = canTxB
  /\ sduRxB' = sduRxB /\ sduTxB' = sduTxB /\ roomB' = roomB
  /\ askedB' = askedB /\ gotB' = gotB

LEMMA SameShapeB == ShapeB /\ SameB => ShapeB'
  BY DEF ShapeB, SameB

LEMMA RunsA == LinkInv /\ ProcessA => LinkInv'
<1> SUFFICES ASSUME LinkInv, ProcessA PROVE LinkInv'
  OBVIOUS
<1>1. /\ A!Process /\ askedA' = askedA /\ gotA' = gotA /\ SameB
  BY DEF ProcessA, nodeB, seenA, seenB, SameB
<1>2. ShapeA /\ ShapeB /\ askedA \in Nat /\ askedB \in Nat /\ DirAB /\ DirBA
  BY DEF LinkInv
<1>3. PICK M1 : canRxA \in Seq(M1)
  BY <1>2 DEF ShapeA
<1>4. PICK M2 : canTxA \in Seq(M2)
  BY <1>2 DEF ShapeA
<1>5. PICK M3 : canRxB \in Seq(M3)
  BY <1>2 DEF ShapeB
<1>6. PICK M4 : canTxB \in Seq(M4)
  BY <1>2 DEF ShapeB
<1> DEFINE M == M1 \cup M2 \cup M3 \cup M4
<1>7. canRxA \in Seq(M) /\ canTxA \in Seq(M) /\ canRxB \in Seq(M) /\ canTxB \in Seq(M)
  BY <1>3, <1>4, <1>5, <1>6
<1> HIDE DEF M
<1>8. SenderOk(LensA, askedA - Len(sduRxA), txA, sduRxA)
  BY <1>2 DEF DirAB, Dir
<1>9. /\ Sends(txA, sduRxA, canTxA, txA', sduRxA', canTxA')
      /\ {"state", "sent", "sdu"} \subseteq DOMAIN txA'
      /\ txA'.state \in {"SEND", "WAIT_FC"} => txA'.sent # 0
  BY <1>1, <1>2, <1>8, SendsA
<1>10. PICK N : sduTxA \in Seq(N)
  BY <1>2 DEF DirBA, Dir, UpperOk
<1>11. canRxA # <<>> => /\ Genuine(LensB, Head(canRxA))
                        /\ Opening(Head(canRxA)) => LensB[Head(canRxA).msg] \in Nat
  BY <1>2, <1>7, FrontFits DEF DirBA
<1>12. /\ LeavesA \/ TakesA
       /\ {"state", "sn", "left", "total", "filled", "timer", "acc"} \subseteq DOMAIN rxA'
  BY <1>1, <1>2, <1>10, <1>11, ReceivesA
<1>13. DirAB'
  <2>1. /\ Len(sduRxA) \in Nat /\ Len(sduRxA') \in Nat
    <3>1. PICK K : sduRxA \in Seq(K)
      BY <1>8 DEF SenderOk
    <3>2. sduRxA' = sduRxA \/ (sduRxA # <<>> /\ sduRxA' = Tail(sduRxA))
      BY <1>9 DEF Sends, Fetches
    <3> QED
      BY <3>1, <3>2
  <2> DEFINE n == askedA - Len(sduRxA)
  <2>2. n + Len(sduRxA) - Len(sduRxA') = askedA - Len(sduRxA')
    BY <1>2, <2>1
  <2>3. Dir(LensA, n + Len(sduRxA) - Len(sduRxA'), txA', sduRxA', canRxB \o canTxA', rxB, sduTxB, gotB)
    BY <1>2, <1>7, <1>9, DirSends DEF DirAB
  <2> HIDE DEF n
  <2>4. Dir(LensA, askedA - Len(sduRxA'), txA', sduRxA', canRxB \o canTxA', rxB, sduTxB, gotB)
    BY <2>2, <2>3
  <2> QED
    BY <1>1, <2>4 DEF DirAB, SameB
<1>14. DirBA'
  <2> DEFINE n == askedB - Len(sduRxB)
  <2>1. Dir(LensB, n, txB, sduRxB, canRxA \o canTxB, rxA, sduTxA, gotA)
    BY <1>2 DEF DirBA
  <2> HIDE DEF n
  <2>2. CASE LeavesA
    <3>1. Dir(LensB, n, txB, sduRxB, canRxA \o canTxB, rxA', sduTxA', gotA)
      BY <2>1, <2>2, DirRests DEF LeavesA, RestsA
    <3> QED
      BY <1>1, <2>2, <3>1 DEF DirBA, SameB, LeavesA, n
  <2>3. CASE TakesA
    <3>1. canRxA # <<>> /\ canRxA' = Tail(canRxA)
          /\ Receives(Head(canRxA), rxA, sduTxA, rxA', sduTxA')
      BY <2>3 DEF TakesA
    <3>2. /\ canRxA \o canTxB \in Seq(M) /\ canRxA \o canTxB # <<>>
          /\ Head(canRxA \o canTxB) = Head(canRxA)
          /\ Tail(canRxA \o canTxB) = Tail(canRxA) \o canTxB
      BY <1>7, <2>1, <3>1, FrontFits
    <3> DEFINE w == canRxA \o canTxB
    <3>3. Receives(Head(w), rxA, sduTxA, rxA', sduTxA')
      BY <3>1, <3>2
    <3>4. w \in Seq(M) /\ w # <<>> /\ Dir(LensB, n, txB, sduRxB, w, rxA, sduTxA, gotA)
      BY <2>1, <3>2
    <3>5. Tail(w) = canRxA' \o canTxB
      BY <3>1, <3>2
    <3> HIDE DEF w
    <3>6. Dir(LensB, n, txB, sduRxB, Tail(w), rxA', sduTxA', gotA)
      BY <3>3, <3>4, DirTakes
    <3> QED
      BY <1>1, <3>5, <3>6 DEF DirBA, SameB, n
  <2> QED
    BY <1>12, <2>2, <2>3
<1>15. ShapeA'
  <2>1. roomA' = roomA
    BY <1>1 DEF A!Process, A!Begin, A!Drain, A!RecvSF, A!RecvFF, A!RecvCF, A!RecvFC, A!Ignore,
                A!Take, A!Timers, A!StartSend, A!RetryFirst, A!Sample, A!SendCF, A!EndCall
  <2>2. \E K : canTxA' \in Seq(K)
    BY <1>7, <1>9, SendsTyped
  <2>3. canRxA' \in Seq(M)
    <3>1. canRxA' = canRxA \/ (canRxA # <<>> /\ canRxA' = Tail(canRxA))
      BY <1>12 DEF LeavesA, TakesA
    <3>2. canRxA # <<>> => Tail(canRxA) \in Seq(M)
      BY <1>7
    <3> QED
      BY ONLY <1>7, <3>1, <3>2
  <2> QED
    BY <1>2, <1>9, <1>12, <2>1, <2>2, <2>3 DEF ShapeA
<1> QED
  BY <1>1, <1>2, <1>13, <1>14, <1>15, SameShapeB DEF LinkInv, SameB

(* B runs, A rests.                                                        *)
SameA ==
  /\ rxA' = rxA /\ txA' = txA /\ canRxA' = canRxA /\ canTxA' = canTxA
  /\ sduRxA' = sduRxA /\ sduTxA' = sduTxA /\ roomA' = roomA
  /\ askedA' = askedA /\ gotA' = gotA

LEMMA SameShapeA == ShapeA /\ SameA => ShapeA'
  BY DEF ShapeA, SameA

LEMMA RunsB == LinkInv /\ ProcessB => LinkInv'
<1> SUFFICES ASSUME LinkInv, ProcessB PROVE LinkInv'
  OBVIOUS
<1>1. /\ B!Process /\ askedB' = askedB /\ gotB' = gotB /\ SameA
  BY DEF ProcessB, nodeA, seenB, seenA, SameA
<1>2. ShapeB /\ ShapeA /\ askedB \in Nat /\ askedA \in Nat /\ DirBA /\ DirAB
  BY DEF LinkInv
<1>3. PICK M1 : canRxB \in Seq(M1)
  BY <1>2 DEF ShapeB
<1>4. PICK M2 : canTxB \in Seq(M2)
  BY <1>2 DEF ShapeB
<1>5. PICK M3 : canRxA \in Seq(M3)
  BY <1>2 DEF ShapeA
<1>6. PICK M4 : canTxA \in Seq(M4)
  BY <1>2 DEF ShapeA
<1> DEFINE M == M1 \cup M2 \cup M3 \cup M4
<1>7. canRxB \in Seq(M) /\ canTxB \in Seq(M) /\ canRxA \in Seq(M) /\ canTxA \in Seq(M)
  BY <1>3, <1>4, <1>5, <1>6
<1> HIDE DEF M
<1>8. SenderOk(LensB, askedB - Len(sduRxB), txB, sduRxB)
  BY <1>2 DEF DirBA, Dir
<1>9. /\ Sends(txB, sduRxB, canTxB, txB', sduRxB', canTxB')
      /\ {"state", "sent", "sdu"} \subseteq DOMAIN txB'
      /\ txB'.state \in {"SEND", "WAIT_FC"} => txB'.sent # 0
  BY <1>1, <1>2, <1>8, SendsB
<1>10. PICK N : sduTxB \in Seq(N)
  BY <1>2 DEF DirAB, Dir, UpperOk
<1>11. canRxB # <<>> => /\ Genuine(LensA, Head(canRxB))
                        /\ Opening(Head(canRxB)) => LensA[Head(canRxB).msg] \in Nat
  BY <1>2, <1>7, FrontFits DEF DirAB
<1>12. /\ LeavesB \/ TakesB
       /\ {"state", "sn", "left", "total", "filled", "timer", "acc"} \subseteq DOMAIN rxB'
  BY <1>1, <1>2, <1>10, <1>11, ReceivesB
<1>13. DirBA'
  <2>1. /\ Len(sduRxB) \in Nat /\ Len(sduRxB') \in Nat
    <3>1. PICK K : sduRxB \in Seq(K)
      BY <1>8 DEF SenderOk
    <3>2. sduRxB' = sduRxB \/ (sduRxB # <<>> /\ sduRxB' = Tail(sduRxB))
      BY <1>9 DEF Sends, Fetches
    <3> QED
      BY <3>1, <3>2
  <2> DEFINE n == askedB - Len(sduRxB)
  <2>2. n + Len(sduRxB) - Len(sduRxB') = askedB - Len(sduRxB')
    BY <1>2, <2>1
  <2>3. Dir(LensB, n + Len(sduRxB) - Len(sduRxB'), txB', sduRxB', canRxA \o canTxB', rxA, sduTxA, gotA)
    BY <1>2, <1>7, <1>9, DirSends DEF DirBA
  <2> HIDE DEF n
  <2>4. Dir(LensB, askedB - Len(sduRxB'), txB', sduRxB', canRxA \o canTxB', rxA, sduTxA, gotA)
    BY <2>2, <2>3
  <2> QED
    BY <1>1, <2>4 DEF DirBA, SameA
<1>14. DirAB'
  <2> DEFINE n == askedA - Len(sduRxA)
  <2>1. Dir(LensA, n, txA, sduRxA, canRxB \o canTxA, rxB, sduTxB, gotB)
    BY <1>2 DEF DirAB
  <2> HIDE DEF n
  <2>2. CASE LeavesB
    <3>1. Dir(LensA, n, txA, sduRxA, canRxB \o canTxA, rxB', sduTxB', gotB)
      BY <2>1, <2>2, DirRests DEF LeavesB, RestsB
    <3> QED
      BY <1>1, <2>2, <3>1 DEF DirAB, SameA, LeavesB, n
  <2>3. CASE TakesB
    <3>1. canRxB # <<>> /\ canRxB' = Tail(canRxB)
          /\ Receives(Head(canRxB), rxB, sduTxB, rxB', sduTxB')
      BY <2>3 DEF TakesB
    <3>2. /\ canRxB \o canTxA \in Seq(M) /\ canRxB \o canTxA # <<>>
          /\ Head(canRxB \o canTxA) = Head(canRxB)
          /\ Tail(canRxB \o canTxA) = Tail(canRxB) \o canTxA
      BY <1>7, <2>1, <3>1, FrontFits
    <3> DEFINE w == canRxB \o canTxA
    <3>3. Receives(Head(w), rxB, sduTxB, rxB', sduTxB')
      BY <3>1, <3>2
    <3>4. w \in Seq(M) /\ w # <<>> /\ Dir(LensA, n, txA, sduRxA, w, rxB, sduTxB, gotB)
      BY <2>1, <3>2
    <3>5. Tail(w) = canRxB' \o canTxA
      BY <3>1, <3>2
    <3> HIDE DEF w
    <3>6. Dir(LensA, n, txA, sduRxA, Tail(w), rxB', sduTxB', gotB)
      BY <3>3, <3>4, DirTakes
    <3> QED
      BY <1>1, <3>5, <3>6 DEF DirAB, SameA, n
  <2> QED
    BY <1>12, <2>2, <2>3
<1>15. ShapeB'
  <2>1. roomB' = roomB
    BY <1>1 DEF B!Process, B!Begin, B!Drain, B!RecvSF, B!RecvFF, B!RecvCF, B!RecvFC, B!Ignore,
                B!Take, B!Timers, B!StartSend, B!RetryFirst, B!Sample, B!SendCF, B!EndCall
  <2>2. \E K : canTxB' \in Seq(K)
    BY <1>7, <1>9, SendsTyped
  <2>3. canRxB' \in Seq(M)
    <3>1. canRxB' = canRxB \/ (canRxB # <<>> /\ canRxB' = Tail(canRxB))
      BY <1>12 DEF LeavesB, TakesB
    <3>2. canRxB # <<>> => Tail(canRxB) \in Seq(M)
      BY <1>7
    <3> QED
      BY ONLY <1>7, <3>1, <3>2
  <2> QED
    BY <1>2, <1>9, <1>12, <2>1, <2>2, <2>3 DEF ShapeB
<1> QED
  BY <1>1, <1>2, <1>13, <1>14, <1>15, SameShapeA DEF LinkInv, SameA

(* A driver hands a frame over, and the other is given it, or not.         *)
SameBut ==
  /\ rxA' = rxA /\ txA' = txA /\ sduRxA' = sduRxA /\ sduTxA' = sduTxA /\ roomA' = roomA
  /\ rxB' = rxB /\ txB' = txB /\ sduRxB' = sduRxB /\ sduTxB' = sduTxB /\ roomB' = roomB
  /\ askedA' = askedA /\ gotA' = gotA /\ askedB' = askedB /\ gotB' = gotB

LEMMA CarriesA == LinkInv /\ CarryAB => LinkInv'
<1> SUFFICES ASSUME LinkInv, CarryAB PROVE LinkInv'
  OBVIOUS
<1>1. /\ canTxA # <<>> /\ canTxA' = Tail(canTxA) /\ canRxB' = Append(canRxB, Head(canTxA))
      /\ canRxA' = canRxA /\ canTxB' = canTxB /\ SameBut
  BY DEF CarryAB, A!FrameOut, B!FrameIn, seenA, seenB, SameBut
<1>2. ShapeA /\ ShapeB /\ askedA \in Nat /\ askedB \in Nat /\ DirAB /\ DirBA
  BY DEF LinkInv
<1>3. PICK M1 : canTxA \in Seq(M1)
  BY <1>2 DEF ShapeA
<1>4. PICK M2 : canRxB \in Seq(M2)
  BY <1>2 DEF ShapeB
<1> DEFINE M == M1 \cup M2
<1>5. canTxA \in Seq(M) /\ canRxB \in Seq(M)
  BY <1>3, <1>4
<1> HIDE DEF M
<1>6. canTxA' \in Seq(M) /\ canRxB' \in Seq(M) /\ canRxB' \o canTxA' = canRxB \o canTxA
  BY <1>1, <1>5, Carried
<1>7. ShapeA'
  BY <1>1, <1>2, <1>6 DEF ShapeA, SameBut
<1>8. ShapeB'
  BY <1>1, <1>2, <1>6 DEF ShapeB, SameBut
<1>9. DirAB'
  BY <1>1, <1>2, <1>6 DEF DirAB, SameBut
<1>10. DirBA'
  BY <1>1, <1>2 DEF DirBA, SameBut
<1> QED
  BY <1>1, <1>2, <1>7, <1>8, <1>9, <1>10 DEF LinkInv, SameBut

LEMMA LosesA ==
  ASSUME LinkInv, A!FrameOut, Head(canTxA).kind # "FF", UNCHANGED <<nodeB, seenA, seenB>>
  PROVE  LinkInv'
<1>1. /\ canTxA # <<>> /\ canTxA' = Tail(canTxA) /\ canRxB' = canRxB
      /\ canRxA' = canRxA /\ canTxB' = canTxB /\ SameBut
  BY DEF A!FrameOut, nodeB, seenA, seenB, SameBut
<1>2. ShapeA /\ ShapeB /\ askedA \in Nat /\ askedB \in Nat /\ DirAB /\ DirBA
  BY DEF LinkInv
<1>3. PICK M1 : canTxA \in Seq(M1)
  BY <1>2 DEF ShapeA
<1>4. PICK M2 : canRxB \in Seq(M2)
  BY <1>2 DEF ShapeB
<1> DEFINE M == M1 \cup M2
<1>5. canTxA \in Seq(M) /\ canRxB \in Seq(M)
  BY <1>3, <1>4
<1> HIDE DEF M
<1>6. canTxA' \in Seq(M)
  BY <1>1, <1>5
<1>7. ShapeA'
  BY <1>1, <1>2, <1>6 DEF ShapeA, SameBut
<1>8. ShapeB'
  BY <1>1, <1>2 DEF ShapeB, SameBut
<1>9. DirAB'
  <2> DEFINE n == askedA - Len(sduRxA)
  <2>1. Dir(LensA, n, txA, sduRxA, canRxB \o Tail(canTxA), rxB, sduTxB, gotB)
    BY <1>1, <1>2, <1>5, DirLoses DEF DirAB
  <2> QED
    BY <1>1, <2>1 DEF DirAB, SameBut
<1>10. DirBA'
  BY <1>1, <1>2 DEF DirBA, SameBut
<1> QED
  BY <1>1, <1>2, <1>7, <1>8, <1>9, <1>10 DEF LinkInv, SameBut

(* A's upper layer asks, and is given what arrived.                        *)
LEMMA AsksA == LinkInv /\ AskA => LinkInv'
<1> SUFFICES ASSUME LinkInv, AskA PROVE LinkInv'
  OBVIOUS
<1> DEFINE s == A!Request(askedA', LensA[askedA'], "phys")
<1>1. /\ askedA < Len(LensA) /\ askedA' = askedA + 1 /\ sduRxA' = Append(sduRxA, s)
      /\ rxA' = rxA /\ txA' = txA /\ canRxA' = canRxA /\ canTxA' = canTxA /\ sduTxA' = sduTxA
      /\ roomA' = roomA /\ gotA' = gotA /\ SameB
  BY DEF AskA, A!Send, nodeB, seenB, SameB
<1>2. ShapeA /\ ShapeB /\ askedA \in Nat /\ askedB \in Nat /\ DirAB /\ DirBA
  BY DEF LinkInv
<1>3. s = Asked(LensA, askedA + 1)
  BY <1>1 DEF A!Request, Asked
<1> HIDE DEF s
<1>4. PICK K : sduRxA \in Seq(K)
  BY <1>2 DEF DirAB, Dir, SenderOk
<1> DEFINE n == askedA - Len(sduRxA)
<1>5. n + Len(sduRxA) = askedA /\ n + Len(sduRxA) + 1 = askedA + 1 /\ Len(sduRxA) \in Nat
  BY <1>2, <1>4
<1>6. Dir(LensA, n, txA, sduRxA, canRxB \o canTxA, rxB, sduTxB, gotB)
  BY <1>2 DEF DirAB
<1> HIDE DEF n
<1>7. n + Len(sduRxA) < Len(LensA)
  BY <1>1, <1>5
<1> DEFINE q2 == Append(sduRxA, Asked(LensA, n + Len(sduRxA) + 1))
<1>8. Dir(LensA, n, txA, q2, canRxB \o canTxA, rxB, sduTxB, gotB) /\ Len(q2) = Len(sduRxA) + 1
  BY <1>6, <1>7, DirAsks
<1>9. q2 = sduRxA'
  BY <1>1, <1>3, <1>5
<1> HIDE DEF q2
<1>10. askedA' - Len(sduRxA') = n
  BY <1>1, <1>2, <1>5, <1>8, <1>9 DEF n
<1>11. DirAB'
  BY <1>1, <1>8, <1>9, <1>10 DEF DirAB, SameB
<1>12. ShapeA' /\ ShapeB'
  BY <1>1, <1>2, SameShapeB DEF ShapeA
<1>13. DirBA'
  BY <1>1, <1>2 DEF DirBA, SameB
<1> QED
  BY <1>1, <1>2, <1>11, <1>12, <1>13 DEF LinkInv, SameB

LEMMA GivesA ==
  LinkInv /\ TakeA =>
    /\ LinkInv'
    /\ gotA' = gotA \/ \E k \in Latest(gotA) + 1 .. askedB :
                         gotA' = Append(gotA, [msg |-> k, len |-> LensB[k], intact |-> TRUE])
<1> SUFFICES ASSUME LinkInv, TakeA
             PROVE  /\ LinkInv'
                    /\ gotA' = gotA \/ \E k \in Latest(gotA) + 1 .. askedB :
                         gotA' = Append(gotA, [msg |-> k, len |-> LensB[k], intact |-> TRUE])
  OBVIOUS
<1> DEFINE s == Head(sduTxA)
<1>1. /\ sduTxA # <<>> /\ sduTxA' = Tail(sduTxA) /\ gotA' = Taken(gotA, s)
      /\ rxA' = rxA /\ txA' = txA /\ canRxA' = canRxA /\ canTxA' = canTxA /\ sduRxA' = sduRxA
      /\ roomA' = roomA /\ askedA' = askedA /\ SameB
  BY DEF TakeA, A!SduOut, nodeB, seenB, SameB, Taken
<1> HIDE DEF s
<1>2. ShapeA /\ ShapeB /\ askedA \in Nat /\ askedB \in Nat /\ DirAB /\ DirBA
  BY DEF LinkInv
<1> DEFINE n == askedB - Len(sduRxB)
<1>3. Dir(LensB, n, txB, sduRxB, canRxA \o canTxB, rxA, sduTxA, gotA)
  BY <1>2 DEF DirBA
<1> HIDE DEF n
<1>4. /\ Dir(LensB, n, txB, sduRxB, canRxA \o canTxB, rxA, Tail(sduTxA), Taken(gotA, s))
      /\ s.kind = "MSG" =>
           \E k \in Latest(gotA) + 1 .. n :
             Message(s) = [msg |-> k, len |-> LensB[k], intact |-> TRUE]
  BY <1>1, <1>3, DirGives DEF s
<1>5. DirBA'
  BY <1>1, <1>4 DEF DirBA, SameB, n
<1>6. DirAB'
  BY <1>1, <1>2 DEF DirAB, SameB
<1>7. ShapeA' /\ ShapeB'
  BY <1>1, <1>2, SameShapeB DEF ShapeA
<1>8. LinkInv'
  BY <1>1, <1>2, <1>5, <1>6, <1>7 DEF LinkInv, SameB
<1>9. n \in Nat /\ n <= askedB
  <2>1. SenderOk(LensB, n, txB, sduRxB)
    BY <1>3 DEF Dir
  <2>2. PICK K : sduRxB \in Seq(K)
    BY <2>1 DEF SenderOk
  <2>3. n \in Nat /\ Len(sduRxB) \in Nat
    BY <2>1, <2>2, Lengths
  <2> QED
    BY <1>2, <2>3 DEF n
<1>10. Latest(gotA) \in Nat
  BY <1>3, <1>9 DEF Dir, UpperOk
<1>11. CASE s.kind = "MSG"
  <2>1. PICK k \in Latest(gotA) + 1 .. n :
             Message(s) = [msg |-> k, len |-> LensB[k], intact |-> TRUE]
    BY <1>4, <1>11
  <2>2. k \in Latest(gotA) + 1 .. askedB
    BY <1>2, <1>9, <1>10
  <2>3. gotA' = Append(gotA, [msg |-> k, len |-> LensB[k], intact |-> TRUE])
    BY <1>1, <1>11, <2>1 DEF Taken
  <2> QED
    BY <1>8, <2>2, <2>3
<1>12. CASE s.kind # "MSG"
  BY <1>1, <1>8, <1>12 DEF Taken
<1> QED
  BY <1>11, <1>12

(* And the other way round.                                                *)
LEMMA CarriesB == LinkInv /\ CarryBA => LinkInv'
<1> SUFFICES ASSUME LinkInv, CarryBA PROVE LinkInv'
  OBVIOUS
<1>1. /\ canTxB # <<>> /\ canTxB' = Tail(canTxB) /\ canRxA' = Append(canRxA, Head(canTxB))
      /\ canRxB' = canRxB /\ canTxA' = canTxA /\ SameBut
  BY DEF CarryBA, B!FrameOut, A!FrameIn, seenB, seenA, SameBut
<1>2. ShapeB /\ ShapeA /\ askedB \in Nat /\ askedA \in Nat /\ DirBA /\ DirAB
  BY DEF LinkInv
<1>3. PICK M1 : canTxB \in Seq(M1)
  BY <1>2 DEF ShapeB
<1>4. PICK M2 : canRxA \in Seq(M2)
  BY <1>2 DEF ShapeA
<1> DEFINE M == M1 \cup M2
<1>5. canTxB \in Seq(M) /\ canRxA \in Seq(M)
  BY <1>3, <1>4
<1> HIDE DEF M
<1>6. canTxB' \in Seq(M) /\ canRxA' \in Seq(M) /\ canRxA' \o canTxB' = canRxA \o canTxB
  BY <1>1, <1>5, Carried
<1>7. ShapeB'
  BY <1>1, <1>2, <1>6 DEF ShapeB, SameBut
<1>8. ShapeA'
  BY <1>1, <1>2, <1>6 DEF ShapeA, SameBut
<1>9. DirBA'
  BY <1>1, <1>2, <1>6 DEF DirBA, SameBut
<1>10. DirAB'
  BY <1>1, <1>2 DEF DirAB, SameBut
<1> QED
  BY <1>1, <1>2, <1>7, <1>8, <1>9, <1>10 DEF LinkInv, SameBut

LEMMA LosesB ==
  ASSUME LinkInv, B!FrameOut, Head(canTxB).kind # "FF", UNCHANGED <<nodeA, seenB, seenA>>
  PROVE  LinkInv'
<1>1. /\ canTxB # <<>> /\ canTxB' = Tail(canTxB) /\ canRxA' = canRxA
      /\ canRxB' = canRxB /\ canTxA' = canTxA /\ SameBut
  BY DEF B!FrameOut, nodeA, seenB, seenA, SameBut
<1>2. ShapeB /\ ShapeA /\ askedB \in Nat /\ askedA \in Nat /\ DirBA /\ DirAB
  BY DEF LinkInv
<1>3. PICK M1 : canTxB \in Seq(M1)
  BY <1>2 DEF ShapeB
<1>4. PICK M2 : canRxA \in Seq(M2)
  BY <1>2 DEF ShapeA
<1> DEFINE M == M1 \cup M2
<1>5. canTxB \in Seq(M) /\ canRxA \in Seq(M)
  BY <1>3, <1>4
<1> HIDE DEF M
<1>6. canTxB' \in Seq(M)
  BY <1>1, <1>5
<1>7. ShapeB'
  BY <1>1, <1>2, <1>6 DEF ShapeB, SameBut
<1>8. ShapeA'
  BY <1>1, <1>2 DEF ShapeA, SameBut
<1>9. DirBA'
  <2> DEFINE n == askedB - Len(sduRxB)
  <2>1. Dir(LensB, n, txB, sduRxB, canRxA \o Tail(canTxB), rxA, sduTxA, gotA)
    BY <1>1, <1>2, <1>5, DirLoses DEF DirBA
  <2> QED
    BY <1>1, <2>1 DEF DirBA, SameBut
<1>10. DirAB'
  BY <1>1, <1>2 DEF DirAB, SameBut
<1> QED
  BY <1>1, <1>2, <1>7, <1>8, <1>9, <1>10 DEF LinkInv, SameBut

(* B's upper layer asks, and is given what arrived.                        *)
LEMMA AsksB == LinkInv /\ AskB => LinkInv'
<1> SUFFICES ASSUME LinkInv, AskB PROVE LinkInv'
  OBVIOUS
<1> DEFINE s == B!Request(askedB', LensB[askedB'], "phys")
<1>1. /\ askedB < Len(LensB) /\ askedB' = askedB + 1 /\ sduRxB' = Append(sduRxB, s)
      /\ rxB' = rxB /\ txB' = txB /\ canRxB' = canRxB /\ canTxB' = canTxB /\ sduTxB' = sduTxB
      /\ roomB' = roomB /\ gotB' = gotB /\ SameA
  BY DEF AskB, B!Send, nodeA, seenA, SameA
<1>2. ShapeB /\ ShapeA /\ askedB \in Nat /\ askedA \in Nat /\ DirBA /\ DirAB
  BY DEF LinkInv
<1>3. s = Asked(LensB, askedB + 1)
  BY <1>1 DEF B!Request, Asked
<1> HIDE DEF s
<1>4. PICK K : sduRxB \in Seq(K)
  BY <1>2 DEF DirBA, Dir, SenderOk
<1> DEFINE n == askedB - Len(sduRxB)
<1>5. n + Len(sduRxB) = askedB /\ n + Len(sduRxB) + 1 = askedB + 1 /\ Len(sduRxB) \in Nat
  BY <1>2, <1>4
<1>6. Dir(LensB, n, txB, sduRxB, canRxA \o canTxB, rxA, sduTxA, gotA)
  BY <1>2 DEF DirBA
<1> HIDE DEF n
<1>7. n + Len(sduRxB) < Len(LensB)
  BY <1>1, <1>5
<1> DEFINE q2 == Append(sduRxB, Asked(LensB, n + Len(sduRxB) + 1))
<1>8. Dir(LensB, n, txB, q2, canRxA \o canTxB, rxA, sduTxA, gotA) /\ Len(q2) = Len(sduRxB) + 1
  BY <1>6, <1>7, DirAsks
<1>9. q2 = sduRxB'
  BY <1>1, <1>3, <1>5
<1> HIDE DEF q2
<1>10. askedB' - Len(sduRxB') = n
  BY <1>1, <1>2, <1>5, <1>8, <1>9 DEF n
<1>11. DirBA'
  BY <1>1, <1>8, <1>9, <1>10 DEF DirBA, SameA
<1>12. ShapeB' /\ ShapeA'
  BY <1>1, <1>2, SameShapeA DEF ShapeB
<1>13. DirAB'
  BY <1>1, <1>2 DEF DirAB, SameA
<1> QED
  BY <1>1, <1>2, <1>11, <1>12, <1>13 DEF LinkInv, SameA

LEMMA GivesB ==
  LinkInv /\ TakeB =>
    /\ LinkInv'
    /\ gotB' = gotB \/ \E k \in Latest(gotB) + 1 .. askedA :
                         gotB' = Append(gotB, [msg |-> k, len |-> LensA[k], intact |-> TRUE])
<1> SUFFICES ASSUME LinkInv, TakeB
             PROVE  /\ LinkInv'
                    /\ gotB' = gotB \/ \E k \in Latest(gotB) + 1 .. askedA :
                         gotB' = Append(gotB, [msg |-> k, len |-> LensA[k], intact |-> TRUE])
  OBVIOUS
<1> DEFINE s == Head(sduTxB)
<1>1. /\ sduTxB # <<>> /\ sduTxB' = Tail(sduTxB) /\ gotB' = Taken(gotB, s)
      /\ rxB' = rxB /\ txB' = txB /\ canRxB' = canRxB /\ canTxB' = canTxB /\ sduRxB' = sduRxB
      /\ roomB' = roomB /\ askedB' = askedB /\ SameA
  BY DEF TakeB, B!SduOut, nodeA, seenA, SameA, Taken
<1> HIDE DEF s
<1>2. ShapeB /\ ShapeA /\ askedB \in Nat /\ askedA \in Nat /\ DirBA /\ DirAB
  BY DEF LinkInv
<1> DEFINE n == askedA - Len(sduRxA)
<1>3. Dir(LensA, n, txA, sduRxA, canRxB \o canTxA, rxB, sduTxB, gotB)
  BY <1>2 DEF DirAB
<1> HIDE DEF n
<1>4. /\ Dir(LensA, n, txA, sduRxA, canRxB \o canTxA, rxB, Tail(sduTxB), Taken(gotB, s))
      /\ s.kind = "MSG" =>
           \E k \in Latest(gotB) + 1 .. n :
             Message(s) = [msg |-> k, len |-> LensA[k], intact |-> TRUE]
  BY <1>1, <1>3, DirGives DEF s
<1>5. DirAB'
  BY <1>1, <1>4 DEF DirAB, SameA, n
<1>6. DirBA'
  BY <1>1, <1>2 DEF DirBA, SameA
<1>7. ShapeB' /\ ShapeA'
  BY <1>1, <1>2, SameShapeA DEF ShapeB
<1>8. LinkInv'
  BY <1>1, <1>2, <1>5, <1>6, <1>7 DEF LinkInv, SameA
<1>9. n \in Nat /\ n <= askedA
  <2>1. SenderOk(LensA, n, txA, sduRxA)
    BY <1>3 DEF Dir
  <2>2. PICK K : sduRxA \in Seq(K)
    BY <2>1 DEF SenderOk
  <2>3. n \in Nat /\ Len(sduRxA) \in Nat
    BY <2>1, <2>2, Lengths
  <2> QED
    BY <1>2, <2>3 DEF n
<1>10. Latest(gotB) \in Nat
  BY <1>3, <1>9 DEF Dir, UpperOk
<1>11. CASE s.kind = "MSG"
  <2>1. PICK k \in Latest(gotB) + 1 .. n :
             Message(s) = [msg |-> k, len |-> LensA[k], intact |-> TRUE]
    BY <1>4, <1>11
  <2>2. k \in Latest(gotB) + 1 .. askedA
    BY <1>2, <1>9, <1>10
  <2>3. gotB' = Append(gotB, [msg |-> k, len |-> LensA[k], intact |-> TRUE])
    BY <1>1, <1>11, <2>1 DEF Taken
  <2> QED
    BY <1>8, <2>2, <2>3
<1>12. CASE s.kind # "MSG"
  BY <1>1, <1>8, <1>12 DEF Taken
<1> QED
  BY <1>11, <1>12

(* A tick changes no more than timers.                                     *)
LEMMA Ticks == LinkInv /\ Tick => LinkInv'
<1> SUFFICES ASSUME LinkInv, Tick PROVE LinkInv'
  OBVIOUS
<1>1. /\ rxA' = [rxA EXCEPT !.timer = A!Down(rxA.timer)]
      /\ rxB' = [rxB EXCEPT !.timer = B!Down(rxB.timer)]
      /\ \E a, b : txA' = [txA EXCEPT !.timer = a, !.gap = b]
      /\ \E a, b : txB' = [txB EXCEPT !.timer = a, !.gap = b]
      /\ canRxA' = canRxA /\ canTxA' = canTxA /\ sduRxA' = sduRxA /\ sduTxA' = sduTxA /\ roomA' = roomA
      /\ canRxB' = canRxB /\ canTxB' = canTxB /\ sduRxB' = sduRxB /\ sduTxB' = sduTxB /\ roomB' = roomB
      /\ askedA' = askedA /\ gotA' = gotA /\ askedB' = askedB /\ gotB' = gotB
  BY DEF Tick, A!Tick, B!Tick, seenA, seenB
<1>2. ShapeA /\ ShapeB /\ askedA \in Nat /\ askedB \in Nat /\ DirAB /\ DirBA
  BY DEF LinkInv
<1>3. /\ Stays(rxA, rxA') /\ DOMAIN rxA' = DOMAIN rxA
      /\ Stays(rxB, rxB') /\ DOMAIN rxB' = DOMAIN rxB
  BY <1>1, <1>2 DEF Stays, ShapeA, ShapeB
<1>4. /\ DOMAIN txA' = DOMAIN txA /\ txA'.state = txA.state /\ txA'.sent = txA.sent /\ txA'.sdu = txA.sdu
      /\ DOMAIN txB' = DOMAIN txB /\ txB'.state = txB.state /\ txB'.sent = txB.sent /\ txB'.sdu = txB.sdu
  BY <1>1, <1>2 DEF ShapeA, ShapeB
<1>5. GoesOn(txA, txA') /\ GoesOn(txB, txB')
  BY <1>4 DEF GoesOn, Held
<1>6. ShapeA' /\ ShapeB'
  BY <1>1, <1>2, <1>3, <1>4 DEF ShapeA, ShapeB
<1>7. ASSUME NEW lens, NEW n, NEW t, NEW q, NEW w, NEW r, NEW u, NEW g,
             Dir(lens, n, t, q, w, r, u, g), \E M : w \in Seq(M),
             NEW t2, GoesOn(t, t2), NEW r2, Stays(r, r2)
      PROVE  Dir(lens, n, t2, q, w, r2, u, g)
  <2>1. Dir(lens, n, t2, q, w, r, u, g)
    BY <1>7, DirGoesOn
  <2>2. Adds(u, u)
    BY <1>7, AddsNone DEF Dir, UpperOk
  <2> QED
    BY <1>7, <2>1, <2>2, DirRests
<1>8. (\E M : canRxB \o canTxA \in Seq(M)) /\ (\E M : canRxA \o canTxB \in Seq(M))
  <2>1. ASSUME NEW M1, NEW M2, NEW i \in Seq(M1), NEW o \in Seq(M2) PROVE i \o o \in Seq(M1 \cup M2)
    <3>1. i \in Seq(M1 \cup M2) /\ o \in Seq(M1 \cup M2)
      OBVIOUS
    <3> QED
      BY <3>1
  <2> QED
    BY <1>2, <2>1 DEF ShapeA, ShapeB
<1>9. DirAB'
  <2>1. Dir(LensA, askedA - Len(sduRxA), txA', sduRxA, canRxB \o canTxA, rxB', sduTxB, gotB)
    BY <1>2, <1>3, <1>5, <1>7, <1>8 DEF DirAB
  <2> QED
    BY <1>1, <2>1 DEF DirAB
<1>10. DirBA'
  <2>1. Dir(LensB, askedB - Len(sduRxB), txB', sduRxB, canRxA \o canTxB, rxA', sduTxA, gotA)
    BY <1>2, <1>3, <1>5, <1>7, <1>8 DEF DirBA
  <2> QED
    BY <1>1, <2>1 DEF DirBA
<1> QED
  BY <1>1, <1>2, <1>6, <1>9, <1>10 DEF LinkInv

LEMMA LinkSteps ==
  ASSUME "FF" \notin MayLose, LinkInv, [Next]_vars
  PROVE  LinkInv'
<1>1. CASE ProcessA \/ ProcessB
  BY <1>1, RunsA, RunsB
<1>2. CASE CarryAB \/ CarryBA
  BY <1>2, CarriesA, CarriesB
<1>3. CASE AskA \/ AskB
  BY <1>3, AsksA, AsksB
<1>4. CASE TakeA \/ TakeB
  BY <1>4, GivesA, GivesB
<1>5. CASE Tick
  BY <1>5, Ticks
<1>6. CASE Lose
  <2>1. CASE A!FrameOut /\ Head(canTxA).kind \in MayLose /\ UNCHANGED nodeB
    <3>1. Head(canTxA).kind # "FF"
      BY <2>1
    <3>2. UNCHANGED <<nodeB, seenA, seenB>>
      BY <1>6, <2>1 DEF Lose
    <3> QED
      BY <2>1, <3>1, <3>2, LosesA
  <2>2. CASE B!FrameOut /\ Head(canTxB).kind \in MayLose /\ UNCHANGED nodeA
    <3>1. Head(canTxB).kind # "FF"
      BY <2>2
    <3>2. UNCHANGED <<nodeA, seenB, seenA>>
      BY <1>6, <2>2 DEF Lose
    <3> QED
      BY <2>2, <3>1, <3>2, LosesB
  <2> QED
    BY <1>6, <2>1, <2>2 DEF Lose
<1>7. CASE UNCHANGED vars
  BY <1>7 DEF vars, nodeA, nodeB, seenA, seenB, LinkInv, ShapeA, ShapeB, DirAB, DirBA
<1> QED
  BY <1>1, <1>2, <1>3, <1>4, <1>5, <1>6, <1>7 DEF Next, Step

(* Each step is one the promise allows, or none as far as it can tell.     *)
LEMMA KeepsPromise ==
  ASSUME LinkInv, [Next]_vars
  PROVE  [AB!Next]_(AB!vars) /\ [BA!Next]_(BA!vars)
<1> DEFINE Unheard == askedA' = askedA /\ gotB' = gotB /\ askedB' = askedB /\ gotA' = gotA
<1>1. ASSUME Unheard PROVE [AB!Next]_(AB!vars) /\ [BA!Next]_(BA!vars)
  BY <1>1 DEF AB!vars, BA!vars
<1>2. CASE ProcessA \/ ProcessB
  BY <1>1, <1>2 DEF ProcessA, ProcessB, seenA, seenB
<1>3. CASE CarryAB \/ CarryBA
  BY <1>1, <1>3 DEF CarryAB, CarryBA, seenA, seenB
<1>4. CASE AskA
  <2>1. /\ askedA < Len(LensA) /\ askedA' = askedA + 1 /\ gotB' = gotB
        /\ askedB' = askedB /\ gotA' = gotA
    BY <1>4 DEF AskA, seenB
  <2> QED
    BY <2>1 DEF AB!Next, AB!Ask, BA!vars
<1>5. CASE AskB
  <2>1. /\ askedB < Len(LensB) /\ askedB' = askedB + 1 /\ gotA' = gotA
        /\ askedA' = askedA /\ gotB' = gotB
    BY <1>5 DEF AskB, seenA
  <2> QED
    BY <2>1 DEF BA!Next, BA!Ask, AB!vars
<1>6. CASE TakeA
  <2>1. askedA' = askedA /\ askedB' = askedB /\ gotB' = gotB
    BY <1>6 DEF TakeA, seenB
  <2>2. CASE gotA' = gotA
    BY <1>1, <2>1, <2>2
  <2>3. CASE \E k \in Latest(gotA) + 1 .. askedB :
               gotA' = Append(gotA, [msg |-> k, len |-> LensB[k], intact |-> TRUE])
    <3>1. BA!Latest = Latest(gotA)
      BY DEF BA!Latest, Latest
    <3>2. BA!Give
      BY <2>1, <2>3, <3>1 DEF BA!Give, BA!Whole
    <3> QED
      BY <2>1, <3>2 DEF BA!Next, AB!vars
  <2> QED
    BY <1>6, <2>2, <2>3, GivesA
<1>7. CASE TakeB
  <2>1. askedA' = askedA /\ askedB' = askedB /\ gotA' = gotA
    BY <1>7 DEF TakeB, seenA
  <2>2. CASE gotB' = gotB
    BY <1>1, <2>1, <2>2
  <2>3. CASE \E k \in Latest(gotB) + 1 .. askedA :
               gotB' = Append(gotB, [msg |-> k, len |-> LensA[k], intact |-> TRUE])
    <3>1. AB!Latest = Latest(gotB)
      BY DEF AB!Latest, Latest
    <3>2. AB!Give
      BY <2>1, <2>3, <3>1 DEF AB!Give, AB!Whole
    <3> QED
      BY <2>1, <3>2 DEF AB!Next, BA!vars
  <2> QED
    BY <1>7, <2>2, <2>3, GivesB
<1>8. CASE Tick \/ Lose
  BY <1>1, <1>8 DEF Tick, Lose, seenA, seenB
<1>9. CASE UNCHANGED vars
  BY <1>1, <1>9 DEF vars, seenA, seenB
<1> QED
  BY <1>2, <1>3, <1>4, <1>5, <1>6, <1>7, <1>8, <1>9 DEF Next, Step

(* Each direction of a pair implements MsgTransfer, whatever the lengths of*)
(* frames, messages and queues, the block sizes, separation times and      *)
(* timeouts of either side, however often a timer runs out in the middle   *)
(* and however many frames are lost - as long as no first frame is: what   *)
(* an upper layer is given is what the other one sent, whole, in order and *)
(* at most once (nx_can_isotp_process, istp_rx_phys_frame).                *)
THEOREM PairsTransfer == Spec => ("FF" \notin MayLose => Transfers)
<1>1. CASE "FF" \notin MayLose
  <2>1. Init => LinkInv
    BY LinkStarts
  <2>2. LinkInv /\ [Next]_vars => LinkInv'
    BY <1>1, LinkSteps
  <2>3. Init => AB!Init /\ BA!Init
    BY DEF Init, AB!Init, BA!Init
  <2>4. LinkInv /\ [Next]_vars => [AB!Next]_(AB!vars) /\ [BA!Next]_(BA!vars)
    BY KeepsPromise
  <2>5. Spec => AB!Spec /\ BA!Spec
    BY <2>1, <2>2, <2>3, <2>4, PTL DEF Spec, AB!Spec, BA!Spec
  <2> QED
    BY <2>5 DEF Transfers
<1>2. CASE ~("FF" \notin MayLose)
  BY <1>2
<1> QED
  BY <1>1, <1>2

=============================================================================
