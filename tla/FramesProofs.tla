---------------------------- MODULE FramesProofs ----------------------------
(***************************************************************************)
(* Image publication, for any number of drawables, image slots and CPU     *)
(* allocations: PublicationSound, NothingStale and ExchangesBuffers.       *)
(*                                                                         *)
(* A buffer that left the device's hands is in one place: in the output    *)
(* queue, with the output thread, on one of the channels, owned by a lease *)
(* of the SDK, in the release queue or on the way back.  Wherever it is    *)
(* after the send, what names it names the identity the device still keeps *)
(* for it.                                                                 *)
(***************************************************************************)
EXTENDS Frames, FoldLemmas, SequenceTheorems

-----------------------------------------------------------------------------
(* Types.                                                                    *)

Buf == Index \union CPU
Pair == Nat \X Nat

ImageLease == {l \in [d : Drawable, index : Index, epoch : Nat, generation : Nat] : l.d = l.index[1]}
CpuLease == {l \in [d : CPU, index : CPU, epoch : Nat, generation : Nat] : l.d = l.index}
AnyLease == ImageLease \union CpuLease

OpKinds == CpuKinds \union {"paint", "blit", "discard", "readback", "drop", "reset"}
RawOp == [kind : OpKinds, epoch : Nat, sequence : Nat, d : Drawable \union {"none"},
          lease : AnyLease \union {"none"}, final : BOOLEAN, anchor : Pair, revision : Nat]
Op == {o \in RawOp :
          /\ o.kind \in CpuKinds => o.lease \in CpuLease
          /\ o.kind \in {"blit", "discard"} => o.lease \in ImageLease
          /\ o.kind = "drop" => o.d \in Drawable}
ImageMsg == {m \in [kind : Image, d : Drawable, index : Index, epoch : Nat, generation : Nat] :
                m.d = m.index[1]}
ReleaseMsg == [kind : {"release"}, index : Buf, epoch : Nat, generation : Nat]
ReplyMsg == [kind : {"reply"}, epoch : Nat, sequence : Nat, ok : BOOLEAN]
BackMsg == ReleaseMsg \union ReplyMsg
Job == [slot : {TRUE}, index : Index] \union [slot : {FALSE}, op : Op]
Sending == [job : Job, stage : {"popped", "published", "sent"},
            publish : BOOLEAN, ready : BOOLEAN, sent : BOOLEAN]
Slot == [state : {"free", "rendering", "pending", "published"}, sending : BOOLEAN,
         release_pending : BOOLEAN, image : Image, epoch : 0..MaxEpoch, generation : 0..MaxGeneration]
Registered == [live : BOOLEAN, epoch : 0..MaxEpoch, generation : 0..MaxGeneration, published : Pair]
Allocation == [published : BOOLEAN, epoch : Nat, sequence : Nat, bytes : Nat]
Reply == [pending : BOOLEAN, ready : BOOLEAN, epoch : Nat, sequence : Nat, fd : Nat]

ProducerShape ==
    /\ slots \in [Index -> Slot] /\ drawables \in [Drawable -> Registered]
    /\ next_epoch \in 0..MaxEpoch
    /\ output \in [items : Seq(Job), pending : Int, desktop : Int]
    /\ sending = {} \/ \E s \in Sending : sending = {s}
    /\ cpu \in [CPU -> Allocation] /\ reply \in Reply
    /\ refs \subseteq ImageLease
    /\ stream \in [epoch : Nat, sequence : Nat, seeded : BOOLEAN, queued : Nat]

WireShape ==
    /\ separate \in BOOLEAN /\ unix \in Seq(ImageMsg \union Op) /\ mach \in Seq(ImageMsg)
    /\ back \in Seq(BackMsg) /\ releases \in Seq(BackMsg)

DesktopShape ==
    desktop \in [resources : SUBSET ImageLease, pending : Seq(Op), wire_epoch : Nat,
                 revision : Nat, epoch : Nat, sequence : Nat, next_epoch : Nat, anchor : Nat,
                 dropped : [Drawable -> Pair], received : [Drawable -> Pair]]

ConsumerShape ==
    /\ DesktopShape
    /\ frames \in [latest : SUBSET ImageLease, owner : SUBSET ImageLease,
                   windows : SUBSET ImageLease]
    /\ held \subseteq AnyLease /\ owed \subseteq Pair
    /\ order \in [epoch : Nat, generations : [Drawable -> Nat]]
    /\ leased \subseteq (1..(MaxEpoch + MaxOps)) \X Buf
    /\ {active, waiting, signal, closed} \subseteq BOOLEAN
    /\ taking = {} \/ \E t : taking = {t} /\ t.returned \in BOOLEAN
    /\ IsFiniteSet(desktop.resources) /\ IsFiniteSet(frames.latest)
    /\ IsFiniteSet(frames.windows) /\ IsFiniteSet(held)
    /\ Len(desktop.pending) <= MaxPending

-----------------------------------------------------------------------------
(* Places.  A message bears a buffer when it is an image, a CPU record or a  *)
(* release.                                                                  *)

Bears(m) == m.kind \in Image \union CpuKinds \union {"release"}
Of(m) == IF m.kind \in CpuKinds THEN m.lease ELSE m
Token(l) == <<l.index, l.epoch, l.generation>>
About(m, i) == Bears(m) /\ Of(m).index = i
JobFor(j, i) == IF j.slot THEN j.index = i ELSE About(j.op, i)

Has(q, i) == \E k \in DOMAIN q : About(q[k], i)
Once(q, i) == \A j, k \in DOMAIN q : About(q[j], i) /\ About(q[k], i) => j = k
HasJob(q, i) == \E k \in DOMAIN q : JobFor(q[k], i)
OnceJob(q, i) == \A j, k \in DOMAIN q : JobFor(q[j], i) /\ JobFor(q[k], i) => j = k

Queued(i) == HasJob(output.items, i)
InHand(i) == \E s \in sending : s.stage # "sent" /\ JobFor(s.job, i)
Leased(i) == \E l \in Live : l.index = i

Alone(i) ==
    /\ OnceJob(output.items, i) /\ Once(unix, i) /\ Once(mach, i)
    /\ Once(releases, i) /\ Once(back, i)
    /\ Queued(i) => ~(InHand(i) \/ Has(unix, i) \/ Has(mach, i) \/ Leased(i)
                        \/ Has(releases, i) \/ Has(back, i))
    /\ InHand(i) => ~(Has(unix, i) \/ Has(mach, i) \/ Leased(i) \/ Has(releases, i)
                        \/ Has(back, i))
    /\ Has(unix, i) => ~(Has(mach, i) \/ Leased(i) \/ Has(releases, i) \/ Has(back, i))
    /\ Has(mach, i) => ~(Leased(i) \/ Has(releases, i) \/ Has(back, i))
    /\ Leased(i) => ~(Has(releases, i) \/ Has(back, i))
    /\ Has(releases, i) => ~Has(back, i)

(* What the device keeps for a buffer whose send is done.                    *)
Granted == {t \in Buf \X Nat \X Nat :
    IF t[1] \in CPU
      THEN /\ cpu[t[1]].published /\ cpu[t[1]].epoch = t[2] /\ cpu[t[1]].sequence = t[3]
      ELSE /\ slots[t[1]].state = "published" /\ ~slots[t[1]].release_pending
           /\ slots[t[1]].epoch = t[2] /\ slots[t[1]].generation = t[3]
           /\ \A s \in sending : s.job = SlotJob(t[1]) => s.stage = "sent" /\ s.sent}

Backed(q, W) == \A k \in DOMAIN q : Bears(q[k]) => Token(Of(q[k])) \in W
Promised(j, W) == ~j.slot /\ Bears(j.op) => Token(Of(j.op)) \in W

Ownership ==
    /\ Backed(unix, Granted) /\ Backed(mach, Granted)
    /\ Backed(releases, Granted) /\ Backed(back, Granted)
    /\ \A l \in Live : Token(l) \in Granted
    /\ \A k \in DOMAIN output.items : Promised(output.items[k], Granted)
    /\ \A s \in sending : s.stage # "sent" => Promised(s.job, Granted)

Custody == (\A i \in Buf : Alone(i)) /\ Ownership

(* The export slots and the jobs that name them.                             *)
HeldBy(s) ==
    IF s.stage = "popped"
      THEN slots[s.job.index].state = "pending" /\ ~slots[s.job.index].release_pending
      ELSE /\ slots[s.job.index].state = "published" /\ slots[s.job.index].sending
           /\ s.stage = "published" \/ ~s.sent => ~slots[s.job.index].release_pending

SlotSound(i) ==
    /\ slots[i].sending =>
          slots[i].state = "published" /\ \E s \in sending : s.job = SlotJob(i) /\ s.stage # "popped"
    /\ slots[i].state = "rendering" => ~slots[i].release_pending /\ drawables[i[1]].live
    /\ slots[i].state \in {"pending", "published"} => slots[i].epoch # 0

SlotsSound ==
    /\ \A s \in sending : s.job.slot => HeldBy(s)
    /\ \A k \in DOMAIN output.items : output.items[k].slot =>
          /\ slots[output.items[k].index].state = "pending"
          /\ ~slots[output.items[k].index].release_pending
    /\ \A i \in Index : SlotSound(i)
    /\ \A d \in Drawable : drawables[d].live => drawables[d].epoch # 0

(* Bounds, and what each channel carries.                                    *)
Bounded ==
    /\ stream.epoch <= stream.queued /\ stream.queued <= MaxOps
    /\ stream.seeded => stream.epoch # 0
    /\ \A c \in CPU : cpu[c].published => cpu[c].epoch \in 1..MaxOps
    /\ separate => \A k \in DOMAIN unix : unix[k].kind \notin Image
    /\ ~separate => mach = <<>>

(* A frame not yet taken has no other owner.                                 *)
LatestAlone ==
    frames.latest \cap (desktop.resources \union frames.windows \union held
                          \union PendingLeases(desktop.pending)) = {}

-----------------------------------------------------------------------------
(* Sequences of messages and jobs.                                           *)

LEMMA TailOf ==
    ASSUME NEW X, NEW q \in Seq(X), q # <<>>
    PROVE  /\ Head(q) = q[1] /\ 1 \in DOMAIN q /\ Head(q) \in X
           /\ Tail(q) \in Seq(X) /\ Len(Tail(q)) = Len(q) - 1
           /\ \A k \in DOMAIN Tail(q) : k + 1 \in DOMAIN q /\ Tail(q)[k] = q[k + 1] /\ k \in Nat
           /\ \A k \in DOMAIN q : k # 1 => k - 1 \in DOMAIN Tail(q) /\ Tail(q)[k - 1] = q[k]
<1>1. Len(q) \in Nat /\ Len(q) # 0 /\ DOMAIN q = 1..Len(q) OBVIOUS
<1>2. Tail(q) \in Seq(X) /\ Len(Tail(q)) = Len(q) - 1 OBVIOUS
<1>3. DOMAIN Tail(q) = 1..(Len(q) - 1) BY <1>1, <1>2
<1>4. \A k \in 1..(Len(q) - 1) : Tail(q)[k] = q[k + 1] BY <1>1
<1> QED BY <1>1, <1>2, <1>3, <1>4

LEMMA AppendOf ==
    ASSUME NEW X, NEW q \in Seq(X), NEW m \in X
    PROVE  /\ Append(q, m) \in Seq(X) /\ Len(Append(q, m)) = Len(q) + 1
           /\ DOMAIN Append(q, m) = DOMAIN q \union {Len(q) + 1} /\ Len(q) + 1 \notin DOMAIN q
           /\ \A k \in DOMAIN q : Append(q, m)[k] = q[k]
           /\ Append(q, m)[Len(q) + 1] = m
<1>1. Len(q) \in Nat /\ DOMAIN q = 1..Len(q) OBVIOUS
<1>2. Append(q, m) \in Seq(X) /\ Len(Append(q, m)) = Len(q) + 1 OBVIOUS
<1>3. DOMAIN Append(q, m) = 1..(Len(q) + 1) BY <1>1, <1>2
<1>4. \A k \in 1..Len(q) : Append(q, m)[k] = q[k] BY <1>1
<1>5. Append(q, m)[Len(q) + 1] = m BY <1>1
<1> QED BY <1>1, <1>2, <1>3, <1>4, <1>5

LEMMA CatOf ==
    ASSUME NEW X, NEW q \in Seq(X), NEW r \in Seq(X)
    PROVE  /\ q \o r \in Seq(X) /\ Len(q \o r) = Len(q) + Len(r)
           /\ \A k \in DOMAIN (q \o r) :
                 \/ k \in DOMAIN q /\ (q \o r)[k] = q[k]
                 \/ k - Len(q) \in DOMAIN r /\ k \notin DOMAIN q /\ (q \o r)[k] = r[k - Len(q)]
           /\ \A k \in DOMAIN (q \o r) : k \in Nat
           /\ Len(q) \in Nat
<1>1. Len(q) \in Nat /\ DOMAIN q = 1..Len(q) /\ Len(r) \in Nat /\ DOMAIN r = 1..Len(r) OBVIOUS
<1>2. q \o r \in Seq(X) /\ Len(q \o r) = Len(q) + Len(r) OBVIOUS
<1>3. DOMAIN (q \o r) = 1..(Len(q) + Len(r)) BY <1>1, <1>2
<1>4. \A k \in 1..(Len(q) + Len(r)) : (q \o r)[k] = IF k <= Len(q) THEN q[k] ELSE r[k - Len(q)]
  BY <1>1
<1> QED BY <1>1, <1>2, <1>3, <1>4

(* What a queue bears once its head is taken, a message added, or several.   *)
LEMMA HasTail ==
    ASSUME NEW X, NEW q \in Seq(X), q # <<>>, NEW i
    PROVE  /\ Has(Tail(q), i) => Has(q, i)
           /\ Once(q, i) => Once(Tail(q), i)
           /\ Once(q, i) /\ About(Head(q), i) => ~Has(Tail(q), i)
           /\ About(Head(q), i) => Has(q, i)
<1>1. /\ Head(q) = q[1] /\ 1 \in DOMAIN q
      /\ \A k \in DOMAIN Tail(q) : k + 1 \in DOMAIN q /\ Tail(q)[k] = q[k + 1] /\ k \in Nat
      /\ DOMAIN Tail(q) = 1..Len(Tail(q))
  BY TailOf
<1>2. Has(Tail(q), i) => Has(q, i) BY <1>1 DEF Has
<1>3. ASSUME Once(q, i), NEW j \in DOMAIN Tail(q), NEW k \in DOMAIN Tail(q),
             About(Tail(q)[j], i), About(Tail(q)[k], i)
      PROVE  j = k
  <2>1. j + 1 = k + 1 BY <1>1, <1>3 DEF Once
  <2>2. j \in Nat /\ k \in Nat BY <1>1
  <2> QED BY <2>1, <2>2
<1>4. ASSUME Once(q, i), About(Head(q), i), NEW k \in DOMAIN Tail(q), About(Tail(q)[k], i)
      PROVE  FALSE
  <2>1. k + 1 = 1 BY <1>1, <1>4 DEF Once
  <2>2. k \in 1..Len(Tail(q)) BY <1>1
  <2> QED BY <2>1, <2>2
<1>5. About(Head(q), i) => Has(q, i) BY <1>1 DEF Has
<1> QED BY <1>2, <1>3, <1>4, <1>5 DEF Has, Once

LEMMA HasAppend ==
    ASSUME NEW X, NEW q \in Seq(X), NEW m \in X, NEW i
    PROVE  /\ Has(Append(q, m), i) <=> Has(q, i) \/ About(m, i)
           /\ Once(q, i) /\ ~(Has(q, i) /\ About(m, i)) => Once(Append(q, m), i)
<1> DEFINE r == Append(q, m)
           n == Len(q) + 1
<1>1. /\ DOMAIN r = DOMAIN q \union {n} /\ n \notin DOMAIN q /\ r[n] = m
      /\ \A k \in DOMAIN q : r[k] = q[k]
  BY AppendOf
<1> HIDE DEF r, n
<1>2. Has(r, i) <=> Has(q, i) \/ About(m, i) BY <1>1 DEF Has
<1>3. ASSUME Once(q, i), ~(Has(q, i) /\ About(m, i)), NEW j \in DOMAIN r, NEW k \in DOMAIN r,
             About(r[j], i), About(r[k], i)
      PROVE  j = k
  <2>1. CASE j \in DOMAIN q /\ k \in DOMAIN q BY <1>1, <1>3, <2>1 DEF Once
  <2>2. CASE j = n /\ k = n BY <2>2
  <2>3. CASE j = n /\ k \in DOMAIN q BY <1>1, <1>3, <2>3 DEF Has
  <2>4. CASE j \in DOMAIN q /\ k = n BY <1>1, <1>3, <2>4 DEF Has
  <2> QED BY <1>1, <2>1, <2>2, <2>3, <2>4
<1>4. Once(q, i) /\ ~(Has(q, i) /\ About(m, i)) => Once(r, i) BY <1>3 DEF Once
<1> QED BY <1>2, <1>4 DEF r

LEMMA HasCat ==
    ASSUME NEW X, NEW q \in Seq(X), NEW r \in Seq(X), NEW i
    PROVE  /\ Has(q \o r, i) => Has(q, i) \/ Has(r, i)
           /\ Once(q, i) /\ Once(r, i) /\ ~(Has(q, i) /\ Has(r, i)) => Once(q \o r, i)
<1> DEFINE s == q \o r
<1>1. /\ \A k \in DOMAIN s : \/ k \in DOMAIN q /\ s[k] = q[k]
                             \/ k - Len(q) \in DOMAIN r /\ k \notin DOMAIN q /\ s[k] = r[k - Len(q)]
      /\ \A k \in DOMAIN s : k \in Nat
      /\ Len(q) \in Nat
  BY CatOf
<1> HIDE DEF s
<1>2. Has(s, i) => Has(q, i) \/ Has(r, i) BY <1>1 DEF Has
<1>3. ASSUME Once(q, i), Once(r, i), ~(Has(q, i) /\ Has(r, i)),
             NEW j \in DOMAIN s, NEW k \in DOMAIN s, About(s[j], i), About(s[k], i)
      PROVE  j = k
  <2>1. CASE j \in DOMAIN q /\ k \in DOMAIN q BY <1>1, <1>3, <2>1 DEF Once
  <2>2. CASE j \notin DOMAIN q /\ k \notin DOMAIN q
    <3>1. j - Len(q) = k - Len(q) BY <1>1, <1>3, <2>2 DEF Once
    <3> QED BY <3>1, <1>1
  <2>3. CASE j \in DOMAIN q /\ k \notin DOMAIN q BY <1>1, <1>3, <2>3 DEF Has
  <2>4. CASE j \notin DOMAIN q /\ k \in DOMAIN q BY <1>1, <1>3, <2>4 DEF Has
  <2> QED BY <2>1, <2>2, <2>3, <2>4
<1>4. Once(q, i) /\ Once(r, i) /\ ~(Has(q, i) /\ Has(r, i)) => Once(s, i) BY <1>3 DEF Once
<1> QED BY <1>2, <1>4 DEF s

LEMMA HasNone == \A i : ~Has(<<>>, i) /\ Once(<<>>, i) /\ ~HasJob(<<>>, i) /\ OnceJob(<<>>, i)
BY DEF Has, Once, HasJob, OnceJob

LEMMA JobTail ==
    ASSUME NEW q \in Seq(Job), q # <<>>, NEW i
    PROVE  /\ HasJob(Tail(q), i) => HasJob(q, i)
           /\ OnceJob(q, i) => OnceJob(Tail(q), i)
           /\ OnceJob(q, i) /\ JobFor(Head(q), i) => ~HasJob(Tail(q), i)
           /\ JobFor(Head(q), i) => HasJob(q, i)
<1>1. /\ Head(q) = q[1] /\ 1 \in DOMAIN q
      /\ \A k \in DOMAIN Tail(q) : k + 1 \in DOMAIN q /\ Tail(q)[k] = q[k + 1] /\ k \in Nat
      /\ DOMAIN Tail(q) = 1..Len(Tail(q))
  BY TailOf
<1>2. HasJob(Tail(q), i) => HasJob(q, i) BY <1>1 DEF HasJob
<1>3. ASSUME OnceJob(q, i), NEW j \in DOMAIN Tail(q), NEW k \in DOMAIN Tail(q),
             JobFor(Tail(q)[j], i), JobFor(Tail(q)[k], i)
      PROVE  j = k
  <2>1. j + 1 = k + 1 BY <1>1, <1>3 DEF OnceJob
  <2>2. j \in Nat /\ k \in Nat BY <1>1
  <2> QED BY <2>1, <2>2
<1>4. ASSUME OnceJob(q, i), JobFor(Head(q), i), NEW k \in DOMAIN Tail(q), JobFor(Tail(q)[k], i)
      PROVE  FALSE
  <2>1. k + 1 = 1 BY <1>1, <1>4 DEF OnceJob
  <2>2. k \in 1..Len(Tail(q)) BY <1>1
  <2> QED BY <2>1, <2>2
<1>5. JobFor(Head(q), i) => HasJob(q, i) BY <1>1 DEF HasJob
<1> QED BY <1>2, <1>3, <1>4, <1>5 DEF HasJob, OnceJob

LEMMA JobAppend ==
    ASSUME NEW q \in Seq(Job), NEW m \in Job, NEW i
    PROVE  /\ HasJob(Append(q, m), i) <=> HasJob(q, i) \/ JobFor(m, i)
           /\ OnceJob(q, i) /\ ~(HasJob(q, i) /\ JobFor(m, i)) => OnceJob(Append(q, m), i)
<1> DEFINE r == Append(q, m)
           n == Len(q) + 1
<1>1. /\ DOMAIN r = DOMAIN q \union {n} /\ n \notin DOMAIN q /\ r[n] = m
      /\ \A k \in DOMAIN q : r[k] = q[k]
  BY AppendOf
<1> HIDE DEF r, n
<1>2. HasJob(r, i) <=> HasJob(q, i) \/ JobFor(m, i) BY <1>1 DEF HasJob
<1>3. ASSUME OnceJob(q, i), ~(HasJob(q, i) /\ JobFor(m, i)), NEW j \in DOMAIN r,
             NEW k \in DOMAIN r, JobFor(r[j], i), JobFor(r[k], i)
      PROVE  j = k
  <2>1. CASE j \in DOMAIN q /\ k \in DOMAIN q BY <1>1, <1>3, <2>1 DEF OnceJob
  <2>2. CASE j = n /\ k = n BY <2>2
  <2>3. CASE j = n /\ k \in DOMAIN q BY <1>1, <1>3, <2>3 DEF HasJob
  <2>4. CASE j \in DOMAIN q /\ k = n BY <1>1, <1>3, <2>4 DEF HasJob
  <2> QED BY <1>1, <2>1, <2>2, <2>3, <2>4
<1>4. OnceJob(q, i) /\ ~(HasJob(q, i) /\ JobFor(m, i)) => OnceJob(r, i) BY <1>3 DEF OnceJob
<1> QED BY <1>2, <1>4 DEF r

LEMMA BackedTail ==
    ASSUME NEW X, NEW q \in Seq(X), q # <<>>, NEW W, Backed(q, W)
    PROVE  Backed(Tail(q), W) /\ (Bears(Head(q)) => Token(Of(Head(q))) \in W)
BY TailOf DEF Backed

LEMMA BackedAppend ==
    ASSUME NEW X, NEW q \in Seq(X), NEW m \in X, NEW W, Backed(q, W),
           Bears(m) => Token(Of(m)) \in W
    PROVE  Backed(Append(q, m), W)
<1> DEFINE r == Append(q, m)
           n == Len(q) + 1
<1>1. /\ DOMAIN r = DOMAIN q \union {n} /\ n \notin DOMAIN q /\ r[n] = m
      /\ \A k \in DOMAIN q : r[k] = q[k]
  BY AppendOf
<1> HIDE DEF r, n
<1>2. Backed(r, W) BY <1>1 DEF Backed
<1> QED BY <1>2 DEF r

LEMMA BackedCat ==
    ASSUME NEW X, NEW q \in Seq(X), NEW r \in Seq(X), NEW W, Backed(q, W), Backed(r, W)
    PROVE  Backed(q \o r, W)
<1>1. \A k \in DOMAIN (q \o r) :
         \/ k \in DOMAIN q /\ (q \o r)[k] = q[k]
         \/ k - Len(q) \in DOMAIN r /\ k \notin DOMAIN q /\ (q \o r)[k] = r[k - Len(q)]
  BY CatOf
<1> QED BY <1>1 DEF Backed

-----------------------------------------------------------------------------
(* The invariant.                                                            *)

DesktopJobs(q) == {k \in DOMAIN q : ~q[k].slot}
Counts ==
    /\ output.pending = Len(output.items) + Cardinality(sending)
    /\ output.desktop = Cardinality(DesktopJobs(output.items))
                          + Cardinality({s \in sending : ~s.job.slot})

FramesInv ==
    /\ ProducerShape /\ WireShape /\ ConsumerShape
    /\ Custody /\ SlotsSound /\ Bounded /\ LatestAlone /\ Counts

(* What the device may still write, and what it keeps for the SDK.           *)
Fresh(i) == IF i \in CPU THEN ~cpu[i].published ELSE slots[i].state = "rendering"
Kept(i) == IF i \in CPU THEN cpu[i].published ELSE slots[i].state = "published"

(* Where a step may take a buffer from, and what it does to the device's     *)
(* side of it.                                                               *)
Flows(i) ==
    /\ Queued(i)' => Queued(i) \/ Fresh(i)
    /\ InHand(i)' => InHand(i) \/ Queued(i)
    /\ Has(unix, i)' => Has(unix, i) \/ InHand(i)
    /\ Has(mach, i)' => Has(mach, i) \/ InHand(i)
    /\ Leased(i)' => Leased(i) \/ Has(unix, i) \/ Has(mach, i)
Turns(i) ==
    /\ Has(unix, i) \/ Has(mach, i) \/ Leased(i) => Kept(i)'
    /\ IF i \in CPU THEN cpu'[i].published => cpu[i].published \/ Queued(i)'
       ELSE /\ slots[i].state = "free" => slots'[i].state \in {"free", "rendering"}
            /\ slots[i].state = "published" => slots'[i].state \in {"free", "published"}

-----------------------------------------------------------------------------
(* What the invariant says of one buffer.                                    *)

LEMMA Apart == Index \cap CPU = {} /\ \A l \in ImageLease : l.index \in Index /\ l.d \notin CPU
BY IndexAssumption DEF Index, CPU, ImageLease

LEMMA PlacedIs ==
    ASSUME NEW q, NEW W, Backed(q, W), NEW i, Has(q, i)
    PROVE  \E t \in W : t[1] = i
<1>1. PICK k \in DOMAIN q : About(q[k], i) BY DEF Has
<1>2. Token(Of(q[k])) \in W BY <1>1 DEF Backed, About
<1>3. Token(Of(q[k]))[1] = i BY <1>1 DEF About, Token
<1> QED BY <1>2, <1>3

LEMMA GrantedKept == \A t \in Granted : t[1] \in Buf /\ Kept(t[1]) /\ ~Fresh(t[1])
BY DEF Granted, Kept, Fresh

LEMMA JobType ==
    ASSUME NEW j \in Job
    PROVE  /\ j.slot \in BOOLEAN /\ (j.slot => j.index \in Index /\ j = SlotJob(j.index))
           /\ ~j.slot => j.op \in Op /\ j = DesktopJob(j.op)
BY DEF Job, SlotJob, DesktopJob

LEMMA OpType ==
    ASSUME NEW o \in Op
    PROVE  /\ o.kind \in OpKinds /\ o.epoch \in Nat /\ o.sequence \in Nat /\ o.anchor \in Pair
           /\ o.final \in BOOLEAN /\ o.revision \in Nat
           /\ o.kind \in CpuKinds => o.lease \in CpuLease
           /\ o.kind \in {"blit", "discard"} => o.lease \in ImageLease
           /\ o.kind = "drop" => o.d \in Drawable
           /\ Bears(o) <=> o.kind \in CpuKinds
           /\ Bears(o) => Of(o) = o.lease /\ o.lease.index \in CPU
<1>1. o.kind \notin Image \union {"release"} BY DEF Op, RawOp, OpKinds, CpuKinds, Image
<1>2. Bears(o) <=> o.kind \in CpuKinds BY <1>1 DEF Bears
<1>3. Bears(o) => Of(o) = o.lease BY <1>2 DEF Of
<1>4. o.kind \in CpuKinds => o.lease \in CpuLease BY DEF Op
<1>5. \A l \in CpuLease : l.index \in CPU BY DEF CpuLease
<1> QED BY <1>2, <1>3, <1>4, <1>5 DEF Op, RawOp

LEMMA JobForType ==
    ASSUME NEW j \in Job, NEW i, JobFor(j, i)
    PROVE  /\ j.slot => i \in Index /\ j = SlotJob(i)
           /\ ~j.slot => i \in CPU /\ Bears(j.op) /\ j.op.kind \in CpuKinds /\ j.op.lease.index = i
<1>1. CASE j.slot BY <1>1, JobType DEF JobFor
<1>2. CASE ~j.slot
  <2>1. j.op \in Op /\ About(j.op, i) BY <1>2, JobType DEF JobFor
  <2>2. Bears(j.op) /\ Of(j.op).index = i BY <2>1 DEF About
  <2> QED BY <1>2, <2>1, <2>2, OpType
<1> QED BY <1>1, <1>2, JobType

(* Placed after the send: the device keeps it.  Before: it is the device's.  *)
LEMMA PlacedKept ==
    ASSUME FramesInv, NEW i,
           Has(unix, i) \/ Has(mach, i) \/ Has(releases, i) \/ Has(back, i) \/ Leased(i)
    PROVE  \E t \in Granted : t[1] = i
<1>1. Ownership BY DEF FramesInv, Custody
<1>2. CASE Leased(i)
  <2>1. PICK l \in Live : l.index = i BY <1>2 DEF Leased
  <2>2. Token(l) \in Granted /\ Token(l)[1] = i BY <1>1, <2>1 DEF Ownership, Token
  <2> QED BY <2>2
<1> QED BY <1>1, <1>2, PlacedIs DEF Ownership

LEMMA JobWhere ==
    ASSUME FramesInv
    PROVE  /\ output.items \in Seq(Job)
           /\ \A k \in DOMAIN output.items : output.items[k] \in Job
           /\ \A s \in sending : s \in Sending /\ s.job \in Job /\ sending = {s}
           /\ \A k \in DOMAIN output.items : \A i : JobFor(output.items[k], i) =>
                 IF i \in CPU THEN ~output.items[k].slot /\ \E t \in Granted : t[1] = i
                 ELSE /\ output.items[k] = SlotJob(i) /\ i \in Index
                      /\ slots[i].state = "pending" /\ ~slots[i].release_pending
           /\ \A s \in sending : \A i : JobFor(s.job, i) =>
                 IF i \in CPU THEN ~s.job.slot /\ (s.stage # "sent" => \E t \in Granted : t[1] = i)
                 ELSE s.job = SlotJob(i) /\ i \in Index /\ HeldBy(s)
<1>0. ProducerShape /\ Custody /\ SlotsSound BY DEF FramesInv
<1>1. output.items \in Seq(Job) /\ \A k \in DOMAIN output.items : output.items[k] \in Job
  BY <1>0 DEF ProducerShape
<1>2. \A s \in sending : s \in Sending /\ s.job \in Job /\ sending = {s}
  BY <1>0 DEF ProducerShape, Sending
<1>3. ASSUME NEW j \in Job, Promised(j, Granted), ~j.slot, NEW i, JobFor(j, i)
      PROVE  i \in CPU /\ \E t \in Granted : t[1] = i
  <2>1. i \in CPU /\ Bears(j.op) /\ j.op.lease.index = i /\ j.op \in Op BY <1>3, JobForType, JobType
  <2>2. Token(Of(j.op)) \in Granted BY <1>3, <2>1 DEF Promised
  <2>3. Token(Of(j.op))[1] = i BY <2>1, OpType DEF Token
  <2> QED BY <2>1, <2>2, <2>3
<1>4. \A k \in DOMAIN output.items : Promised(output.items[k], Granted)
  BY <1>0 DEF Custody, Ownership
<1>5. \A s \in sending : s.stage # "sent" => Promised(s.job, Granted)
  BY <1>0 DEF Custody, Ownership
<1>6. ASSUME NEW k \in DOMAIN output.items, NEW i, JobFor(output.items[k], i)
      PROVE  IF i \in CPU THEN ~output.items[k].slot /\ \E t \in Granted : t[1] = i
             ELSE /\ output.items[k] = SlotJob(i) /\ i \in Index
                  /\ slots[i].state = "pending" /\ ~slots[i].release_pending
  <2>1. output.items[k] \in Job BY <1>1
  <2>2. CASE output.items[k].slot
    <3>1. i \in Index /\ output.items[k] = SlotJob(i) BY <1>6, <2>1, <2>2, JobForType
    <3>2. output.items[k].index = i BY <1>6, <2>2 DEF JobFor
    <3> QED BY <1>0, <2>2, <3>1, <3>2, Apart DEF SlotsSound
  <2>3. CASE ~output.items[k].slot BY <1>3, <1>4, <1>6, <2>1, <2>3
  <2> QED BY <2>1, <2>2, <2>3, JobType
<1>7. ASSUME NEW s \in sending, NEW i, JobFor(s.job, i)
      PROVE  IF i \in CPU THEN ~s.job.slot /\ (s.stage # "sent" => \E t \in Granted : t[1] = i)
             ELSE s.job = SlotJob(i) /\ i \in Index /\ HeldBy(s)
  <2>1. s.job \in Job BY <1>2
  <2>2. CASE s.job.slot
    <3>1. i \in Index /\ s.job = SlotJob(i) BY <1>7, <2>1, <2>2, JobForType
    <3> QED BY <1>0, <2>2, <3>1, Apart DEF SlotsSound
  <2>3. CASE ~s.job.slot
    <3>1. i \in CPU BY <1>7, <2>1, <2>3, JobForType
    <3>2. s.stage # "sent" => \E t \in Granted : t[1] = i BY <1>3, <1>5, <1>7, <2>1, <2>3
    <3> QED BY <2>3, <3>1, <3>2
  <2> QED BY <2>1, <2>2, <2>3, JobType
<1> QED BY <1>1, <1>2, <1>6, <1>7

LEMMA FreshNowhere ==
    ASSUME FramesInv, NEW i \in Buf, Fresh(i)
    PROVE  /\ ~Queued(i) /\ ~InHand(i) /\ ~Has(unix, i) /\ ~Has(mach, i)
           /\ ~Leased(i) /\ ~Has(releases, i) /\ ~Has(back, i)
<1>1. ~\E t \in Granted : t[1] = i BY GrantedKept
<1>2. ~(Has(unix, i) \/ Has(mach, i) \/ Has(releases, i) \/ Has(back, i) \/ Leased(i))
  BY <1>1, PlacedKept
<1>3. i \notin CPU => slots[i].state = "rendering" BY DEF Fresh
<1>4. ~Queued(i)
  <2> SUFFICES ASSUME NEW k \in DOMAIN output.items, JobFor(output.items[k], i) PROVE FALSE
    BY DEF Queued, HasJob
  <2> QED BY <1>1, <1>3, JobWhere
<1>5. ~InHand(i)
  <2> SUFFICES ASSUME NEW s \in sending, s.stage # "sent", JobFor(s.job, i) PROVE FALSE
    BY DEF InHand
  <2>1. CASE i \in CPU BY <1>1, <2>1, JobWhere
  <2>2. CASE i \notin CPU
    <3>1. s.job = SlotJob(i) /\ HeldBy(s) BY <2>2, JobWhere
    <3>2. s.job.index = i BY <3>1 DEF SlotJob
    <3> QED BY <1>3, <2>2, <3>1, <3>2 DEF HeldBy
  <2> QED BY <2>1, <2>2
<1> QED BY <1>2, <1>4, <1>5

-----------------------------------------------------------------------------
(* Steps of the device that leave the channels and the SDK alone.            *)

FramesStep == FramesInv' /\ \A i \in Buf : Flows(i) /\ Turns(i)

DownstreamSame ==
    /\ UNCHANGED wire
    /\ UNCHANGED <<desktop, order, leased, releases, frames, held, owed, active, taking,
                   waiting, signal, closed>>

Moves(i) ==
    IF i \in CPU THEN cpu'[i].published => cpu[i].published \/ Queued(i)'
    ELSE /\ slots[i].state = "free" => slots'[i].state \in {"free", "rendering"}
         /\ slots[i].state = "published" => slots'[i].state \in {"free", "published"}

(* The jobs after a step of the device.                                      *)
JobsStep ==
    /\ \A i \in Buf : /\ Queued(i)' => Queued(i) \/ Fresh(i)
                      /\ InHand(i)' => InHand(i) \/ Queued(i)
                      /\ OnceJob(output'.items, i)
                      /\ ~(Queued(i)' /\ InHand(i)')
    /\ \A k \in DOMAIN output'.items : Promised(output'.items[k], Granted')
    /\ \A s \in sending' : s.stage # "sent" => Promised(s.job, Granted')

LEMMA BackedMore ==
    ASSUME NEW q, NEW V, NEW W, Backed(q, V), V \subseteq W PROVE Backed(q, W)
BY DEF Backed

LEMMA KeptNext == \A t \in Granted' : Kept(t[1])'
BY DEF Granted, Kept

LEMMA LiveSame == ASSUME UNCHANGED <<desktop, frames, held>> PROVE Live' = Live
BY DEF Live

LEMMA DeviceDone ==
    ASSUME FramesInv, DownstreamSame, Granted \subseteq Granted', JobsStep,
           ProducerShape', SlotsSound', Bounded', Counts', \A i \in Buf : Moves(i)
    PROVE  FramesStep
<1>1. WireShape' BY DEF FramesInv, DownstreamSame, wire, WireShape
<1>2. ConsumerShape' /\ LatestAlone'
  BY DEF FramesInv, DownstreamSame, ConsumerShape, DesktopShape, LatestAlone
<1>3. /\ unix' = unix /\ mach' = mach /\ releases' = releases /\ back' = back /\ Live' = Live
  BY LiveSame DEF DownstreamSame, wire
<1>4. \A i \in Buf : /\ Has(unix, i)' <=> Has(unix, i)
                     /\ Has(mach, i)' <=> Has(mach, i)
                     /\ Has(releases, i)' <=> Has(releases, i)
                     /\ Has(back, i)' <=> Has(back, i)
                     /\ Leased(i)' <=> Leased(i)
  BY <1>3 DEF Has, Leased
<1>5. \A i \in Buf : /\ Once(unix, i)' <=> Once(unix, i)
                     /\ Once(mach, i)' <=> Once(mach, i)
                     /\ Once(releases, i)' <=> Once(releases, i)
                     /\ Once(back, i)' <=> Once(back, i)
  BY <1>3 DEF Once
<1>6. Ownership'
  <2>1. Ownership BY DEF FramesInv, Custody
  <2>2. /\ Backed(unix, Granted') /\ Backed(mach, Granted')
        /\ Backed(releases, Granted') /\ Backed(back, Granted')
    BY <2>1, BackedMore DEF Ownership
  <2>3. \A l \in Live : Token(l) \in Granted' BY <2>1 DEF Ownership
  <2> QED BY <1>3, <2>2, <2>3 DEF Ownership, JobsStep
<1>7. ASSUME NEW i \in Buf PROVE Alone(i)' /\ Flows(i) /\ Turns(i)
  <2>1. Alone(i) BY DEF FramesInv, Custody
  <2>2. Fresh(i) => /\ ~Queued(i) /\ ~InHand(i) /\ ~Has(unix, i) /\ ~Has(mach, i)
                    /\ ~Leased(i) /\ ~Has(releases, i) /\ ~Has(back, i)
    BY FreshNowhere
  <2>3. OnceJob(output.items, i)' BY DEF JobsStep, OnceJob
  <2>4. Alone(i)' BY <1>4, <1>5, <2>1, <2>2, <2>3 DEF JobsStep, Alone
  <2>5. Flows(i) BY <1>4 DEF Flows, JobsStep
  <2>6. Has(unix, i) \/ Has(mach, i) \/ Leased(i) => Kept(i)' BY PlacedKept, KeptNext
  <2>7. Turns(i) BY <2>6 DEF Turns, Moves
  <2> QED BY <2>4, <2>5, <2>7
<1>8. Custody' BY <1>6, <1>7 DEF Custody
<1> QED BY <1>1, <1>2, <1>7, <1>8 DEF FramesStep, FramesInv

LEMMA IdleJobs ==
    ASSUME FramesInv, UNCHANGED <<output, sending>>, Granted \subseteq Granted'
    PROVE  JobsStep
<1>1. \A i \in Buf : Alone(i) BY DEF FramesInv, Custody
<1>2. \A i \in Buf : /\ Queued(i)' <=> Queued(i)
                     /\ InHand(i)' <=> InHand(i)
  BY DEF Queued, InHand, HasJob
<1>3. Ownership BY DEF FramesInv, Custody
<1>4. /\ \A k \in DOMAIN output'.items : Promised(output'.items[k], Granted')
      /\ \A s \in sending' : s.stage # "sent" => Promised(s.job, Granted')
  BY <1>3 DEF Ownership, Promised
<1> QED BY <1>1, <1>2, <1>4 DEF JobsStep, Alone

LEMMA PushIs ==
    ASSUME output \in [items : Seq(Job), pending : Int, desktop : Int], NEW job \in Job, Push(job)
    PROVE  /\ output' \in [items : Seq(Job), pending : Int, desktop : Int]
           /\ output'.items = Append(output.items, job)
           /\ output'.pending = output.pending + 1
           /\ output'.desktop = output.desktop + IF job.slot THEN 0 ELSE 1
<1>1. output.items \in Seq(Job) /\ output.pending \in Int /\ output.desktop \in Int OBVIOUS
<1>2. Append(output.items, job) \in Seq(Job) BY <1>1
<1> QED BY <1>1, <1>2 DEF Push

LEMMA PushJobs ==
    ASSUME FramesInv, sending' = sending, Granted \subseteq Granted', NEW job \in Job, Push(job),
           \A i \in Buf : JobFor(job, i) => Fresh(i), Promised(job, Granted')
    PROVE  JobsStep
<1>1. \A i \in Buf : Alone(i) BY DEF FramesInv, Custody
<1>2. output.items \in Seq(Job) /\ output'.items = Append(output.items, job)
  BY PushIs DEF FramesInv, ProducerShape
<1>3. \A i \in Buf : InHand(i)' <=> InHand(i) BY DEF InHand
<1>4. ASSUME NEW i \in Buf
      PROVE  /\ Queued(i)' <=> Queued(i) \/ JobFor(job, i)
             /\ OnceJob(output'.items, i)
  <2>1. Queued(i)' <=> HasJob(output'.items, i) BY DEF Queued, HasJob
  <2>2. JobFor(job, i) => ~Queued(i) BY FreshNowhere
  <2>3. OnceJob(output.items, i) BY <1>1 DEF Alone
  <2> QED BY <1>2, <2>1, <2>2, <2>3, JobAppend DEF Queued
<1>5. \A i \in Buf : ~(Queued(i)' /\ InHand(i)') BY <1>1, <1>3, <1>4, FreshNowhere DEF Alone
<1>6. \A s \in sending' : s.stage # "sent" => Promised(s.job, Granted')
  BY DEF FramesInv, Custody, Ownership, Promised
<1>7. \A k \in DOMAIN output'.items : Promised(output'.items[k], Granted')
  <2>1. /\ DOMAIN output'.items = DOMAIN output.items \union {Len(output.items) + 1}
        /\ \A k \in DOMAIN output.items : output'.items[k] = output.items[k]
        /\ output'.items[Len(output.items) + 1] = job
    BY <1>2, AppendOf
  <2>2. \A k \in DOMAIN output.items : Promised(output.items[k], Granted')
    BY DEF FramesInv, Custody, Ownership, Promised
  <2> QED BY <2>1, <2>2
<1> QED BY <1>3, <1>4, <1>5, <1>6, <1>7 DEF JobsStep

(* The credits count the desktop jobs.                                       *)
LEMMA DesktopJobsAppend ==
    ASSUME NEW q \in Seq(Job), NEW job \in Job
    PROVE  /\ Cardinality(DesktopJobs(q)) \in Nat
           /\ Cardinality(DesktopJobs(Append(q, job)))
                = Cardinality(DesktopJobs(q)) + IF job.slot THEN 0 ELSE 1
<1> DEFINE r == Append(q, job)
           n == Len(q) + 1
<1>1. /\ DOMAIN r = DOMAIN q \union {n} /\ n \notin DOMAIN q /\ r[n] = job
      /\ \A k \in DOMAIN q : r[k] = q[k]
  BY AppendOf
<1>2. IsFiniteSet(DesktopJobs(q))
  <2>1. Len(q) \in Nat /\ DOMAIN q = 1..Len(q) OBVIOUS
  <2>2. IsFiniteSet(1..Len(q)) BY <2>1, FS_Interval
  <2> QED BY <2>1, <2>2, FS_Subset DEF DesktopJobs
<1> HIDE DEF r, n
<1>3. CASE job.slot
  <2>1. DesktopJobs(r) = DesktopJobs(q) BY <1>1, <1>3 DEF DesktopJobs
  <2> QED BY <1>2, <1>3, <2>1, FS_CardinalityType DEF r
<1>4. CASE ~job.slot
  <2>1. DesktopJobs(r) = DesktopJobs(q) \union {n} /\ n \notin DesktopJobs(q)
    BY <1>1, <1>4 DEF DesktopJobs
  <2>2. Cardinality(DesktopJobs(r)) = Cardinality(DesktopJobs(q)) + 1
    BY <1>2, <2>1, FS_AddElement
  <2> QED BY <1>2, <1>4, <2>2, FS_CardinalityType DEF r
<1> QED BY <1>3, <1>4

LEMMA DesktopJobsTail ==
    ASSUME NEW q \in Seq(Job), q # <<>>
    PROVE  /\ Cardinality(DesktopJobs(Tail(q))) \in Nat
           /\ Cardinality(DesktopJobs(q))
                = Cardinality(DesktopJobs(Tail(q))) + IF Head(q).slot THEN 0 ELSE 1
<1> DEFINE T == DesktopJobs(Tail(q))
           R == DesktopJobs(q) \ {1}
           f == [k \in T |-> k + 1]
<1>1. /\ Head(q) = q[1] /\ 1 \in DOMAIN q
      /\ \A k \in DOMAIN Tail(q) : k + 1 \in DOMAIN q /\ Tail(q)[k] = q[k + 1] /\ k \in Nat
      /\ \A k \in DOMAIN q : k # 1 => k - 1 \in DOMAIN Tail(q) /\ Tail(q)[k - 1] = q[k]
      /\ Tail(q) \in Seq(Job) /\ Head(q) \in Job
  BY TailOf
<1>2. IsFiniteSet(T) /\ IsFiniteSet(DesktopJobs(q)) /\ DOMAIN q \subseteq Nat
      /\ DOMAIN Tail(q) = 1..Len(Tail(q))
  <2>1. Len(q) \in Nat /\ DOMAIN q = 1..Len(q) OBVIOUS
  <2>2. Len(Tail(q)) \in Nat /\ DOMAIN Tail(q) = 1..Len(Tail(q)) BY <1>1
  <2>3. IsFiniteSet(1..Len(q)) /\ IsFiniteSet(1..Len(Tail(q))) BY <2>1, <2>2, FS_Interval
  <2> QED BY <2>1, <2>2, <2>3, FS_Subset DEF DesktopJobs
<1>3. f \in Bijection(T, R)
  <2>1. \A k \in T : k \in Nat /\ k # 0 /\ k + 1 \in R BY <1>1, <1>2 DEF DesktopJobs
  <2>2. \A k \in R : k - 1 \in T /\ k \in Nat BY <1>1, <1>2 DEF DesktopJobs
  <2> HIDE DEF T, R
  <2>3. f \in [T -> R] BY <2>1
  <2>4. \A a, b \in T : f[a] = f[b] => a = b BY <2>1
  <2>5. \A k \in R : \E a \in T : f[a] = k
    <3> TAKE k \in R
    <3>1. k - 1 \in T /\ f[k - 1] = k BY <2>2
    <3> QED BY <3>1
  <2> HIDE DEF f
  <2> QED BY <2>3, <2>4, <2>5 DEF Bijection, Injection, Surjection, IsInjective
<1>4. IsFiniteSet(R) BY <1>2, FS_RemoveElement
<1>5. Cardinality(T) = Cardinality(R)
  <2>1. ExistsBijection(T, R) BY <1>3 DEF ExistsBijection
  <2> HIDE DEF T, R
  <2> QED BY <1>2, <1>4, <2>1, FS_Bijection
<1>6. 1 \in DesktopJobs(q) <=> ~Head(q).slot BY <1>1 DEF DesktopJobs
<1>7. Cardinality(T) \in Nat BY <1>2, FS_CardinalityType
<1>8. CASE Head(q).slot
  <2>1. R = DesktopJobs(q) BY <1>6, <1>8
  <2> HIDE DEF T, R
  <2>2. Cardinality(DesktopJobs(q)) = Cardinality(T) + 0 BY <1>5, <1>7, <2>1
  <2> QED BY <1>7, <1>8, <2>2 DEF T
<1>9. CASE ~Head(q).slot
  <2>1. Cardinality(R) = Cardinality(DesktopJobs(q)) - 1 BY <1>2, <1>6, <1>9, FS_RemoveElement
  <2>2. Cardinality(DesktopJobs(q)) \in Nat BY <1>2, FS_CardinalityType
  <2> QED BY <1>5, <1>7, <1>9, <2>1, <2>2
<1> QED BY <1>1, <1>8, <1>9, JobType

LEMMA CountsPush ==
    ASSUME FramesInv, sending' = sending, NEW job \in Job, Push(job) PROVE Counts'
<1>1. /\ output \in [items : Seq(Job), pending : Int, desktop : Int]
      /\ output.items \in Seq(Job) /\ Counts /\ job.slot \in BOOLEAN
  BY JobType DEF FramesInv, ProducerShape
<1>2. /\ output'.items = Append(output.items, job)
      /\ output'.pending = output.pending + 1
      /\ output'.desktop = output.desktop + IF job.slot THEN 0 ELSE 1
  BY <1>1, PushIs
<1>3. Len(output'.items) = Len(output.items) + 1 BY <1>1, <1>2
<1>4. /\ Cardinality(DesktopJobs(output'.items))
                = Cardinality(DesktopJobs(output.items)) + IF job.slot THEN 0 ELSE 1
      /\ Cardinality(DesktopJobs(output.items)) \in Nat
  BY <1>1, <1>2, DesktopJobsAppend
<1>5. /\ Cardinality(sending) \in Nat /\ Cardinality({s \in sending : ~s.job.slot}) \in Nat
      /\ Len(output.items) \in Nat
  <2>1. IsFiniteSet(sending)
    <3>1. sending = {} \/ \E s \in Sending : sending = {s} BY DEF FramesInv, ProducerShape
    <3>2. CASE sending = {} BY <3>2, FS_EmptySet
    <3>3. ASSUME NEW s \in Sending, sending = {s} PROVE IsFiniteSet(sending) BY <3>3, FS_Singleton
    <3> QED BY <3>1, <3>2, <3>3
  <2>2. IsFiniteSet({s \in sending : ~s.job.slot}) BY <2>1, FS_Subset
  <2> QED BY <1>1, <2>1, <2>2, FS_CardinalityType
<1> QED BY <1>1, <1>2, <1>3, <1>4, <1>5 DEF Counts

-----------------------------------------------------------------------------
(* The registry and the render worker.                                       *)

LEMMA GrantedStays ==
    ASSUME \A c \in CPU : cpu[c].published =>
              cpu'[c].published /\ cpu'[c].epoch = cpu[c].epoch /\ cpu'[c].sequence = cpu[c].sequence,
           \A i \in Index :
              /\ slots[i].state = "published" /\ ~slots[i].release_pending
              /\ \A s \in sending : s.job = SlotJob(i) => s.stage = "sent" /\ s.sent
              => /\ slots'[i].state = "published" /\ ~slots'[i].release_pending
                 /\ slots'[i].epoch = slots[i].epoch /\ slots'[i].generation = slots[i].generation
                 /\ \A s \in sending' : s.job = SlotJob(i) => s.stage = "sent" /\ s.sent
    PROVE  Granted \subseteq Granted'
<1> SUFFICES ASSUME NEW t \in Granted PROVE t \in Granted' OBVIOUS
<1>1. t \in Buf \X Nat \X Nat /\ t[1] \in Buf BY DEF Granted
<1>2. CASE t[1] \in CPU BY <1>1, <1>2 DEF Granted
<1>3. CASE t[1] \notin CPU
  <2>1. t[1] \in Index BY <1>1, <1>3 DEF Buf
  <2>2. /\ slots[t[1]].state = "published" /\ ~slots[t[1]].release_pending
        /\ slots[t[1]].epoch = t[2] /\ slots[t[1]].generation = t[3]
        /\ \A s \in sending : s.job = SlotJob(t[1]) => s.stage = "sent" /\ s.sent
    BY <1>3 DEF Granted
  <2>3. /\ slots'[t[1]].state = "published" /\ ~slots'[t[1]].release_pending
        /\ slots'[t[1]].epoch = t[2] /\ slots'[t[1]].generation = t[3]
        /\ \A s \in sending' : s.job = SlotJob(t[1]) => s.stage = "sent" /\ s.sent
    BY <2>1, <2>2
  <2> QED BY <1>1, <1>3, <2>3 DEF Granted
<1> QED BY <1>2, <1>3

(* The jobs and the slots they name are as before.                           *)
LEMMA SlotsSame ==
    ASSUME SlotsSound, UNCHANGED <<slots, output, sending>>,
           \A d \in Drawable : drawables'[d].live => drawables'[d].epoch # 0,
           \A i \in Index : slots[i].state = "rendering" => drawables'[i[1]].live
    PROVE  SlotsSound'
<1>1. \A s \in sending' : s.job.slot => HeldBy(s)' BY DEF SlotsSound, HeldBy
<1>2. \A k \in DOMAIN output'.items : output'.items[k].slot =>
          /\ slots'[output'.items[k].index].state = "pending"
          /\ ~slots'[output'.items[k].index].release_pending
  BY DEF SlotsSound
<1>3. \A i \in Index : SlotSound(i)' BY DEF SlotsSound, SlotSound
<1> QED BY <1>1, <1>2, <1>3 DEF SlotsSound

LEMMA PublicationLimits ==
    /\ DesktopCredits \in Nat \ {0} /\ MaxEpoch \in Nat \ {0} /\ MaxGeneration \in Nat \ {0}
    /\ MaxOps \in Nat
BY PublicationAssumption, FramesAssumption

LEMMA RegisteredType ==
    ASSUME NEW r \in Registered
    PROVE  /\ r.live \in BOOLEAN /\ r.epoch \in 0..MaxEpoch /\ r.generation \in 0..MaxGeneration
           /\ r.published \in Pair
BY DEF Registered

LEMMA NewDrawableStep == ASSUME FramesInv, NewDrawable PROVE FramesStep
<1>1. PICK d \in Drawable : DrawableNew(d) BY DEF NewDrawable
<1>2. /\ UNCHANGED <<slots, output, sending>> /\ next_epoch < MaxEpoch
      /\ next_epoch' = next_epoch + 1
      /\ drawables' = [e \in Drawable |->
                       [(IF e = d THEN [EmptyDrawable EXCEPT !.live = TRUE] ELSE drawables[e])
                          EXCEPT !.epoch = next_epoch + 1]]
  BY <1>1 DEF DrawableNew
<1>3. DownstreamSame /\ UNCHANGED <<cpu, reply, stream, refs>>
  BY DEF NewDrawable, DownstreamSame, consumer, external
<1>4. ProducerShape /\ SlotsSound BY DEF FramesInv
<1>5. next_epoch + 1 \in 1..MaxEpoch BY <1>2, <1>4, PublicationLimits DEF ProducerShape
<1>6. \A e \in Drawable : /\ drawables'[e] \in Registered /\ drawables'[e].epoch = next_epoch + 1
                          /\ drawables[e].live => drawables'[e].live
  <2> TAKE e \in Drawable
  <2>1. drawables[e] \in Registered BY <1>4 DEF ProducerShape
  <2>2. CASE e = d
    <3>1. drawables'[e] = [[EmptyDrawable EXCEPT !.live = TRUE] EXCEPT !.epoch = next_epoch + 1]
      BY <1>2, <2>2
    <3>2. drawables'[e] = [live |-> TRUE, epoch |-> next_epoch + 1, generation |-> 0,
                           published |-> <<0, 0>>]
      BY <3>1 DEF EmptyDrawable
    <3>3. 0 \in 0..MaxGeneration /\ next_epoch + 1 \in 0..MaxEpoch /\ <<0, 0>> \in Pair
      BY <1>5, PublicationLimits DEF Pair
    <3> QED BY <3>2, <3>3 DEF Registered
  <2>3. CASE e # d
    <3>1. drawables'[e] = [drawables[e] EXCEPT !.epoch = next_epoch + 1] BY <1>2, <2>3
    <3> QED BY <1>5, <2>1, <3>1 DEF Registered
  <2> QED BY <2>2, <2>3
<1>7. ProducerShape'
  <2>1. drawables' \in [Drawable -> Registered] BY <1>2, <1>6
  <2>2. next_epoch' \in 0..MaxEpoch BY <1>2, <1>5
  <2> QED BY <1>2, <1>3, <1>4, <2>1, <2>2 DEF ProducerShape
<1>8. SlotsSound'
  <2>1. \A e \in Drawable : drawables'[e].live => drawables'[e].epoch # 0 BY <1>5, <1>6
  <2>2. \A i \in Index : slots[i].state = "rendering" => drawables'[i[1]].live
    BY <1>4, <1>6 DEF SlotsSound, SlotSound, Index
  <2> QED BY <1>2, <1>4, <2>1, <2>2, SlotsSame
<1>9. Bounded' BY <1>3 DEF FramesInv, Bounded, DownstreamSame, wire
<1>10. Counts' BY <1>2 DEF FramesInv, Counts
<1>11. Granted \subseteq Granted' BY <1>2, <1>3, GrantedStays
<1>12. \A i \in Buf : Moves(i) BY <1>2, <1>3 DEF Moves
<1> QED BY <1>2, <1>3, <1>7, <1>8, <1>9, <1>10, <1>11, <1>12, IdleJobs, DeviceDone

LEMMA SlotType ==
    ASSUME NEW slot \in Slot
    PROVE  /\ slot.state \in {"free", "rendering", "pending", "published"}
           /\ slot.sending \in BOOLEAN /\ slot.release_pending \in BOOLEAN /\ slot.image \in Image
           /\ slot.epoch \in 0..MaxEpoch /\ slot.generation \in 0..MaxGeneration
BY DEF Slot

(* One slot changes; no job names it.                                        *)
SlotBecomes(i, new) ==
    /\ slots' \in [Index -> Slot] /\ slots'[i] = new /\ new \in Slot
    /\ \A j \in Index : j # i => slots'[j] = slots[j]

(* The records keep their names and epochs.                                  *)
Alike ==
    /\ drawables' \in [Drawable -> Registered]
    /\ \A d \in Drawable : /\ drawables'[d].live = drawables[d].live
                           /\ drawables'[d].epoch = drawables[d].epoch

LEMMA AlikeSame == ASSUME FramesInv, UNCHANGED drawables PROVE Alike
BY DEF Alike, FramesInv, ProducerShape

LEMMA SlotAlone ==
    ASSUME FramesInv, Alike, UNCHANGED <<output, sending>>, NEW i \in Index, NEW new,
           SlotBecomes(i, new), slots[i].state \in {"free", "rendering"},
           ~new.sending, new.state = "rendering" => ~new.release_pending /\ drawables[i[1]].live,
           new.state \notin {"pending", "published"}
    PROVE  SlotsSound'
<1>1. ProducerShape /\ SlotsSound BY DEF FramesInv
<1>2. \A s \in sending' : s.job.slot => HeldBy(s)'
  <2> SUFFICES ASSUME NEW s \in sending, s.job.slot PROVE HeldBy(s)' OBVIOUS
  <2>1. HeldBy(s) /\ s.job.index \in Index BY <1>1, JobWhere, JobType DEF SlotsSound
  <2>2. s.job.index # i BY <2>1 DEF HeldBy
  <2>3. slots'[s.job.index] = slots[s.job.index] BY <2>1, <2>2 DEF SlotBecomes
  <2> QED BY <2>1, <2>3 DEF HeldBy
<1>3. \A k \in DOMAIN output'.items : output'.items[k].slot =>
        /\ slots'[output'.items[k].index].state = "pending"
        /\ ~slots'[output'.items[k].index].release_pending
  <2> SUFFICES ASSUME NEW k \in DOMAIN output.items, output.items[k].slot
               PROVE  /\ slots'[output.items[k].index].state = "pending"
                      /\ ~slots'[output.items[k].index].release_pending
    OBVIOUS
  <2>1. /\ slots[output.items[k].index].state = "pending" /\ output.items[k].index \in Index
        /\ ~slots[output.items[k].index].release_pending
    BY <1>1, JobWhere, JobType DEF SlotsSound
  <2>2. output.items[k].index # i BY <2>1
  <2> QED BY <2>1, <2>2 DEF SlotBecomes
<1>4. \A j \in Index : SlotSound(j)'
  <2> TAKE j \in Index
  <2>1. CASE j = i
    <3>1. i[1] \in Drawable BY DEF Index
    <3> QED BY <2>1, <3>1 DEF SlotSound, SlotBecomes, Alike
  <2>2. CASE j # i
    <3>1. SlotSound(j) /\ slots'[j] = slots[j] BY <1>1, <2>2 DEF SlotsSound, SlotBecomes
    <3>2. j[1] \in Drawable BY DEF Index
    <3> QED BY <3>1, <3>2 DEF SlotSound, Alike
  <2> QED BY <2>1, <2>2
<1>5. \A d \in Drawable : drawables'[d].live => drawables'[d].epoch # 0
  BY <1>1 DEF SlotsSound, Alike
<1> QED BY <1>1, <1>2, <1>3, <1>4, <1>5 DEF SlotsSound

LEMMA SlotAloneStep ==
    ASSUME FramesInv, Alike, UNCHANGED <<next_epoch, output, sending>>,
           DownstreamSame, UNCHANGED <<cpu, reply, stream>>, refs' \subseteq ImageLease,
           NEW i \in Index, NEW new,
           SlotBecomes(i, new), slots[i].state \in {"free", "rendering"},
           ~new.sending, new.state = "rendering" => ~new.release_pending /\ drawables[i[1]].live,
           new.state \in {"free", "rendering"}
    PROVE  FramesStep
<1>1. ProducerShape' BY DEF FramesInv, ProducerShape, SlotBecomes, Alike
<1>2. SlotsSound' BY SlotAlone
<1>3. Bounded' BY DEF FramesInv, Bounded, DownstreamSame, wire
<1>4. Counts' BY DEF FramesInv, Counts
<1>5. Granted \subseteq Granted'
  <2>1. \A j \in Index : slots[j].state = "published" => slots'[j] = slots[j] BY DEF SlotBecomes
  <2> QED BY <2>1, GrantedStays
<1>6. \A j \in Buf : Moves(j)
  <2> TAKE j \in Buf
  <2>1. j \notin CPU => j \in Index BY DEF Buf
  <2> QED BY <2>1 DEF Moves, SlotBecomes
<1> QED BY <1>1, <1>2, <1>3, <1>4, <1>5, <1>6, IdleJobs, DeviceDone

LEMMA BeginStep == ASSUME FramesInv, Begin PROVE FramesStep
<1>1. PICK d \in Drawable : Claim(d) BY DEF Begin
<1>2. PICK n \in 1..ExportSlots : /\ slots[<<d, n>>].state = "free" /\ drawables[d].live
                                  /\ slots' = [slots EXCEPT ![<<d, n>>].state = "rendering",
                                                            ![<<d, n>>].release_pending = FALSE]
  BY <1>1 DEF Claim
<1>3. UNCHANGED <<drawables, next_epoch, output, sending>> BY <1>1 DEF Claim
<1>4. DownstreamSame /\ UNCHANGED <<cpu, reply, stream, refs>>
  BY DEF Begin, DownstreamSame, consumer, external
<1>5. ProducerShape /\ SlotsSound BY DEF FramesInv
<1> DEFINE i == <<d, n>>
           new == [slots[i] EXCEPT !.state = "rendering", !.release_pending = FALSE]
<1>6. i \in Index /\ slots[i] \in Slot /\ i[1] = d BY <1>5 DEF ProducerShape, Index
<1>7. ~slots[i].sending BY <1>2, <1>5, <1>6 DEF SlotsSound, SlotSound
<1>8. new \in Slot /\ new.state = "rendering" /\ ~new.release_pending /\ ~new.sending
  BY <1>6, <1>7 DEF Slot
<1>9. slots' = [slots EXCEPT ![i] = new] BY <1>2, <1>5, <1>6 DEF ProducerShape
<1>10. slots[i].state = "free" BY <1>2
<1> HIDE DEF new, i
<1>11. SlotBecomes(i, new) BY <1>5, <1>6, <1>8, <1>9 DEF ProducerShape, SlotBecomes
<1>12. refs' \subseteq ImageLease BY <1>4, <1>5 DEF ProducerShape
<1>13. Alike BY <1>3, AlikeSame
<1> QED BY <1>2, <1>3, <1>4, <1>6, <1>8, <1>10, <1>11, <1>12, <1>13, SlotAloneStep

LEMMA AbortIs ==
    ASSUME FramesInv, NEW i \in Rendering, Abort(i)
    PROVE  /\ i \in Index /\ slots[i].state = "rendering"
           /\ \E new : SlotBecomes(i, new) /\ ~new.sending /\ new.state = "free"
<1> DEFINE new == [slots[i] EXCEPT !.state = "free", !.release_pending = FALSE]
<1>1. ProducerShape /\ SlotsSound BY DEF FramesInv
<1>2. i \in Index /\ slots[i].state = "rendering" /\ slots[i] \in Slot
  BY <1>1 DEF Rendering, ProducerShape
<1>3. ~slots[i].sending BY <1>1, <1>2 DEF SlotsSound, SlotSound
<1>4. new \in Slot /\ new.state = "free" /\ ~new.sending BY <1>2, <1>3 DEF Slot
<1>5. slots' = [slots EXCEPT ![i] = new] BY <1>1, <1>2 DEF ProducerShape, Abort
<1> HIDE DEF new
<1>6. SlotBecomes(i, new) BY <1>1, <1>2, <1>4, <1>5 DEF ProducerShape, SlotBecomes
<1> QED BY <1>2, <1>4, <1>6

LEMMA GiveUpStep == ASSUME FramesInv, GiveUp PROVE FramesStep
<1>1. PICK i \in Rendering : Abort(i) BY DEF GiveUp, RenderFails
<1>2. UNCHANGED <<drawables, next_epoch, output, sending>> BY DEF GiveUp, RenderFails
<1>3. DownstreamSame /\ UNCHANGED <<cpu, reply, stream, refs>>
  BY DEF GiveUp, DownstreamSame, consumer, external
<1>4. i \in Index /\ slots[i].state = "rendering" BY <1>1, AbortIs
<1>5. PICK new : SlotBecomes(i, new) /\ ~new.sending /\ new.state = "free" BY <1>1, AbortIs
<1>6. refs' \subseteq ImageLease BY <1>3 DEF FramesInv, ProducerShape
<1>7. Alike BY <1>2, AlikeSame
<1> QED BY <1>2, <1>3, <1>4, <1>5, <1>6, <1>7, SlotAloneStep

LEMMA PresentStep ==
    ASSUME FramesInv, NEW image \in Images, PresentImage(image) PROVE FramesStep
<1>1. ProducerShape /\ SlotsSound BY DEF FramesInv
<1>2. DownstreamSame /\ UNCHANGED <<cpu, reply, stream, next_epoch, sending>>
  BY DEF PresentImage, Present, DownstreamSame, consumer
<1>3. image \in Image BY FramesAssumption
<1>4. PICK i \in Rendering :
         LET d == drawables[i[1]]
             job == SlotJob(i)
         IN \/ /\ d.generation < MaxGeneration /\ HasRoom(job)
               /\ slots' = [slots EXCEPT ![i] = [@ EXCEPT !.state = "pending", !.image = image,
                                                   !.epoch = d.epoch,
                                                   !.generation = d.generation + 1]]
               /\ drawables' = [drawables EXCEPT ![i[1]].generation = @ + 1]
               /\ Push(job)
            \/ /\ drawables' = IF d.generation < MaxGeneration
                                THEN [drawables EXCEPT ![i[1]].generation = @ + 1]
                                ELSE drawables
               /\ Abort(i)
               /\ UNCHANGED output
  BY DEF PresentImage, Present
<1>5. ASSUME slots' \in [Index -> Slot] PROVE refs' \subseteq ImageLease
  <2>1. ASSUME NEW j \in Index
        PROVE  [d |-> j[1], index |-> j, epoch |-> slots'[j].epoch,
                generation |-> slots'[j].generation] \in ImageLease
    <3>1. slots'[j].epoch \in Nat /\ slots'[j].generation \in Nat
      BY <1>5, SlotType, PublicationLimits
    <3>2. j[1] \in Drawable BY DEF Index
    <3> QED BY <3>1, <3>2 DEF ImageLease
  <2>2. refs \subseteq ImageLease BY <1>1 DEF ProducerShape
  <2> QED BY <2>1, <2>2 DEF PresentImage, Rendering
<1>6. i \in Index /\ slots[i].state = "rendering" /\ slots[i] \in Slot /\ i[1] \in Drawable
  BY <1>1 DEF Rendering, ProducerShape, Index
<1> DEFINE r == drawables[i[1]]
<1>a. r \in Registered BY <1>1, <1>6 DEF ProducerShape
<1>b. ASSUME r.generation < MaxGeneration
      PROVE  /\ [r EXCEPT !.generation = @ + 1] \in Registered
             /\ r.live = [r EXCEPT !.generation = @ + 1].live
             /\ r.epoch = [r EXCEPT !.generation = @ + 1].epoch
  <2>1. r.generation + 1 \in 0..MaxGeneration
    BY <1>a, <1>b, RegisteredType, PublicationLimits
  <2> QED BY <1>a, <2>1 DEF Registered
<1>c. ASSUME r.generation < MaxGeneration,
             drawables' = [drawables EXCEPT ![i[1]].generation = @ + 1]
      PROVE  Alike
  <2>1. drawables' = [drawables EXCEPT ![i[1]] = [r EXCEPT !.generation = @ + 1]]
    BY <1>c
  <2> DEFINE n == [r EXCEPT !.generation = @ + 1]
  <2>2. n \in Registered /\ n.live = drawables[i[1]].live /\ n.epoch = drawables[i[1]].epoch
    BY <1>b, <1>c
  <2> HIDE DEF n, r
  <2> QED BY <1>1, <1>6, <2>1, <2>2 DEF Alike, ProducerShape, n
<1>7. CASE /\ drawables' = IF drawables[i[1]].generation < MaxGeneration
                            THEN [drawables EXCEPT ![i[1]].generation = @ + 1] ELSE drawables
           /\ Abort(i) /\ UNCHANGED output
  <2>3. Alike BY <1>7, <1>c, AlikeSame
  <2>1. PICK new : SlotBecomes(i, new) /\ ~new.sending /\ new.state = "free" BY <1>7, AbortIs
  <2>2. refs' \subseteq ImageLease BY <1>5, <2>1 DEF SlotBecomes
  <2> QED BY <1>2, <1>6, <1>7, <2>1, <2>2, <2>3, SlotAloneStep
<1>8. CASE /\ drawables[i[1]].generation < MaxGeneration
           /\ slots' = [slots EXCEPT ![i] = [@ EXCEPT !.state = "pending", !.image = image,
                                                 !.epoch = drawables[i[1]].epoch,
                                                 !.generation = drawables[i[1]].generation + 1]]
           /\ drawables' = [drawables EXCEPT ![i[1]].generation = @ + 1]
           /\ Push(SlotJob(i))
  <2> DEFINE new == [slots[i] EXCEPT !.state = "pending", !.image = image, !.epoch = r.epoch,
                                     !.generation = r.generation + 1]
  <2>1. r \in Registered /\ r.live /\ r.epoch # 0 /\ ~slots[i].release_pending /\ ~slots[i].sending
    BY <1>1, <1>6 DEF ProducerShape, SlotsSound, SlotSound
  <2>2. r.generation + 1 \in 0..MaxGeneration /\ r.epoch \in 0..MaxEpoch
    BY <1>8, <2>1, RegisteredType, PublicationLimits
  <2>3. /\ new \in Slot /\ new.state = "pending" /\ ~new.release_pending /\ ~new.sending
        /\ new.epoch # 0
    BY <1>3, <1>6, <2>1, <2>2 DEF Slot
  <2>4. slots' = [slots EXCEPT ![i] = new] BY <1>8
  <2>6. /\ drawables' \in [Drawable -> Registered]
        /\ \A d \in Drawable : /\ drawables'[d].live = drawables[d].live
                               /\ drawables'[d].epoch = drawables[d].epoch
    BY <1>8, <1>c DEF Alike
  <2> HIDE DEF new, r
  <2>7. SlotBecomes(i, new) BY <1>1, <1>6, <2>3, <2>4 DEF ProducerShape, SlotBecomes
  <2>8. refs' \subseteq ImageLease BY <1>5, <2>7 DEF SlotBecomes
  <2>9. SlotJob(i) \in Job /\ SlotJob(i).slot /\ SlotJob(i).index = i
    BY <1>6 DEF Job, SlotJob
  <2>10. output' \in [items : Seq(Job), pending : Int, desktop : Int]
         /\ output'.items = Append(output.items, SlotJob(i)) /\ output.items \in Seq(Job)
    BY <1>1, <1>8, <2>9, PushIs DEF ProducerShape
  <2>11. ProducerShape' BY <1>1, <1>2, <2>6, <2>7, <2>8, <2>10 DEF ProducerShape, SlotBecomes
  <2>12. SlotsSound'
    <3>1. \A s \in sending' : s.job.slot => HeldBy(s)'
      <4> SUFFICES ASSUME NEW s \in sending, s.job.slot PROVE HeldBy(s)' BY <1>2
      <4>1. HeldBy(s) /\ s.job.index \in Index BY <1>1, JobWhere, JobType DEF SlotsSound
      <4>2. s.job.index # i BY <1>6, <4>1 DEF HeldBy
      <4>3. slots'[s.job.index] = slots[s.job.index] BY <2>7, <4>1, <4>2 DEF SlotBecomes
      <4> QED BY <4>1, <4>3 DEF HeldBy
    <3>2. ASSUME NEW k \in DOMAIN output'.items, output'.items[k].slot
          PROVE  /\ slots'[output'.items[k].index].state = "pending"
                 /\ ~slots'[output'.items[k].index].release_pending
      <4>1. CASE k \in DOMAIN output.items
        <5>1. output'.items[k] = output.items[k] BY <2>9, <2>10, <4>1, AppendOf
        <5>2. /\ slots[output.items[k].index].state = "pending" /\ output.items[k].index \in Index
              /\ ~slots[output.items[k].index].release_pending
          BY <1>1, <3>2, <4>1, <5>1, JobWhere, JobType DEF SlotsSound
        <5>3. output.items[k].index # i BY <1>6, <5>2
        <5> QED BY <2>7, <5>1, <5>2, <5>3 DEF SlotBecomes
      <4>2. CASE k \notin DOMAIN output.items
        <5>1. output'.items[k] = SlotJob(i) BY <2>9, <2>10, <4>2, AppendOf
        <5> QED BY <2>3, <2>7, <2>9, <5>1 DEF SlotBecomes
      <4> QED BY <4>1, <4>2
    <3>3. \A j \in Index : SlotSound(j)'
      <4> TAKE j \in Index
      <4>1. j[1] \in Drawable BY DEF Index
      <4>2. CASE j = i BY <2>3, <2>7, <4>2 DEF SlotSound, SlotBecomes
      <4>3. CASE j # i
        <5>1. SlotSound(j) /\ slots'[j] = slots[j] BY <1>1, <2>7, <4>3 DEF SlotsSound, SlotBecomes
        <5> QED BY <1>2, <2>6, <4>1, <5>1 DEF SlotSound
      <4> QED BY <4>2, <4>3
    <3>4. \A d \in Drawable : drawables'[d].live => drawables'[d].epoch # 0
      BY <1>1, <2>6 DEF SlotsSound
    <3> QED BY <3>1, <3>2, <3>3, <3>4 DEF SlotsSound
  <2>13. Bounded' BY <1>2 DEF FramesInv, Bounded, DownstreamSame, wire
  <2>14. Counts' BY <1>2, <1>8, <2>9, CountsPush
  <2>15. Granted \subseteq Granted'
    <3>1. \A j \in Index : slots[j].state = "published" => slots'[j] = slots[j]
      BY <1>6, <2>7 DEF SlotBecomes
    <3> QED BY <1>2, <3>1, GrantedStays
  <2>16. \A j \in Buf : Moves(j)
    <3> TAKE j \in Buf
    <3>1. j \notin CPU => j \in Index BY DEF Buf
    <3> QED BY <1>2, <1>6, <2>7, <3>1 DEF Moves, SlotBecomes
  <2>17. \A j \in Buf : JobFor(SlotJob(i), j) => Fresh(j)
    BY <1>6, <2>9, Apart DEF JobFor, Fresh
  <2>18. Promised(SlotJob(i), Granted') BY <2>9 DEF Promised
  <2>19. JobsStep BY <1>2, <1>8, <2>9, <2>15, <2>17, <2>18, PushJobs
  <2> QED BY <1>2, <2>11, <2>12, <2>13, <2>14, <2>15, <2>16, <2>19, DeviceDone
<1> QED BY <1>4, <1>7, <1>8

-----------------------------------------------------------------------------
(* Desktop records.                                                          *)

LEMMA QueueIs ==
    ASSUME NEW op \in Op, NEW seeded \in BOOLEAN, FramesInv, Queue(op, seeded)
    PROVE  /\ Push(DesktopJob(op)) /\ DesktopJob(op) \in Job /\ ~DesktopJob(op).slot
           /\ DesktopJob(op).op = op
           /\ stream.queued < MaxOps /\ stream'.queued = stream.queued + 1
           /\ stream'.seeded = seeded
           /\ stream'.epoch = IF op.epoch # 0 THEN op.epoch ELSE stream.epoch
           /\ stream' \in [epoch : Nat, sequence : Nat, seeded : BOOLEAN, queued : Nat]
           /\ DownstreamSame /\ UNCHANGED <<slots, next_epoch, sending>>
<1>1. stream \in [epoch : Nat, sequence : Nat, seeded : BOOLEAN, queued : Nat]
  BY DEF FramesInv, ProducerShape
<1>2. op.epoch \in Nat /\ op.sequence \in Nat BY OpType
<1>3. DesktopJob(op) \in Job /\ ~DesktopJob(op).slot /\ DesktopJob(op).op = op
  BY DEF Job, DesktopJob
<1>4. stream' = [epoch |-> IF op.epoch # 0 THEN op.epoch ELSE stream.epoch,
                 sequence |-> IF op.epoch # 0 THEN op.sequence ELSE stream.sequence,
                 seeded |-> seeded, queued |-> stream.queued + 1]
  BY DEF Queue
<1>5. DownstreamSame /\ UNCHANGED <<slots, next_epoch, sending>> /\ stream.queued < MaxOps
      /\ Push(DesktopJob(op))
  BY DEF Queue, DownstreamSame, consumer
<1> QED BY <1>1, <1>2, <1>3, <1>4, <1>5

LEMMA QueueStep ==
    ASSUME FramesInv, NEW op \in Op, NEW seeded \in BOOLEAN, Queue(op, seeded),
           op.epoch <= stream.queued + 1, seeded => op.epoch # 0 \/ stream.epoch # 0,
           drawables' \in [Drawable -> Registered],
           \A d \in Drawable : drawables'[d].live => drawables'[d].epoch # 0,
           \A i \in Index : slots[i].state = "rendering" => drawables'[i[1]].live,
           refs' \subseteq ImageLease, reply' \in Reply, cpu' \in [CPU -> Allocation],
           \A c \in CPU : cpu[c].published => cpu'[c] = cpu[c],
           \A c \in CPU : cpu'[c].published => cpu'[c].epoch \in 1..MaxOps,
           Bears(op) => Token(op.lease) \in Granted',
           \A c \in CPU : cpu'[c].published =>
               cpu[c].published \/ (Bears(op) /\ op.lease.index = c),
           Bears(op) => ~cpu[op.lease.index].published
    PROVE  FramesStep
<1> DEFINE job == DesktopJob(op)
<1>1. /\ Push(job) /\ job \in Job /\ ~job.slot /\ job.op = op
      /\ stream.queued < MaxOps /\ stream'.queued = stream.queued + 1
      /\ stream'.seeded = seeded
      /\ stream'.epoch = IF op.epoch # 0 THEN op.epoch ELSE stream.epoch
      /\ stream' \in [epoch : Nat, sequence : Nat, seeded : BOOLEAN, queued : Nat]
      /\ DownstreamSame /\ UNCHANGED <<slots, next_epoch, sending>>
  BY QueueIs
<1> HIDE DEF job
<1>2. ProducerShape /\ SlotsSound /\ Bounded BY DEF FramesInv
<1>3. output' \in [items : Seq(Job), pending : Int, desktop : Int]
      /\ output'.items = Append(output.items, job) /\ output.items \in Seq(Job)
  BY <1>1, <1>2, PushIs DEF ProducerShape
<1>4. ProducerShape' BY <1>1, <1>2, <1>3 DEF ProducerShape
<1>5. SlotsSound'
  <2>1. \A s \in sending' : s.job.slot => HeldBy(s)' BY <1>1, <1>2 DEF SlotsSound, HeldBy
  <2>2. \A k \in DOMAIN output'.items : output'.items[k].slot =>
          /\ slots'[output'.items[k].index].state = "pending"
          /\ ~slots'[output'.items[k].index].release_pending
    <3> TAKE k \in DOMAIN output'.items
    <3>1. k \in DOMAIN output.items => output'.items[k] = output.items[k] BY <1>1, <1>3, AppendOf
    <3>2. k \notin DOMAIN output.items => output'.items[k] = job BY <1>1, <1>3, AppendOf
    <3> QED BY <1>1, <1>2, <3>1, <3>2 DEF SlotsSound
  <2>3. \A i \in Index : SlotSound(i)' BY <1>1, <1>2 DEF SlotsSound, SlotSound
  <2> QED BY <2>1, <2>2, <2>3 DEF SlotsSound
<1>6. Bounded'
  <2>1. stream.epoch \in Nat /\ stream.queued \in Nat /\ op.epoch \in Nat
    BY <1>2, OpType DEF ProducerShape
  <2>2. stream'.epoch <= stream'.queued /\ stream'.queued <= MaxOps
    BY <1>1, <1>2, <2>1, PublicationLimits DEF Bounded
  <2>3. stream'.seeded => stream'.epoch # 0 BY <1>1, <2>1
  <2> QED BY <1>1, <1>2, <2>2, <2>3 DEF Bounded, DownstreamSame, wire
<1>7. Counts' BY <1>1, CountsPush
<1>8. Granted \subseteq Granted' BY <1>1, GrantedStays
<1>9. \A i \in Buf : JobFor(job, i) => Fresh(i)
  <2> TAKE i \in Buf
  <2>1. JobFor(job, i) => i \in CPU /\ Bears(op) /\ op.lease.index = i BY <1>1, JobForType
  <2> QED BY <2>1 DEF Fresh
<1>10. Promised(job, Granted') BY <1>1, OpType DEF Promised
<1>11. JobsStep BY <1>1, <1>8, <1>9, <1>10, PushJobs
<1>12. \A i \in Buf : Moves(i)
  <2> TAKE i \in Buf
  <2>1. CASE i \notin CPU BY <1>1, <2>1 DEF Moves
  <2>2. CASE i \in CPU /\ Bears(op) /\ op.lease.index = i
    <3>1. JobFor(job, i) BY <1>1, <2>2, OpType DEF JobFor, About
    <3>2. HasJob(output'.items, i) BY <1>1, <1>3, <3>1, JobAppend
    <3>3. Queued(i)' BY <3>2 DEF Queued, HasJob
    <3> QED BY <2>2, <3>3 DEF Moves
  <2>3. CASE i \in CPU /\ ~(Bears(op) /\ op.lease.index = i) BY <2>3 DEF Moves
  <2> QED BY <2>1, <2>2, <2>3
<1> QED BY <1>1, <1>4, <1>5, <1>6, <1>7, <1>8, <1>11, <1>12, DeviceDone

(* Records that carry no allocation.                                         *)
LEMMA PlainStep ==
    ASSUME FramesInv, NEW op \in Op, NEW seeded \in BOOLEAN, Queue(op, seeded),
           op.epoch <= stream.queued + 1, seeded => op.epoch # 0 \/ stream.epoch # 0,
           drawables' = drawables, refs' \subseteq ImageLease, reply' \in Reply, cpu' = cpu,
           op.kind \notin CpuKinds
    PROVE  FramesStep
<1>1. ProducerShape /\ SlotsSound /\ Bounded BY DEF FramesInv
<1>2. ~Bears(op) BY OpType
<1>3. /\ drawables' \in [Drawable -> Registered] /\ cpu' \in [CPU -> Allocation]
      /\ \A c \in CPU : cpu'[c].published => cpu'[c].epoch \in 1..MaxOps
  BY <1>1 DEF ProducerShape, Bounded
<1>4. \A d \in Drawable : drawables'[d].live => drawables'[d].epoch # 0 BY <1>1 DEF SlotsSound
<1>5. \A i \in Index : slots[i].state = "rendering" => drawables'[i[1]].live
  BY <1>1 DEF SlotsSound, SlotSound
<1> QED BY <1>2, <1>3, <1>4, <1>5, QueueStep

LEMMA StreamType ==
    ASSUME FramesInv
    PROVE  /\ stream.epoch \in Nat /\ stream.sequence \in Nat /\ stream.queued \in Nat
           /\ stream.seeded \in BOOLEAN /\ stream.epoch <= stream.queued
           /\ stream.seeded => stream.epoch # 0
           /\ refs \subseteq ImageLease /\ reply \in Reply /\ cpu \in [CPU -> Allocation]
BY DEF FramesInv, ProducerShape, Bounded

(* The records the device makes.                                             *)
LEMMA RecordIs ==
    ASSUME NEW kind \in OpKinds, NEW e \in Nat, NEW q \in Nat
    PROVE  /\ Record(kind, e, q) \in RawOp /\ Record(kind, e, q).kind = kind
           /\ Record(kind, e, q).epoch = e /\ Record(kind, e, q).sequence = q
           /\ kind \in {"paint", "readback", "reset"} => Record(kind, e, q) \in Op
<1>1. Zero \in Pair BY DEF Zero, Pair
<1> QED BY <1>1 DEF Record, RawOp, Op, CpuKinds

LEMMA ImageRecord ==
    ASSUME NEW base \in RawOp, base.kind \in {"blit", "discard"}, NEW l \in ImageLease
    PROVE  /\ [base EXCEPT !.lease = l, !.d = l.d] \in Op
           /\ [base EXCEPT !.lease = l, !.d = l.d].kind = base.kind
           /\ [base EXCEPT !.lease = l, !.d = l.d].epoch = base.epoch
           /\ \A final \in BOOLEAN :
                 /\ [base EXCEPT !.lease = l, !.d = l.d, !.final = final] \in Op
                 /\ [base EXCEPT !.lease = l, !.d = l.d, !.final = final].kind = base.kind
                 /\ [base EXCEPT !.lease = l, !.d = l.d, !.final = final].epoch = base.epoch
<1>1. l.d \in Drawable /\ l \in AnyLease BY DEF ImageLease, AnyLease, Index
<1>2. base.kind \notin CpuKinds /\ base.kind # "drop" BY DEF CpuKinds
<1>3. /\ [base EXCEPT !.lease = l, !.d = l.d] \in RawOp
      /\ [base EXCEPT !.lease = l, !.d = l.d].kind = base.kind
      /\ [base EXCEPT !.lease = l, !.d = l.d].epoch = base.epoch
      /\ [base EXCEPT !.lease = l, !.d = l.d].lease = l
  BY <1>1 DEF RawOp
<1>4. ASSUME NEW final \in BOOLEAN
      PROVE  /\ [base EXCEPT !.lease = l, !.d = l.d, !.final = final] \in RawOp
             /\ [base EXCEPT !.lease = l, !.d = l.d, !.final = final].kind = base.kind
             /\ [base EXCEPT !.lease = l, !.d = l.d, !.final = final].epoch = base.epoch
             /\ [base EXCEPT !.lease = l, !.d = l.d, !.final = final].lease = l
  BY <1>1 DEF RawOp
<1> QED BY <1>2, <1>3, <1>4 DEF Op

LEMMA AnchorRecord ==
    ASSUME NEW base \in RawOp, base.kind = "reset", NEW a \in Pair
    PROVE  /\ [base EXCEPT !.anchor = a] \in Op
           /\ [base EXCEPT !.anchor = a].kind = "reset"
           /\ [base EXCEPT !.anchor = a].epoch = base.epoch
<1>1. /\ [base EXCEPT !.anchor = a] \in RawOp
      /\ [base EXCEPT !.anchor = a].kind = "reset"
      /\ [base EXCEPT !.anchor = a].epoch = base.epoch
  BY DEF RawOp
<1> QED BY <1>1 DEF Op, CpuKinds

LEMMA DropRecord ==
    ASSUME NEW base \in RawOp, base.kind = "drop", NEW d \in Drawable, NEW a \in Pair
    PROVE  /\ [base EXCEPT !.d = d, !.anchor = a] \in Op
           /\ [base EXCEPT !.d = d, !.anchor = a].kind = "drop"
           /\ [base EXCEPT !.d = d, !.anchor = a].epoch = base.epoch
<1>1. /\ [base EXCEPT !.d = d, !.anchor = a] \in RawOp
      /\ [base EXCEPT !.d = d, !.anchor = a].kind = "drop"
      /\ [base EXCEPT !.d = d, !.anchor = a].epoch = base.epoch
      /\ [base EXCEPT !.d = d, !.anchor = a].d = d
  BY DEF RawOp
<1> QED BY <1>1 DEF Op, CpuKinds

LEMMA CpuRecordIs ==
    ASSUME NEW base \in RawOp, base.kind \in CpuKinds, NEW l \in CpuLease, NEW a \in Pair
    PROVE  /\ [base EXCEPT !.lease = l, !.anchor = a] \in Op
           /\ [base EXCEPT !.lease = l, !.anchor = a].kind = base.kind
           /\ [base EXCEPT !.lease = l, !.anchor = a].epoch = base.epoch
           /\ [base EXCEPT !.lease = l, !.anchor = a].lease = l
<1>1. l \in AnyLease BY DEF AnyLease
<1>2. base.kind \notin {"blit", "discard", "drop"} BY DEF CpuKinds
<1>3. /\ [base EXCEPT !.lease = l, !.anchor = a] \in RawOp
      /\ [base EXCEPT !.lease = l, !.anchor = a].kind = base.kind
      /\ [base EXCEPT !.lease = l, !.anchor = a].epoch = base.epoch
      /\ [base EXCEPT !.lease = l, !.anchor = a].lease = l
  BY <1>1 DEF RawOp
<1> QED BY <1>2, <1>3 DEF Op

LEMMA NextIs ==
    ASSUME FramesInv, NEW kind \in OpKinds
    PROVE  /\ Next1(kind) \in RawOp /\ Next1(kind).kind = kind
           /\ Next1(kind).epoch = stream.epoch
           /\ kind \in {"paint", "readback", "reset"} => Next1(kind) \in Op
<1> DEFINE e == stream.epoch
           q == stream.sequence + 1
<1>1. e \in Nat /\ q \in Nat BY StreamType
<1>2. Next1(kind) = Record(kind, e, q) BY DEF Next1
<1> HIDE DEF e, q
<1>3. e = stream.epoch BY DEF e
<1> QED BY <1>1, <1>2, <1>3, RecordIs

LEMMA PaintStep == ASSUME FramesInv, Paint PROVE FramesStep
<1> DEFINE op == Next1("paint")
<1>1. stream.epoch \in Nat /\ stream.sequence + 1 \in Nat BY StreamType
<1>2. op \in Op /\ op.epoch = stream.epoch /\ op.kind = "paint"
  BY <1>1, NextIs, RecordIs DEF OpKinds
<1>3. Queue(op, TRUE) /\ stream.seeded /\ UNCHANGED <<drawables, cpu, reply, refs>> BY DEF Paint
<1> HIDE DEF op
<1>4. op.epoch <= stream.queued + 1 /\ op.epoch # 0 BY <1>2, <1>3, StreamType
<1>5. op.kind \notin CpuKinds BY <1>2 DEF CpuKinds
<1> QED BY <1>2, <1>3, <1>4, <1>5, StreamType, PlainStep

LEMMA BlitStep == ASSUME FramesInv, Blit PROVE FramesStep
<1>0. PICK l \in refs, final \in BOOLEAN :
          /\ stream.seeded
          /\ Queue([Next1("blit") EXCEPT !.lease = l, !.d = l.d, !.final = final], TRUE)
          /\ refs' = IF final THEN refs \ {l} ELSE refs
          /\ UNCHANGED <<drawables, cpu, reply>>
  BY DEF Blit
<1> DEFINE op == [Next1("blit") EXCEPT !.lease = l, !.d = l.d, !.final = final]
<1>1. stream.epoch \in Nat /\ stream.sequence + 1 \in Nat /\ l \in ImageLease BY StreamType
<1>2. op \in Op /\ op.epoch = stream.epoch /\ op.kind = "blit"
  <2> DEFINE base == Next1("blit")
  <2>1. base \in RawOp /\ base.kind = "blit" /\ base.epoch = stream.epoch
    BY <1>1, NextIs, RecordIs DEF OpKinds
  <2> HIDE DEF base
  <2>2. op = [base EXCEPT !.lease = l, !.d = l.d, !.final = final] BY DEF base
  <2> HIDE DEF op
  <2> QED BY <1>1, <2>1, <2>2, ImageRecord
<1>3. Queue(op, TRUE) BY <1>0
<1> HIDE DEF op
<1>4. op.epoch <= stream.queued + 1 /\ op.epoch # 0 BY <1>0, <1>2, StreamType
<1>5. op.kind \notin CpuKinds BY <1>2 DEF CpuKinds
<1>6. refs' \subseteq ImageLease /\ drawables' = drawables /\ cpu' = cpu /\ reply' \in Reply
  BY <1>0, StreamType
<1> QED BY <1>2, <1>3, <1>4, <1>5, <1>6, PlainStep

LEMMA DiscardStep == ASSUME FramesInv, Discard PROVE FramesStep
<1>0. PICK l \in refs :
          /\ Queue([IF stream.seeded THEN Next1("discard") ELSE Record("discard", 0, 0)
                      EXCEPT !.lease = l, !.d = l.d], stream.seeded)
          /\ refs' = refs \ {l}
          /\ UNCHANGED <<drawables, cpu, reply>>
  BY DEF Discard
<1> DEFINE op == [IF stream.seeded THEN Next1("discard") ELSE Record("discard", 0, 0)
                      EXCEPT !.lease = l, !.d = l.d]
<1>1. stream.epoch \in Nat /\ stream.sequence + 1 \in Nat /\ l \in ImageLease BY StreamType
<1>2. /\ op \in Op /\ op.kind = "discard"
      /\ op.epoch = IF stream.seeded THEN stream.epoch ELSE 0
  <2> DEFINE base == IF stream.seeded THEN Next1("discard") ELSE Record("discard", 0, 0)
  <2>1. /\ base \in RawOp /\ base.kind = "discard"
        /\ base.epoch = IF stream.seeded THEN stream.epoch ELSE 0
    BY <1>1, NextIs, RecordIs DEF OpKinds
  <2> HIDE DEF base
  <2>2. op = [base EXCEPT !.lease = l, !.d = l.d] BY DEF base
  <2> HIDE DEF op
  <2> QED BY <1>1, <2>1, <2>2, ImageRecord
<1>3. Queue(op, stream.seeded) BY <1>0
<1> HIDE DEF op
<1>4. op.epoch <= stream.queued + 1 /\ (stream.seeded => op.epoch # 0 \/ stream.epoch # 0)
      /\ stream.seeded \in BOOLEAN
  BY <1>0, <1>2, StreamType
<1>5. op.kind \notin CpuKinds BY <1>2 DEF CpuKinds
<1>6. refs' \subseteq ImageLease /\ drawables' = drawables /\ cpu' = cpu /\ reply' \in Reply
  BY <1>0, StreamType
<1> QED BY <1>2, <1>3, <1>4, <1>5, <1>6, PlainStep

LEMMA DeviceResetStep == ASSUME FramesInv, DeviceReset PROVE FramesStep
<1> DEFINE op == [Record("reset", 0, 0) EXCEPT !.anchor = <<stream.queued + 1, 0>>]
<1>1. <<stream.queued + 1, 0>> \in Pair BY StreamType DEF Pair
<1>2. op \in Op /\ op.epoch = 0 /\ op.kind = "reset"
  <2>1. /\ Record("reset", 0, 0) \in RawOp /\ Record("reset", 0, 0).kind = "reset"
        /\ Record("reset", 0, 0).epoch = 0
    BY RecordIs DEF OpKinds
  <2> QED BY <1>1, <2>1, AnchorRecord
<1>3. Queue(op, FALSE) /\ refs' = {} /\ UNCHANGED <<drawables, cpu, reply>> BY DEF DeviceReset
<1> HIDE DEF op
<1>4. op.epoch <= stream.queued + 1 BY <1>2, StreamType
<1>5. op.kind \notin CpuKinds BY <1>2 DEF CpuKinds
<1>6. refs' \subseteq ImageLease BY <1>3
<1> QED BY <1>2, <1>3, <1>4, <1>5, <1>6, StreamType, PlainStep

LEMMA ReadbackStep == ASSUME FramesInv, Readback PROVE FramesStep
<1> DEFINE op == Next1("readback")
<1>1. stream.epoch \in Nat /\ stream.sequence + 1 \in Nat /\ reply \in Reply BY StreamType
<1>2. op \in Op /\ op.epoch = stream.epoch /\ op.kind = "readback"
  BY <1>1, NextIs, RecordIs DEF OpKinds
<1>3. Queue(op, TRUE) /\ stream.seeded /\ UNCHANGED <<drawables, cpu, refs>> BY DEF Readback
<1> HIDE DEF op
<1>4. op.epoch <= stream.queued + 1 /\ op.epoch # 0 BY <1>2, <1>3, StreamType
<1>5. op.kind \notin CpuKinds BY <1>2 DEF CpuKinds
<1>6. reply' \in Reply BY <1>1 DEF Readback, ReplyBegin, Reply
<1>7. refs' \subseteq ImageLease BY <1>3, StreamType
<1> QED BY <1>2, <1>3, <1>4, <1>5, <1>6, <1>7, PlainStep

LEMMA FreeDrawableStep == ASSUME FramesInv, FreeDrawable PROVE FramesStep
<1>1. PICK d \in Drawable :
        /\ DrawableFree(d)
        /\ IF drawables[d].published = Zero
             THEN UNCHANGED <<slots, next_epoch, output, sending, consumer, wire, stream, answer,
                              shown>>
             ELSE Queue([Record("drop", 0, 0) EXCEPT !.d = d, !.anchor = drawables[d].published],
                        stream.seeded)
        /\ refs' = {l \in refs : l.d # d}
        /\ UNCHANGED <<cpu, reply>>
  BY DEF FreeDrawable
<1>2. ProducerShape /\ SlotsSound BY DEF FramesInv
<1>3. EmptyDrawable \in Registered
  <2>1. 0 \in 0..MaxEpoch /\ 0 \in 0..MaxGeneration /\ <<0, 0>> \in Pair
    BY PublicationLimits DEF Pair
  <2> QED BY <2>1 DEF EmptyDrawable, Registered
<1>4. /\ drawables' = [drawables EXCEPT ![d] = EmptyDrawable] /\ Drained(d)
  BY <1>1 DEF DrawableFree
<1>5. /\ drawables' \in [Drawable -> Registered] /\ ~drawables'[d].live
      /\ \A e \in Drawable : e # d => drawables'[e] = drawables[e]
  BY <1>2, <1>3, <1>4 DEF ProducerShape, EmptyDrawable
<1>6. \A e \in Drawable : drawables'[e].live => drawables'[e].epoch # 0
  BY <1>2, <1>5 DEF SlotsSound
<1>7. \A i \in Index : slots[i].state = "rendering" => drawables'[i[1]].live
  <2> TAKE i \in Index
  <2>1. i[1] \in Drawable BY DEF Index
  <2>2. slots[i].state = "rendering" => drawables[i[1]].live /\ i[1] # d
    BY <1>2, <1>4 DEF SlotsSound, SlotSound, Drained
  <2> QED BY <1>5, <2>1, <2>2
<1>8. refs' \subseteq ImageLease /\ cpu' = cpu /\ reply' = reply BY <1>1, <1>2 DEF ProducerShape
<1>9. CASE UNCHANGED <<slots, next_epoch, output, sending, consumer, wire, stream, answer, shown>>
  <2>1. DownstreamSame BY <1>9 DEF DownstreamSame, consumer
  <2>2. ProducerShape' BY <1>2, <1>5, <1>8, <1>9 DEF ProducerShape
  <2>3. SlotsSound' BY <1>2, <1>6, <1>7, <1>9, SlotsSame
  <2>4. Bounded' BY <1>8, <1>9 DEF FramesInv, Bounded, wire
  <2>5. Counts' BY <1>9 DEF FramesInv, Counts
  <2>6. Granted \subseteq Granted' BY <1>8, <1>9, GrantedStays
  <2>7. \A i \in Buf : Moves(i) BY <1>8, <1>9 DEF Moves
  <2> QED BY <1>9, <2>1, <2>2, <2>3, <2>4, <2>5, <2>6, <2>7, IdleJobs, DeviceDone
<1>10. CASE Queue([Record("drop", 0, 0) EXCEPT !.d = d, !.anchor = drawables[d].published],
                  stream.seeded)
  <2> DEFINE op == [Record("drop", 0, 0) EXCEPT !.d = d, !.anchor = drawables[d].published]
  <2>1. drawables[d].published \in Pair BY <1>2, RegisteredType DEF ProducerShape
  <2>2. op \in Op /\ op.epoch = 0 /\ op.kind = "drop"
    <3>1. /\ Record("drop", 0, 0) \in RawOp /\ Record("drop", 0, 0).kind = "drop"
          /\ Record("drop", 0, 0).epoch = 0
      BY RecordIs DEF OpKinds
    <3> QED BY <2>1, <3>1, DropRecord
  <2>3. Queue(op, stream.seeded) BY <1>10
  <2> HIDE DEF op
  <2>4. ~Bears(op) BY <2>2, OpType DEF CpuKinds
  <2>5. op.epoch <= stream.queued + 1 /\ (stream.seeded => op.epoch # 0 \/ stream.epoch # 0)
        /\ stream.seeded \in BOOLEAN
    BY <2>2, StreamType
  <2>6. /\ reply' \in Reply /\ cpu' \in [CPU -> Allocation]
        /\ \A c \in CPU : cpu'[c].published => cpu'[c].epoch \in 1..MaxOps
    BY <1>8, StreamType DEF FramesInv, Bounded
  <2> QED BY <1>5, <1>6, <1>7, <1>8, <2>2, <2>3, <2>4, <2>5, <2>6, QueueStep
<1> QED BY <1>1, <1>9, <1>10

LEMMA CpuRecordStep == ASSUME FramesInv, NEW kind \in CpuKinds, CpuRecord(kind) PROVE FramesStep
<1> DEFINE e == IF kind = "seed" THEN stream.epoch + 1 ELSE stream.epoch
           q == IF kind = "seed" THEN 1 ELSE stream.sequence + 1
           base == IF kind = "seed" THEN Record(kind, stream.epoch + 1, 1) ELSE Next1(kind)
           anchor == IF kind = "return" THEN <<stream.queued + 1, 0>> ELSE Zero
<1>1. base = Record(kind, e, q) /\ base.epoch = e /\ base.sequence = q BY DEF Next1, Record
<1>2. PICK c \in CPU, bytes \in Sizes :
        LET l == [d |-> c, index |-> c, epoch |-> base.epoch, generation |-> base.sequence]
        IN /\ kind = "seed" \/ stream.seeded
           /\ CpuClaim(c, base.epoch, base.sequence, bytes)
           /\ Queue([base EXCEPT !.lease = l, !.anchor = anchor], kind # "return")
           /\ UNCHANGED <<drawables, reply, refs>>
  BY DEF CpuRecord
<1> DEFINE l == [d |-> c, index |-> c, epoch |-> e, generation |-> q]
           op == [Record(kind, e, q) EXCEPT !.lease = l, !.anchor = anchor]
           new == [published |-> TRUE, epoch |-> e, sequence |-> q, bytes |-> bytes]
<1>3. e \in Nat /\ q \in Nat /\ bytes \in Nat BY StreamType, CpuAssumption
<1>4. l \in CpuLease BY <1>3 DEF CpuLease
<1>5. anchor \in Pair BY StreamType DEF Pair, Zero
<1> HIDE DEF e, q, anchor, base
<1>6. op \in Op /\ op.epoch = e /\ op.kind = kind /\ op.lease = l
  <2>1. /\ Record(kind, e, q) \in RawOp /\ Record(kind, e, q).kind = kind
        /\ Record(kind, e, q).epoch = e
    BY <1>3, RecordIs DEF OpKinds
  <2> DEFINE b == Record(kind, e, q)
  <2>2. op = [b EXCEPT !.lease = l, !.anchor = anchor] OBVIOUS
  <2>3. b \in RawOp /\ b.kind = kind /\ b.epoch = e BY <2>1
  <2>4. b.kind \in CpuKinds BY <2>3
  <2> HIDE DEF l, b
  <2>5. /\ [b EXCEPT !.lease = l, !.anchor = anchor] \in Op
        /\ [b EXCEPT !.lease = l, !.anchor = anchor].kind = b.kind
        /\ [b EXCEPT !.lease = l, !.anchor = anchor].epoch = b.epoch
        /\ [b EXCEPT !.lease = l, !.anchor = anchor].lease = l
    BY <1>4, <1>5, <2>3, <2>4, CpuRecordIs
  <2> HIDE DEF op
  <2> QED BY <2>2, <2>3, <2>5
<1>7. Queue(op, kind # "return") /\ (kind = "seed" \/ stream.seeded) BY <1>1, <1>2
<1>8. cpu[c].published = FALSE /\ cpu' = [cpu EXCEPT ![c] = new]
  <2>1. ~cpu[c].published /\ cpu' = [cpu EXCEPT ![c] = new] BY <1>1, <1>2 DEF CpuClaim, Unclaimed
  <2>2. cpu[c] \in Allocation BY StreamType
  <2>3. cpu[c].published \in BOOLEAN BY <2>2 DEF Allocation
  <2> QED BY <2>1, <2>3
<1>9. new \in Allocation /\ new.published /\ new.epoch = e /\ new.sequence = q
  BY <1>3 DEF Allocation
<1>10. l.index = c /\ Token(l) = <<c, e, q>> BY DEF Token
<1> HIDE DEF op, l, new
<1>11. e # 0 /\ e <= stream.queued + 1 BY <1>7, StreamType DEF e
<1>12. /\ cpu' \in [CPU -> Allocation] /\ cpu'[c] = new
       /\ \A o \in CPU : o # c => cpu'[o] = cpu[o]
  BY <1>8, <1>9, StreamType
<1>13. ProducerShape /\ SlotsSound /\ Bounded BY DEF FramesInv
<1>14. stream.queued < MaxOps BY <1>6, <1>7, QueueIs
<1>15. \A o \in CPU : cpu'[o].published => cpu'[o].epoch \in 1..MaxOps
  <2> TAKE o \in CPU
  <2>1. CASE o = c
    <3>1. e \in 1..MaxOps BY <1>3, <1>11, <1>14, StreamType, PublicationLimits
    <3> QED BY <1>9, <1>12, <2>1, <3>1
  <2>2. CASE o # c BY <1>12, <1>13, <2>2 DEF Bounded
  <2> QED BY <2>1, <2>2
<1>16. \A o \in CPU : cpu[o].published => cpu'[o] = cpu[o] BY <1>8, <1>12
<1>17. Bears(op) /\ op.lease.index = c BY <1>6, <1>10, OpType
<1>18. Token(op.lease) \in Granted'
  BY <1>3, <1>6, <1>9, <1>10, <1>12 DEF Granted, Buf
<1>19. /\ drawables' \in [Drawable -> Registered]
       /\ \A d \in Drawable : drawables'[d].live => drawables'[d].epoch # 0
       /\ \A i \in Index : slots[i].state = "rendering" => drawables'[i[1]].live
       /\ refs' \subseteq ImageLease /\ reply' \in Reply
  BY <1>2, <1>13 DEF ProducerShape, SlotsSound, SlotSound
<1>20. \A o \in CPU : cpu'[o].published => cpu[o].published \/ (Bears(op) /\ op.lease.index = o)
  BY <1>12, <1>17
<1>21. op.epoch <= stream.queued + 1 /\ op.epoch # 0 /\ (kind # "return") \in BOOLEAN
  BY <1>6, <1>11
<1> QED BY <1>6, <1>7, <1>8, <1>12, <1>15, <1>16, <1>17, <1>18, <1>19, <1>20, <1>21, QueueStep

LEMMA CpuMemoryStep == ASSUME FramesInv, CpuMemoryFails PROVE FramesStep
<1>1. PICK c \in CPU, bytes \in Sizes : CpuStorageFails(c, bytes) BY DEF CpuMemoryFails
<1>2. cpu' = [cpu EXCEPT ![c].bytes = 0] BY <1>1 DEF CpuStorageFails
<1>3. DownstreamSame /\ UNCHANGED <<slots, drawables, next_epoch, output, sending, reply, stream, refs>>
  BY DEF CpuMemoryFails, DownstreamSame, consumer, producer, external
<1>4. ProducerShape /\ SlotsSound /\ cpu \in [CPU -> Allocation] BY StreamType DEF FramesInv
<1>5. [cpu[c] EXCEPT !.bytes = 0] \in Allocation
  BY <1>4 DEF Allocation
<1>6. /\ cpu' \in [CPU -> Allocation]
      /\ \A o \in CPU : /\ cpu'[o].published = cpu[o].published
                        /\ cpu'[o].epoch = cpu[o].epoch /\ cpu'[o].sequence = cpu[o].sequence
  <2>1. cpu[c] \in Allocation BY <1>4
  <2>2. /\ [cpu[c] EXCEPT !.bytes = 0].published = cpu[c].published
        /\ [cpu[c] EXCEPT !.bytes = 0].epoch = cpu[c].epoch
        /\ [cpu[c] EXCEPT !.bytes = 0].sequence = cpu[c].sequence
    BY <2>1 DEF Allocation
  <2> QED BY <1>2, <1>4, <1>5, <2>2
<1>7. ProducerShape' BY <1>3, <1>4, <1>6 DEF ProducerShape
<1>8. SlotsSound' BY <1>3, <1>4 DEF SlotsSound, SlotSound, HeldBy
<1>9. Bounded' BY <1>3, <1>6 DEF FramesInv, Bounded, DownstreamSame, wire
<1>10. Counts' BY <1>3 DEF FramesInv, Counts
<1>11. Granted \subseteq Granted' BY <1>3, <1>6, GrantedStays
<1>12. \A i \in Buf : Moves(i) BY <1>3, <1>6 DEF Moves
<1> QED BY <1>3, <1>7, <1>8, <1>9, <1>10, <1>11, <1>12, IdleJobs, DeviceDone

LEMMA ReadbackEndsStep == ASSUME FramesInv, ReadbackEnds PROVE FramesStep
<1>1. ReplyFinish BY DEF ReadbackEnds
<1>2. DownstreamSame
      /\ UNCHANGED <<slots, drawables, next_epoch, output, sending, cpu, stream, refs>>
  BY DEF ReadbackEnds, DownstreamSame, consumer, producer, external
<1>3. ProducerShape /\ SlotsSound /\ reply \in Reply BY StreamType DEF FramesInv
<1>4. reply' \in Reply BY <1>1, <1>3 DEF ReplyFinish, Reply
<1>5. ProducerShape' BY <1>2, <1>3, <1>4 DEF ProducerShape
<1>6. SlotsSound' BY <1>2, <1>3 DEF SlotsSound, SlotSound, HeldBy
<1>7. Bounded' BY <1>2 DEF FramesInv, Bounded, DownstreamSame, wire
<1>8. Counts' BY <1>2 DEF FramesInv, Counts
<1>9. Granted \subseteq Granted' BY <1>2, GrantedStays
<1>10. \A i \in Buf : Moves(i) BY <1>2 DEF Moves
<1> QED BY <1>2, <1>5, <1>6, <1>7, <1>8, <1>9, <1>10, IdleJobs, DeviceDone

-----------------------------------------------------------------------------
(* The output thread.                                                        *)

LEMMA OneJob ==
    ASSUME NEW s PROVE /\ Cardinality({s}) = 1
                       /\ Cardinality({t \in {s} : ~t.job.slot}) = IF s.job.slot THEN 0 ELSE 1
<1>1. Cardinality({s}) = 1 BY FS_Singleton
<1>2. CASE s.job.slot
  <2>1. {t \in {s} : ~t.job.slot} = {} BY <1>2
  <2> QED BY <1>1, <1>2, <2>1, FS_EmptySet
<1>3. CASE ~s.job.slot
  <2>1. {t \in {s} : ~t.job.slot} = {s} BY <1>3
  <2> QED BY <1>1, <1>3, <2>1
<1> QED BY <1>1, <1>2, <1>3

LEMMA PopStep == ASSUME FramesInv, Pop PROVE FramesStep
<1>1. DownstreamSame
      /\ UNCHANGED <<slots, drawables, next_epoch, cpu, reply, stream, refs>>
  BY DEF Pop, OutputPop, DownstreamSame, consumer, external
<1>2. ProducerShape /\ SlotsSound /\ Ownership /\ Counts BY DEF FramesInv, Custody
<1> DEFINE q == output.items
           s == [job |-> Head(output.items), stage |-> "popped",
                 publish |-> FALSE, ready |-> FALSE, sent |-> FALSE]
<1>3. /\ sending = {} /\ q # <<>> /\ q \in Seq(Job) /\ sending' = {s}
      /\ output' \in [items : Seq(Job), pending : Int, desktop : Int]
      /\ output'.items = Tail(q) /\ output'.pending = output.pending
      /\ output'.desktop = output.desktop
  <2>1. /\ sending = {} /\ q # <<>> /\ sending' = {s}
        /\ output' = [output EXCEPT !.items = Tail(@)]
    BY DEF Pop, OutputPop
  <2>2. output \in [items : Seq(Job), pending : Int, desktop : Int] BY <1>2 DEF ProducerShape
  <2>3. q \in Seq(Job) BY <2>2
  <2>4. Tail(q) \in Seq(Job) BY <2>1, <2>3
  <2> HIDE DEF s
  <2> QED BY <2>1, <2>2, <2>3, <2>4
<1>4. /\ Head(q) = q[1] /\ 1 \in DOMAIN q /\ Head(q) \in Job
      /\ \A k \in DOMAIN Tail(q) : k + 1 \in DOMAIN q /\ Tail(q)[k] = q[k + 1]
      /\ Len(Tail(q)) = Len(q) - 1 /\ Len(q) \in Nat
  BY <1>3, TailOf
<1>5. s \in Sending /\ s.job = Head(q) /\ s.stage = "popped" BY <1>4 DEF Sending
<1> HIDE DEF s
<1>6. ProducerShape' BY <1>1, <1>2, <1>3, <1>5 DEF ProducerShape
<1>7. Head(q).slot => /\ slots[Head(q).index].state = "pending" /\ Head(q).index \in Index
                      /\ ~slots[Head(q).index].release_pending
  BY <1>2, <1>4, JobType DEF SlotsSound
<1>8. SlotsSound'
  <2>1. \A t \in sending' : t.job.slot => HeldBy(t)' BY <1>1, <1>3, <1>5, <1>7 DEF HeldBy
  <2>2. \A k \in DOMAIN output'.items : output'.items[k].slot =>
          /\ slots'[output'.items[k].index].state = "pending"
          /\ ~slots'[output'.items[k].index].release_pending
    BY <1>1, <1>2, <1>3, <1>4 DEF SlotsSound
  <2>3. \A i \in Index : SlotSound(i)' BY <1>1, <1>2, <1>3 DEF SlotsSound, SlotSound
  <2> QED BY <1>1, <1>2, <2>1, <2>2, <2>3 DEF SlotsSound
<1>9. Bounded' BY <1>1 DEF FramesInv, Bounded, DownstreamSame, wire
<1>10. Counts'
  <2>1. Cardinality(sending) = 0 /\ Cardinality({t \in sending : ~t.job.slot}) = 0
    <3>1. {t \in sending : ~t.job.slot} = {} BY <1>3
    <3> QED BY <1>3, <3>1, FS_EmptySet
  <2>2. /\ Cardinality(sending') = 1
        /\ Cardinality({t \in sending' : ~t.job.slot}) = IF Head(q).slot THEN 0 ELSE 1
    BY <1>3, <1>5, OneJob
  <2>3. /\ Cardinality(DesktopJobs(Tail(q))) \in Nat
        /\ Cardinality(DesktopJobs(q))
             = Cardinality(DesktopJobs(Tail(q))) + IF Head(q).slot THEN 0 ELSE 1
    BY <1>3, DesktopJobsTail
  <2>4. output.pending = Len(q) + 0 /\ output.desktop = Cardinality(DesktopJobs(q)) + 0
    BY <1>2, <2>1 DEF Counts
  <2>5. Head(q).slot \in BOOLEAN BY <1>4, JobType
  <2>6. output'.pending = Len(output'.items) + Cardinality(sending')
    BY <1>3, <1>4, <2>2, <2>4
  <2>7. output'.desktop = Cardinality(DesktopJobs(output'.items))
                            + Cardinality({t \in sending' : ~t.job.slot})
    BY <1>3, <2>2, <2>3, <2>4, <2>5
  <2> QED BY <2>6, <2>7 DEF Counts
<1>11. Granted \subseteq Granted'
  <2>1. \A i \in Index : slots[i].state = "published" => s.job # SlotJob(i)
    BY <1>5, <1>7 DEF SlotJob
  <2> QED BY <1>1, <1>3, <2>1, GrantedStays
<1>12. JobsStep
  <2>1. ASSUME NEW i \in Buf
        PROVE  /\ Queued(i)' => Queued(i)
               /\ InHand(i)' => Queued(i)
               /\ OnceJob(output'.items, i)
               /\ ~(Queued(i)' /\ InHand(i)')
    <3>1. OnceJob(q, i) BY DEF FramesInv, Custody, Alone
    <3>2. Queued(i)' <=> HasJob(Tail(q), i) BY <1>3 DEF Queued, HasJob
    <3>3. InHand(i)' <=> JobFor(Head(q), i) BY <1>3, <1>5 DEF InHand
    <3>4. /\ HasJob(Tail(q), i) => HasJob(q, i)
          /\ OnceJob(Tail(q), i)
          /\ JobFor(Head(q), i) => ~HasJob(Tail(q), i) /\ HasJob(q, i)
      BY <1>3, <3>1, JobTail
    <3> QED BY <1>3, <3>2, <3>3, <3>4 DEF Queued
  <2>2. \A k \in DOMAIN q : Promised(q[k], Granted') BY <1>2, <1>11 DEF Ownership, Promised
  <2>3. \A k \in DOMAIN output'.items : Promised(output'.items[k], Granted')
    BY <1>3, <1>4, <2>2
  <2>4. \A t \in sending' : Promised(t.job, Granted') BY <1>3, <1>4, <1>5, <2>2
  <2> QED BY <2>1, <2>3, <2>4 DEF JobsStep
<1>13. \A i \in Buf : Moves(i) BY <1>1 DEF Moves
<1> QED BY <1>1, <1>6, <1>8, <1>9, <1>10, <1>11, <1>12, <1>13, DeviceDone

LEMMA PublishStep == ASSUME FramesInv, PublishSlot PROVE FramesStep
<1>1. PICK ready \in BOOLEAN, unavailable \in BOOLEAN : Publish(ready, unavailable)
  BY DEF PublishSlot
<1>2. PICK s \in sending :
        /\ s.stage = "popped" /\ s.job.slot
        /\ slots' = [slots EXCEPT ![s.job.index].state = "published",
                                  ![s.job.index].sending = TRUE]
        /\ sending' = {[s EXCEPT !.stage = "published", !.ready = ready,
                                 !.publish = ready /\ ~unavailable]}
        /\ UNCHANGED <<drawables, next_epoch, output>>
  BY <1>1 DEF Publish
<1>3. DownstreamSame /\ UNCHANGED <<cpu, reply, stream, refs>>
  BY DEF PublishSlot, DownstreamSame, consumer, external
<1>4. ProducerShape /\ SlotsSound /\ Ownership /\ Counts BY DEF FramesInv, Custody
<1> DEFINE i == s.job.index
           r == [s EXCEPT !.stage = "published", !.ready = ready, !.publish = ready /\ ~unavailable]
           new == [slots[i] EXCEPT !.state = "published", !.sending = TRUE]
<1>5. s \in Sending /\ s.job \in Job /\ sending = {s} BY JobWhere
<1>6. i \in Index /\ s.job = SlotJob(i) BY <1>2, <1>5, JobType
<1>7. /\ r \in Sending /\ r.job = s.job /\ r.stage = "published" BY <1>5 DEF Sending
<1>8. slots[i] \in Slot /\ slots[i].state = "pending" /\ ~slots[i].release_pending
  BY <1>2, <1>4, <1>6 DEF ProducerShape, SlotsSound, HeldBy
<1>9. /\ new \in Slot /\ new.state = "published" /\ new.sending /\ ~new.release_pending
      /\ new.epoch = slots[i].epoch
  BY <1>8 DEF Slot
<1>10. slots' = [slots EXCEPT ![i] = new] BY <1>2, <1>4, <1>6 DEF ProducerShape
<1>11. sending' = {r} BY <1>2
<1> HIDE DEF r, new, i
<1>12. SlotBecomes(i, new) BY <1>4, <1>6, <1>9, <1>10 DEF ProducerShape, SlotBecomes
<1>13. r.job.slot /\ r.job.index = i BY <1>2, <1>7 DEF i
<1>14. ProducerShape' BY <1>2, <1>3, <1>4, <1>7, <1>11, <1>12 DEF ProducerShape, SlotBecomes
<1>15. InHand(i) BY <1>2, <1>13, <1>7 DEF InHand, JobFor, i
<1>16. i \in Buf /\ ~Queued(i)
  <2>1. i \in Buf BY <1>6 DEF Buf
  <2> QED BY <1>15, <2>1 DEF FramesInv, Custody, Alone
<1>17. SlotsSound'
  <2>1. \A t \in sending' : t.job.slot => HeldBy(t)'
    BY <1>7, <1>9, <1>11, <1>12, <1>13 DEF HeldBy, SlotBecomes
  <2>2. ASSUME NEW k \in DOMAIN output.items, output.items[k].slot
        PROVE  /\ slots'[output.items[k].index].state = "pending"
               /\ ~slots'[output.items[k].index].release_pending
    <3>1. /\ slots[output.items[k].index].state = "pending" /\ output.items[k].index \in Index
          /\ ~slots[output.items[k].index].release_pending
      BY <1>4, <2>2, JobWhere, JobType DEF SlotsSound
    <3>2. output.items[k].index # i BY <1>16, <2>2 DEF Queued, HasJob, JobFor
    <3> QED BY <1>12, <3>1, <3>2 DEF SlotBecomes
  <2>3. \A j \in Index : SlotSound(j)'
    <3> TAKE j \in Index
    <3>1. SlotSound(j) BY <1>4 DEF SlotsSound
    <3>2. CASE j = i
      <4>1. slots'[j] = new /\ slots[i].epoch # 0
        BY <1>8, <1>12, <3>1, <3>2 DEF SlotSound, SlotBecomes
      <4> QED BY <1>6, <1>7, <1>9, <1>11, <3>2, <4>1 DEF SlotSound
    <3>3. CASE j # i
      <4>1. slots'[j] = slots[j] BY <1>12, <3>3 DEF SlotBecomes
      <4>2. ~slots[j].sending BY <1>5, <1>6, <3>1, <3>3 DEF SlotSound, SlotJob
      <4> QED BY <1>2, <3>1, <4>1, <4>2 DEF SlotSound
    <3> QED BY <3>2, <3>3
  <2> QED BY <1>2, <1>4, <2>1, <2>2, <2>3 DEF SlotsSound
<1>18. Bounded' BY <1>3 DEF FramesInv, Bounded, DownstreamSame, wire
<1>19. Counts'
  <2>1. /\ Cardinality(sending') = Cardinality(sending)
        /\ Cardinality({t \in sending' : ~t.job.slot}) = Cardinality({t \in sending : ~t.job.slot})
    BY <1>2, <1>5, <1>11, <1>13, OneJob
  <2> QED BY <1>2, <1>4, <2>1 DEF Counts
<1>20. Granted \subseteq Granted'
  <2>1. \A j \in Index : slots[j].state = "published" => slots'[j] = slots[j] /\ j # i
    BY <1>8, <1>12 DEF SlotBecomes
  <2>2. \A j \in Index : r.job = SlotJob(j) => j = i BY <1>13 DEF SlotJob
  <2> QED BY <1>3, <1>11, <2>1, <2>2, GrantedStays
<1>21. JobsStep
  <2>1. \A j \in Buf : /\ InHand(j)' <=> InHand(j)
                       /\ Queued(j)' <=> Queued(j)
    BY <1>2, <1>5, <1>7, <1>11 DEF InHand, Queued, HasJob
  <2>2. \A j \in Buf : Alone(j) BY DEF FramesInv, Custody
  <2>3. \A k \in DOMAIN output'.items : Promised(output'.items[k], Granted')
    BY <1>2, <1>4, <1>20 DEF Ownership, Promised
  <2>4. \A t \in sending' : Promised(t.job, Granted') BY <1>11, <1>13 DEF Promised
  <2> QED BY <1>2, <2>1, <2>2, <2>3, <2>4 DEF JobsStep, Alone
<1>22. \A j \in Buf : Moves(j)
  <2> TAKE j \in Buf
  <2>1. j \notin CPU => j \in Index BY DEF Buf
  <2> QED BY <1>3, <1>8, <1>12, <2>1 DEF Moves, SlotBecomes
<1> QED BY <1>3, <1>14, <1>17, <1>18, <1>19, <1>20, <1>21, <1>22, DeviceDone

-----------------------------------------------------------------------------
(* Steps that move what travels.                                             *)

Separate(i) ==
    /\ Once(unix, i) /\ Once(mach, i) /\ Once(releases, i) /\ Once(back, i)
    /\ Has(unix, i) => ~(Has(mach, i) \/ Leased(i) \/ Has(releases, i) \/ Has(back, i))
    /\ Has(mach, i) => ~(Leased(i) \/ Has(releases, i) \/ Has(back, i))
    /\ Leased(i) => ~(Has(releases, i) \/ Has(back, i))
    /\ Has(releases, i) => ~Has(back, i)

ChannelsFlow ==
    \A i \in Buf :
      /\ Has(unix, i)' => Has(unix, i) \/ (InHand(i) /\ ~InHand(i)')
      /\ Has(mach, i)' => Has(mach, i) \/ (InHand(i) /\ ~InHand(i)')
      /\ Leased(i)' => Leased(i) \/ Has(unix, i) \/ Has(mach, i)
      /\ Has(releases, i)' => Has(releases, i) \/ Leased(i) \/ Has(unix, i) \/ Has(mach, i)
      /\ Has(back, i)' => Has(back, i) \/ Has(releases, i)

ChannelsBacked ==
    /\ Backed(unix, Granted) /\ Backed(mach, Granted)
    /\ Backed(releases, Granted) /\ Backed(back, Granted)
    /\ \A l \in Live : Token(l) \in Granted

LEMMA SeparateNow == ASSUME FramesInv PROVE \A i \in Buf : Separate(i)
BY DEF FramesInv, Custody, Alone, Separate

LEMMA StepDone ==
    ASSUME FramesInv, ProducerShape', WireShape', ConsumerShape', SlotsSound', Bounded',
           LatestAlone', Counts', JobsStep, ChannelsFlow, ChannelsBacked',
           \A i \in Buf : Separate(i)', \A i \in Buf : Moves(i),
           \A i \in Buf : Has(unix, i) \/ Has(mach, i) \/ Leased(i) => Kept(i)'
    PROVE  FramesStep
<1>1. Ownership' BY DEF ChannelsBacked, JobsStep, Ownership
<1>2. ASSUME NEW i \in Buf PROVE Alone(i)' /\ Flows(i) /\ Turns(i)
  <2>1. Alone(i) BY DEF FramesInv, Custody
  <2>2. Fresh(i) => /\ ~Queued(i) /\ ~InHand(i) /\ ~Has(unix, i) /\ ~Has(mach, i)
                    /\ ~Leased(i) /\ ~Has(releases, i) /\ ~Has(back, i)
    BY FreshNowhere
  <2>3. OnceJob(output.items, i)' BY DEF JobsStep, OnceJob
  <2>4. /\ Queued(i)' => Queued(i) \/ Fresh(i)
        /\ InHand(i)' => InHand(i) \/ Queued(i)
        /\ ~(Queued(i)' /\ InHand(i)')
    BY DEF JobsStep
  <2>5. /\ Has(unix, i)' => Has(unix, i) \/ (InHand(i) /\ ~InHand(i)')
        /\ Has(mach, i)' => Has(mach, i) \/ (InHand(i) /\ ~InHand(i)')
        /\ Leased(i)' => Leased(i) \/ Has(unix, i) \/ Has(mach, i)
        /\ Has(releases, i)' => Has(releases, i) \/ Leased(i) \/ Has(unix, i) \/ Has(mach, i)
        /\ Has(back, i)' => Has(back, i) \/ Has(releases, i)
    BY DEF ChannelsFlow
  <2>6. Separate(i)' OBVIOUS
  <2>7. /\ Queued(i)' => ~(InHand(i)' \/ Has(unix, i)' \/ Has(mach, i)' \/ Leased(i)'
                             \/ Has(releases, i)' \/ Has(back, i)')
        /\ InHand(i)' => ~(Has(unix, i)' \/ Has(mach, i)' \/ Leased(i)' \/ Has(releases, i)'
                             \/ Has(back, i)')
    BY <2>1, <2>2, <2>4, <2>5 DEF Alone
  <2>8. Alone(i)' BY <2>3, <2>6, <2>7 DEF Alone, Separate
  <2>9. Flows(i) BY <2>4, <2>5 DEF Flows
  <2>10. Turns(i) BY DEF Turns, Moves
  <2> QED BY <2>8, <2>9, <2>10
<1>3. Custody' BY <1>1, <1>2 DEF Custody
<1> QED BY <1>2, <1>3 DEF FramesStep, FramesInv

LEMMA StillKept ==
    ASSUME FramesInv, Granted \subseteq Granted'
    PROVE  \A i \in Buf : Has(unix, i) \/ Has(mach, i) \/ Leased(i) => Kept(i)'
BY PlacedKept, KeptNext

LEMMA SendStep == ASSUME FramesInv, Send PROVE FramesStep
<1>1. PICK s \in sending :
        /\ s.stage = "published" \/ (s.stage = "popped" /\ ~s.job.slot)
        /\ sending' = {[s EXCEPT !.stage = "sent",
                                 !.sent = ~closed /\ (s.job.slot => s.publish)]}
        /\ IF ~closed /\ (s.job.slot => s.publish) THEN Transmit(s) ELSE UNCHANGED <<unix, mach>>
        /\ UNCHANGED <<slots, drawables, next_epoch, output, consumer, cpu, reply, separate, back,
                   external, answer, shown>>
  BY DEF Send
<1>2. /\ UNCHANGED <<slots, drawables, next_epoch, output, cpu, reply, separate, back, stream, refs>>
      /\ UNCHANGED <<desktop, order, leased, releases, frames, held, owed, active, taking,
                   waiting, signal, closed>>
  BY <1>1 DEF consumer, external
<1>3. /\ ProducerShape /\ WireShape /\ ConsumerShape /\ SlotsSound /\ Ownership /\ Counts
      /\ Bounded /\ LatestAlone
  BY DEF FramesInv, Custody
<1>4. s \in Sending /\ s.job \in Job /\ sending = {s} /\ s.publish \in BOOLEAN /\ closed \in BOOLEAN
  BY <1>3, JobWhere DEF Sending, ConsumerShape
<1> DEFINE go == ~closed /\ (s.job.slot => s.publish)
           r == [s EXCEPT !.stage = "sent", !.sent = go]
           m == IF s.job.slot THEN ImageMessage(s.job.index) ELSE s.job.op
           away == s.job.slot /\ separate
<1>5. go \in BOOLEAN BY <1>4
<1>6. sending' = {r} BY <1>1
<1>7. go => IF away THEN mach' = Append(mach, m) /\ unix' = unix
            ELSE unix' = Append(unix, m) /\ mach' = mach
  BY <1>1 DEF Transmit
<1>8. ~go => unix' = unix /\ mach' = mach BY <1>1
<1>9. s.job.slot => s.job.index \in Index /\ s.job = SlotJob(s.job.index) /\ s.stage = "published"
  BY <1>1, <1>4, JobType
<1>10. s.job.slot => /\ slots[s.job.index].state = "published" /\ slots[s.job.index].sending
                     /\ ~slots[s.job.index].release_pending
                     /\ slots[s.job.index] \in Slot
  BY <1>3, <1>4, <1>9 DEF SlotsSound, HeldBy, ProducerShape
<1>11. s.job.slot => m \in ImageMsg /\ Bears(m) /\ Of(m) = m /\ m.index = s.job.index
                     /\ m.epoch = slots[s.job.index].epoch
                     /\ m.generation = slots[s.job.index].generation
  <2> SUFFICES ASSUME s.job.slot
               PROVE  m \in ImageMsg /\ Bears(m) /\ Of(m) = m /\ m.index = s.job.index
                      /\ m.epoch = slots[s.job.index].epoch
                      /\ m.generation = slots[s.job.index].generation
    OBVIOUS
  <2>1. m = [kind |-> slots[s.job.index].image, d |-> s.job.index[1], index |-> s.job.index,
             epoch |-> slots[s.job.index].epoch, generation |-> slots[s.job.index].generation]
    BY DEF ImageMessage
  <2>2. /\ slots[s.job.index].image \in Image /\ slots[s.job.index].epoch \in Nat
        /\ slots[s.job.index].generation \in Nat
    BY <1>10, SlotType, PublicationLimits
  <2>3. s.job.index[1] \in Drawable BY <1>9 DEF Index
  <2>4. m \in ImageMsg BY <1>9, <2>1, <2>2, <2>3 DEF ImageMsg
  <2>5. m.kind \in Image /\ m.kind \notin CpuKinds BY <2>1, <2>2 DEF Image, CpuKinds
  <2> QED BY <2>1, <2>4, <2>5 DEF Bears, Of
<1>12. ~s.job.slot => m \in Op /\ m = s.job.op BY <1>4, JobType
<1>13. r \in Sending /\ r.job = s.job /\ r.stage = "sent" /\ r.sent = go
  BY <1>4, <1>5 DEF Sending
<1>14. s.stage # "sent" BY <1>1
<1> HIDE DEF r
<1>15. Granted \subseteq Granted'
  <2>1. \A i \in Index : s.job = SlotJob(i) => s.stage # "sent"  BY <1>14
  <2>2. \A i \in Index : (\A t \in sending : t.job = SlotJob(i) => t.stage = "sent" /\ t.sent)
            => s.job # SlotJob(i)
    BY <1>14
  <2> QED BY <1>2, <1>6, <1>13, <2>2, GrantedStays
<1>16. go /\ Bears(m) => Token(Of(m)) \in Granted'
  <2>1. CASE s.job.slot
    <3> SUFFICES ASSUME go PROVE Token(Of(m)) \in Granted' OBVIOUS
    <3>1. Token(Of(m)) = <<s.job.index, slots[s.job.index].epoch, slots[s.job.index].generation>>
      BY <1>11, <2>1 DEF Token
    <3>2. s.job.index \in Buf /\ s.job.index \notin CPU BY <1>9, <2>1, Apart DEF Buf
    <3>3. slots[s.job.index].epoch \in Nat /\ slots[s.job.index].generation \in Nat
      BY <1>10, <2>1, SlotType, PublicationLimits
    <3>4. \A t \in sending' : t.stage = "sent" /\ t.sent BY <1>6, <1>13
    <3> HIDE DEF m, go
    <3> QED BY <1>2, <1>10, <2>1, <3>1, <3>2, <3>3, <3>4, SMTT(30) DEF Granted
  <2>2. CASE ~s.job.slot
    <3>1. Promised(s.job, Granted) BY <1>3, <1>14 DEF Ownership
    <3>2. Bears(m) => Token(Of(m)) \in Granted BY <1>12, <2>2, <3>1 DEF Promised
    <3> QED BY <1>15, <3>2
  <2> QED BY <2>1, <2>2
<1>17. \A i : About(m, i) => JobFor(s.job, i)
  BY <1>11, <1>12 DEF About, JobFor
<1>18. \A i \in Buf : (JobFor(s.job, i) <=> InHand(i)) /\ ~InHand(i)'
  BY <1>4, <1>6, <1>13, <1>14 DEF InHand
<1>19. \A i \in Buf : InHand(i) => ~(Queued(i) \/ Has(unix, i) \/ Has(mach, i) \/ Leased(i)
                                       \/ Has(releases, i) \/ Has(back, i))
  BY DEF FramesInv, Custody, Alone
<1>20. away => m \in ImageMsg BY <1>11
<1>21. m \in ImageMsg \union Op BY <1>11, <1>12
<1>22. ~away /\ separate => m.kind \notin Image
  <2>1. ~away /\ separate => ~s.job.slot OBVIOUS
  <2>2. m \in Op => m.kind \notin Image BY OpType DEF OpKinds, CpuKinds, Image
  <2> QED BY <1>12, <2>1, <2>2
<1>23. ~separate => ~away OBVIOUS
<1>24. separate' = separate BY <1>2
<1> HIDE DEF go, m, away
<1>25. unix \in Seq(ImageMsg \union Op) /\ mach \in Seq(ImageMsg) BY <1>3 DEF WireShape
<1>26. unix' \in Seq(ImageMsg \union Op) /\ mach' \in Seq(ImageMsg)
  <2>1. Append(unix, m) \in Seq(ImageMsg \union Op) BY <1>21, <1>25, AppendOf
  <2>2. away => Append(mach, m) \in Seq(ImageMsg) BY <1>20, <1>25, AppendOf
  <2> QED BY <1>7, <1>8, <1>25, <2>1, <2>2
<1>27. WireShape' BY <1>2, <1>3, <1>26 DEF WireShape
<1>28. Live' = Live BY <1>2, LiveSame
<1>29. ASSUME NEW i \in Buf
       PROVE  /\ Has(unix, i)' => Has(unix, i) \/ (InHand(i) /\ ~InHand(i)')
              /\ Has(mach, i)' => Has(mach, i) \/ (InHand(i) /\ ~InHand(i)')
              /\ Leased(i)' <=> Leased(i)
              /\ Has(releases, i)' <=> Has(releases, i)
              /\ Has(back, i)' <=> Has(back, i)
              /\ Separate(i)'
  <2>1. Leased(i)' <=> Leased(i) BY <1>28 DEF Leased
  <2>2. /\ Has(releases, i)' <=> Has(releases, i)
        /\ Has(back, i)' <=> Has(back, i)
        /\ Once(releases, i)' <=> Once(releases, i)
        /\ Once(back, i)' <=> Once(back, i)
    BY <1>2 DEF Has, Once
  <2>3. Separate(i) BY SeparateNow
  <2>4. About(m, i) => /\ InHand(i) /\ ~Has(unix, i) /\ ~Has(mach, i) /\ ~Leased(i)
                       /\ ~Has(releases, i) /\ ~Has(back, i)
    BY <1>17, <1>18, <1>19
  <2>5. /\ Has(unix, i)' <=> Has(unix', i)
        /\ Has(mach, i)' <=> Has(mach', i)
        /\ Once(unix, i)' <=> Once(unix', i)
        /\ Once(mach, i)' <=> Once(mach', i)
    BY DEF Has, Once
  <2>6. CASE unix' = unix /\ mach' = mach
    <3>1. /\ Has(unix, i)' <=> Has(unix, i)
          /\ Has(mach, i)' <=> Has(mach, i)
          /\ Once(unix, i)' <=> Once(unix, i)
          /\ Once(mach, i)' <=> Once(mach, i)
      BY <2>5, <2>6
    <3> QED BY <2>1, <2>2, <2>3, <3>1 DEF Separate
  <2>7. CASE unix' = Append(unix, m) /\ mach' = mach
    <3>1. /\ Has(unix, i)' <=> Has(unix, i) \/ About(m, i)
          /\ Once(unix, i) /\ ~(Has(unix, i) /\ About(m, i)) => Once(unix, i)'
      BY <1>21, <1>25, <2>5, <2>7, HasAppend
    <3>2. /\ Has(mach, i)' <=> Has(mach, i)
          /\ Once(mach, i)' <=> Once(mach, i)
      BY <2>5, <2>7
    <3> QED BY <1>18, <2>1, <2>2, <2>3, <2>4, <3>1, <3>2 DEF Separate
  <2>8. CASE mach' = Append(mach, m) /\ unix' = unix /\ away
    <3>1. /\ Has(mach, i)' <=> Has(mach, i) \/ About(m, i)
          /\ Once(mach, i) /\ ~(Has(mach, i) /\ About(m, i)) => Once(mach, i)'
      BY <1>20, <1>25, <2>5, <2>8, HasAppend
    <3>2. /\ Has(unix, i)' <=> Has(unix, i)
          /\ Once(unix, i)' <=> Once(unix, i)
      BY <2>5, <2>8
    <3> QED BY <1>18, <2>1, <2>2, <2>3, <2>4, <3>1, <3>2 DEF Separate
  <2> QED BY <1>7, <1>8, <2>6, <2>7, <2>8
<1>30. ChannelsFlow BY <1>29 DEF ChannelsFlow
<1>31. ChannelsBacked'
  <2>1. /\ Backed(unix, Granted') /\ Backed(mach, Granted')
        /\ Backed(releases, Granted') /\ Backed(back, Granted')
        /\ \A l \in Live : Token(l) \in Granted'
    BY <1>3, <1>15, BackedMore DEF Ownership
  <2>2. Backed(unix', Granted') /\ Backed(mach', Granted')
    BY <1>7, <1>8, <1>16, <1>20, <1>21, <1>25, <2>1, BackedAppend
  <2> QED BY <1>2, <1>28, <2>1, <2>2 DEF ChannelsBacked
<1>32. Bounded'
  <2>1. separate => \A k \in DOMAIN unix' : unix'[k].kind \notin Image
    <3>1. \A k \in DOMAIN unix' :
             \/ k \in DOMAIN unix /\ unix'[k] = unix[k]
             \/ unix'[k] = m /\ ~away
      BY <1>7, <1>8, <1>21, <1>25, AppendOf
    <3> QED BY <1>3, <1>22, <3>1 DEF Bounded
  <2>2. ~separate => mach' = <<>> BY <1>3, <1>7, <1>8, <1>23 DEF Bounded
  <2> QED BY <1>2, <1>3, <2>1, <2>2 DEF Bounded
<1>33. ProducerShape' BY <1>2, <1>3, <1>6, <1>13 DEF ProducerShape
<1>34. ConsumerShape' /\ LatestAlone'
  BY <1>2, <1>3 DEF ConsumerShape, DesktopShape, LatestAlone
<1>35. SlotsSound'
  <2>1. \A t \in sending' : t.job.slot => HeldBy(t)' BY <1>2, <1>6, <1>10, <1>13 DEF HeldBy
  <2>2. \A i \in Index : SlotSound(i)'
    <3> TAKE i \in Index
    <3>1. SlotSound(i) BY <1>3 DEF SlotsSound
    <3> QED BY <1>2, <1>4, <1>6, <1>13, <3>1 DEF SlotSound
  <2> QED BY <1>2, <1>3, <2>1, <2>2 DEF SlotsSound
<1>36. Counts'
  <2>1. /\ Cardinality(sending') = Cardinality(sending)
        /\ Cardinality({t \in sending' : ~t.job.slot}) = Cardinality({t \in sending : ~t.job.slot})
    BY <1>4, <1>6, <1>13, OneJob
  <2> QED BY <1>2, <1>3, <2>1 DEF Counts
<1>37. JobsStep
  <2>1. \A i \in Buf : /\ Queued(i)' <=> Queued(i)
                       /\ OnceJob(output'.items, i)
    BY <1>2 DEF Queued, HasJob, FramesInv, Custody, Alone
  <2>2. \A k \in DOMAIN output'.items : Promised(output'.items[k], Granted')
    BY <1>2, <1>3, <1>15 DEF Ownership, Promised
  <2>3. \A t \in sending' : t.stage = "sent" BY <1>6, <1>13
  <2> QED BY <1>18, <2>1, <2>2, <2>3 DEF JobsStep
<1>38. \A i \in Buf : Moves(i) BY <1>2 DEF Moves
<1>39. \A i \in Buf : Separate(i)' BY <1>29
<1>40. \A i \in Buf : Has(unix, i) \/ Has(mach, i) \/ Leased(i) => Kept(i)' BY <1>15, StillKept
<1> QED BY <1>27, <1>30, <1>31, <1>32, <1>33, <1>34, <1>35, <1>36, <1>37, <1>38, <1>39, <1>40,
           StepDone

(* The connection ends: what travels to the SDK, and what it was to give     *)
(* back, is lost.                                                            *)
LEMMA PeerGone ==
    ASSUME FramesInv, Granted \subseteq Granted', unix' = <<>>, mach' = <<>>, releases' = <<>>,
           back' = back, Live' = Live
    PROVE  ChannelsFlow /\ ChannelsBacked' /\ \A i \in Buf : Separate(i)'
<1>1. Ownership BY DEF FramesInv, Custody
<1>2. ASSUME NEW i \in Buf
      PROVE  /\ ~Has(unix, i)' /\ ~Has(mach, i)' /\ ~Has(releases, i)'
             /\ Once(unix, i)' /\ Once(mach, i)' /\ Once(releases, i)'
             /\ Leased(i)' <=> Leased(i)
             /\ Has(back, i)' <=> Has(back, i)
             /\ Once(back, i)' <=> Once(back, i)
  BY DEF Has, Once, Leased
<1>3. ChannelsFlow BY <1>2 DEF ChannelsFlow
<1>4. \A i \in Buf : Separate(i)'
  <2> TAKE i \in Buf
  <2>1. Separate(i) BY SeparateNow
  <2> QED BY <1>2, <2>1 DEF Separate
<1>5. ChannelsBacked'
  <2>1. Backed(back, Granted') /\ \A l \in Live : Token(l) \in Granted'
    BY <1>1, BackedMore DEF Ownership
  <2>2. \A W : Backed(<<>>, W) BY DEF Backed
  <2> QED BY <2>1, <2>2 DEF ChannelsBacked
<1> QED BY <1>3, <1>4, <1>5

LEMMA HangupStep == ASSUME FramesInv, Hangup PROVE FramesStep
<1>1. /\ closed' = TRUE /\ signal' = TRUE /\ releases' = <<>> /\ unix' = <<>> /\ mach' = <<>>
      /\ UNCHANGED <<desktop, order, leased, frames, held, owed, active, taking, waiting, back,
                     separate>>
  BY DEF Hangup, PeerCloses
<1>2. UNCHANGED <<slots, drawables, next_epoch, output, sending, cpu, reply, stream, refs>>
  BY DEF Hangup, Untouched, producer, external
<1>3. /\ ProducerShape /\ WireShape /\ ConsumerShape /\ SlotsSound /\ Bounded /\ LatestAlone
      /\ Counts
  BY DEF FramesInv
<1>4. ProducerShape' BY <1>2, <1>3 DEF ProducerShape
<1>5. WireShape' BY <1>1, <1>3 DEF WireShape
<1>6. ConsumerShape' /\ LatestAlone'
  BY <1>1, <1>3 DEF ConsumerShape, DesktopShape, LatestAlone
<1>7. SlotsSound' BY <1>2, <1>3 DEF SlotsSound, SlotSound, HeldBy
<1>8. Bounded' BY <1>1, <1>2, <1>3 DEF Bounded
<1>9. Counts' BY <1>2, <1>3 DEF Counts
<1>10. Granted \subseteq Granted' BY <1>2, GrantedStays
<1>11. \A i \in Buf : Moves(i) BY <1>2 DEF Moves
<1>12. Live' = Live BY <1>1, LiveSame
<1>13. ChannelsFlow /\ ChannelsBacked' /\ \A i \in Buf : Separate(i)'
  BY <1>1, <1>10, <1>12, PeerGone
<1>14. JobsStep BY <1>2, <1>10, IdleJobs
<1>15. \A i \in Buf : Has(unix, i) \/ Has(mach, i) \/ Leased(i) => Kept(i)' BY <1>10, StillKept
<1> QED BY <1>4, <1>5, <1>6, <1>7, <1>8, <1>9, <1>11, <1>13, <1>14, <1>15, StepDone

LEMMA SettleStep == ASSUME FramesInv, Settle PROVE FramesStep
<1>1. PICK s \in sending :
        /\ s.stage = "sent"
        /\ IF s.job.slot THEN Sent(s) ELSE UNCHANGED <<slots, drawables>>
        /\ Done(s.job) /\ sending' = {} /\ UNCHANGED next_epoch
  BY DEF Settle, OutputDone
<1>2. UNCHANGED <<cpu, reply, separate, back, stream, refs>> BY DEF Settle, external
<1>3. /\ ProducerShape /\ WireShape /\ ConsumerShape /\ SlotsSound /\ Bounded /\ LatestAlone
      /\ Counts /\ Ownership
  BY DEF FramesInv, Custody
<1>4. s \in Sending /\ s.job \in Job /\ sending = {s} /\ s.job.slot \in BOOLEAN
      /\ s.sent \in BOOLEAN
  BY JobWhere, JobType DEF Sending
<1>5. /\ output' = [output EXCEPT !.pending = @ - 1,
                                  !.desktop = @ - IF s.job.slot THEN 0 ELSE 1]
      /\ output \in [items : Seq(Job), pending : Int, desktop : Int]
  BY <1>1, <1>3 DEF Done, ProducerShape
<1>6. /\ output' \in [items : Seq(Job), pending : Int, desktop : Int]
      /\ output'.items = output.items /\ output'.pending = output.pending - 1
      /\ output'.desktop = output.desktop - IF s.job.slot THEN 0 ELSE 1
  <2> DEFINE n == IF s.job.slot THEN 0 ELSE 1
  <2>1. n \in Int /\ output' = [output EXCEPT !.pending = @ - 1, !.desktop = @ - n] BY <1>5
  <2> HIDE DEF n
  <2>2. /\ output' \in [items : Seq(Job), pending : Int, desktop : Int]
        /\ output'.items = output.items /\ output'.pending = output.pending - 1
        /\ output'.desktop = output.desktop - n
    <3>1. output.items \in Seq(Job) /\ output.pending \in Int /\ output.desktop \in Int BY <1>5
    <3> DEFINE p == output.pending - 1
               q == output.desktop - n
    <3>2. p \in Int /\ q \in Int BY <2>1, <3>1
    <3>3. output' = [output EXCEPT !.pending = p, !.desktop = q] BY <2>1
    <3> HIDE DEF p, q
    <3>4. /\ output' \in [items : Seq(Job), pending : Int, desktop : Int]
          /\ output'.items = output.items /\ output'.pending = p /\ output'.desktop = q
      BY <1>5, <3>2, <3>3
    <3> QED BY <3>4 DEF p, q
  <2> QED BY <2>2 DEF n
<1> DEFINE i == s.job.index
<1>7. s.job.slot => i \in Index /\ s.job = SlotJob(i) BY <1>4, JobType
<1>8. s.job.slot => /\ slots[i] \in Slot /\ slots[i].state = "published" /\ slots[i].sending
                    /\ (~s.sent => ~slots[i].release_pending)
  BY <1>1, <1>3, <1>4, <1>7 DEF SlotsSound, HeldBy, ProducerShape
<1>9. s.job.slot => /\ Settled(slots[i], s.sent) \in Slot
                    /\ ~Settled(slots[i], s.sent).sending
                    /\ Settled(slots[i], s.sent).state \in {"free", "published"}
                    /\ s.sent /\ ~slots[i].release_pending
                         => Settled(slots[i], s.sent).state = "published"
                    /\ Settled(slots[i], s.sent).release_pending = slots[i].release_pending
                    /\ Settled(slots[i], s.sent).epoch = slots[i].epoch
                    /\ Settled(slots[i], s.sent).generation = slots[i].generation
  BY <1>8 DEF Settled, Slot
<1>10. s.job.slot => SlotBecomes(i, Settled(slots[i], s.sent))
  BY <1>1, <1>3, <1>7, <1>9 DEF Sent, ProducerShape, SlotBecomes
<1>11. /\ drawables' \in [Drawable -> Registered]
       /\ \A d \in Drawable : /\ drawables'[d].live = drawables[d].live
                              /\ drawables'[d].epoch = drawables[d].epoch
  <2>0. drawables \in [Drawable -> Registered] BY <1>3 DEF ProducerShape
  <2>1. CASE drawables' = drawables BY <2>0, <2>1
  <2>2. CASE /\ s.job.slot
             /\ drawables' = [drawables EXCEPT ![i[1]].published =
                                 <<slots[i].epoch, slots[i].generation>>]
    <3> DEFINE p == <<slots[i].epoch, slots[i].generation>>
               r == [drawables[i[1]] EXCEPT !.published = p]
    <3>1. slots[i].epoch \in Nat /\ slots[i].generation \in Nat
      BY <1>8, <2>2, SlotType, PublicationLimits
    <3>2. p \in Pair BY <3>1 DEF Pair
    <3>3. i[1] \in Drawable /\ drawables[i[1]] \in Registered BY <1>7, <2>0, <2>2 DEF Index
    <3>4. drawables' = [drawables EXCEPT ![i[1]] = r] BY <2>2
    <3> HIDE DEF p
    <3>5. r \in Registered /\ r.live = drawables[i[1]].live /\ r.epoch = drawables[i[1]].epoch
      BY <3>2, <3>3 DEF Registered
    <3> HIDE DEF r, i
    <3> QED BY <2>0, <3>3, <3>4, <3>5
  <2> QED BY <1>1, <2>1, <2>2 DEF Sent
<1>12. ~s.job.slot => slots' = slots BY <1>1
<1> HIDE DEF i
<1>13. slots' \in [Index -> Slot] BY <1>3, <1>10, <1>12 DEF ProducerShape, SlotBecomes
<1>14. ProducerShape' BY <1>1, <1>2, <1>3, <1>6, <1>11, <1>13 DEF ProducerShape
<1>15. \A j \in Index : /\ slots[j].state # "published" => slots'[j] = slots[j]
                        /\ slots[j].state = "published" => slots'[j].state \in {"free", "published"}
                        /\ ~slots'[j].sending
                        /\ slots'[j].epoch = slots[j].epoch
                        /\ slots[j].state # "published" => slots'[j].state # "published"
  <2> TAKE j \in Index
  <2>1. CASE s.job.slot /\ j = i BY <1>8, <1>9, <1>10, <2>1 DEF SlotBecomes
  <2>2. CASE ~(s.job.slot /\ j = i)
    <3>1. slots'[j] = slots[j] BY <1>10, <1>12, <2>2 DEF SlotBecomes
    <3>2. s.job # SlotJob(j) BY <1>7, <2>2 DEF SlotJob, i
    <3>3. ~slots[j].sending BY <1>3, <1>4, <3>2 DEF SlotsSound, SlotSound
    <3> QED BY <3>1, <3>3
  <2> QED BY <2>1, <2>2
<1>16. SlotsSound'
  <2>1. ASSUME NEW k \in DOMAIN output'.items, output'.items[k].slot
        PROVE  /\ slots'[output'.items[k].index].state = "pending"
               /\ ~slots'[output'.items[k].index].release_pending
    <3>1. /\ slots[output.items[k].index].state = "pending" /\ output.items[k].index \in Index
          /\ ~slots[output.items[k].index].release_pending
      BY <1>3, <1>6, <2>1, JobWhere, JobType DEF SlotsSound
    <3> QED BY <1>6, <1>15, <3>1
  <2>2. \A j \in Index : SlotSound(j)'
    <3> TAKE j \in Index
    <3>1. SlotSound(j) /\ j[1] \in Drawable BY <1>3 DEF SlotsSound, Index
    <3>2. slots[j].state = "published" => slots[j].epoch # 0 BY <3>1 DEF SlotSound
    <3>3. CASE slots[j].state = "published" BY <1>15, <3>2, <3>3 DEF SlotSound
    <3>4. CASE slots[j].state # "published" BY <1>11, <1>15, <3>1, <3>4 DEF SlotSound
    <3> QED BY <3>3, <3>4
  <2>3. \A d \in Drawable : drawables'[d].live => drawables'[d].epoch # 0
    BY <1>3, <1>11 DEF SlotsSound
  <2> QED BY <1>1, <2>1, <2>2, <2>3 DEF SlotsSound
<1>17. Counts'
  <2>1. Cardinality(sending') = 0 /\ Cardinality({t \in sending' : ~t.job.slot}) = 0
    <3>1. sending' = {} /\ {t \in sending' : ~t.job.slot} = {} BY <1>1
    <3> QED BY <3>1, FS_EmptySet
  <2>2. /\ Cardinality(sending) = 1
        /\ Cardinality({t \in sending : ~t.job.slot}) = IF s.job.slot THEN 0 ELSE 1
    BY <1>4, OneJob
  <2>3. /\ output.pending = Len(output.items) + 1
        /\ output.desktop = Cardinality(DesktopJobs(output.items))
                              + IF s.job.slot THEN 0 ELSE 1
    BY <1>3, <2>2 DEF Counts
  <2>4. Len(output.items) \in Nat /\ output.items \in Seq(Job) /\ output.desktop \in Int
    BY <1>5
  <2>5. Cardinality(DesktopJobs(output.items)) \in Nat
    BY <1>4, <2>4, DesktopJobsAppend
  <2>6. output'.pending = Len(output'.items) + 0 BY <1>6, <2>3, <2>4
  <2>7. output'.desktop = Cardinality(DesktopJobs(output'.items)) + 0
    BY <1>4, <1>6, <2>3, <2>5
  <2> QED BY <2>1, <2>6, <2>7 DEF Counts
<1>18. Granted \subseteq Granted'
  <2>1. ASSUME NEW j \in Index, slots[j].state = "published", ~slots[j].release_pending,
               \A t \in sending : t.job = SlotJob(j) => t.stage = "sent" /\ t.sent
        PROVE  /\ slots'[j].state = "published" /\ ~slots'[j].release_pending
               /\ slots'[j].epoch = slots[j].epoch /\ slots'[j].generation = slots[j].generation
    <3>1. CASE s.job.slot /\ j = i
      <4>1. s.sent BY <1>4, <1>7, <2>1, <3>1
      <4> QED BY <1>9, <1>10, <2>1, <3>1, <4>1 DEF SlotBecomes
    <3>2. CASE ~(s.job.slot /\ j = i)
      <4>1. slots'[j] = slots[j] BY <1>10, <1>12, <3>2 DEF SlotBecomes
      <4> QED BY <2>1, <4>1
    <3> QED BY <3>1, <3>2
  <2> QED BY <1>1, <1>2, <2>1, GrantedStays
<1>19. JobsStep
  <2>1. \A j \in Buf : /\ Queued(j)' <=> Queued(j)
                       /\ OnceJob(output'.items, j)
                       /\ ~InHand(j)'
    BY <1>1, <1>6 DEF Queued, InHand, HasJob, FramesInv, Custody, Alone
  <2>2. \A k \in DOMAIN output'.items : Promised(output'.items[k], Granted')
    BY <1>3, <1>6, <1>18 DEF Ownership, Promised
  <2> QED BY <1>1, <2>1, <2>2 DEF JobsStep
<1>20. \A j \in Buf : Moves(j)
  <2> TAKE j \in Buf
  <2>1. j \notin CPU => j \in Index BY DEF Buf
  <2> QED BY <1>2, <1>15, <2>1 DEF Moves
<1>21. CASE UNCHANGED <<consumer, unix, mach>>
  <2>1. DownstreamSame BY <1>2, <1>21 DEF DownstreamSame, wire, consumer
  <2>2. Bounded' BY <1>2, <1>21 DEF FramesInv, Bounded
  <2> QED BY <1>14, <1>16, <1>17, <1>18, <1>19, <1>20, <2>1, <2>2, DeviceDone
<1>22. CASE PeerCloses /\ unix' = <<>> /\ mach' = <<>>
  <2>1. /\ closed' = TRUE /\ signal' = TRUE /\ releases' = <<>>
        /\ UNCHANGED <<desktop, order, leased, frames, held, owed, active, taking, waiting>>
    BY <1>22 DEF PeerCloses
  <2>2. WireShape' BY <1>2, <1>3, <1>22, <2>1 DEF WireShape
  <2>3. ConsumerShape' /\ LatestAlone'
    BY <1>3, <2>1 DEF ConsumerShape, DesktopShape, LatestAlone
  <2>4. Bounded' BY <1>2, <1>3, <1>22 DEF Bounded
  <2>5. Live' = Live BY <2>1, LiveSame
  <2>6. ChannelsFlow /\ ChannelsBacked' /\ \A j \in Buf : Separate(j)'
    BY <1>2, <1>18, <1>22, <2>1, <2>5, PeerGone
  <2>7. \A j \in Buf : Has(unix, j) \/ Has(mach, j) \/ Leased(j) => Kept(j)' BY <1>18, StillKept
  <2> QED BY <1>14, <1>16, <1>17, <1>19, <1>20, <2>2, <2>3, <2>4, <2>6, <2>7, StepDone
<1> QED BY <1>21, <1>22 DEF Settle

(* A release returns one buffer, and nothing else names it any more.         *)
LEMMA BackedLess ==
    ASSUME NEW q, NEW V, NEW W, Backed(q, V), NEW m, \A i : About(m, i) => ~Has(q, i),
           \A t \in V : ~About(m, t[1]) => t \in W
    PROVE  Backed(q, W)
<1> SUFFICES ASSUME NEW k \in DOMAIN q, Bears(q[k]) PROVE Token(Of(q[k])) \in W BY DEF Backed
<1>1. Token(Of(q[k])) \in V BY DEF Backed
<1>2. About(q[k], Of(q[k]).index) BY DEF About
<1>3. Has(q, Of(q[k]).index) BY <1>2 DEF Has
<1>4. Token(Of(q[k]))[1] = Of(q[k]).index BY DEF Token
<1> QED BY <1>1, <1>3, <1>4

LEMMA BackDone ==
    ASSUME FramesInv, back # <<>>, back' = Tail(back),
           UNCHANGED <<consumer, separate, unix, mach, output, sending>>,
           \A t \in Granted : ~About(Head(back), t[1]) => t \in Granted',
           ProducerShape', SlotsSound', Bounded', \A i \in Buf : Moves(i)
    PROVE  FramesStep
<1> DEFINE m == Head(back)
<1>1. UNCHANGED <<desktop, order, leased, releases, frames, held, owed, active, taking,
                  waiting, signal, closed>>
  BY DEF consumer
<1>2. /\ WireShape /\ ConsumerShape /\ LatestAlone /\ Counts /\ Ownership
      /\ \A i \in Buf : Alone(i)
  BY DEF FramesInv, Custody
<1>3. back \in Seq(BackMsg) BY <1>2 DEF WireShape
<1>4. Tail(back) \in Seq(BackMsg) /\ m \in BackMsg BY <1>3, TailOf
<1>5. WireShape' BY <1>1, <1>2, <1>4 DEF WireShape
<1>6. ConsumerShape' /\ LatestAlone' /\ Counts'
  BY <1>1, <1>2 DEF ConsumerShape, DesktopShape, LatestAlone, Counts
<1>7. Live' = Live BY <1>1, LiveSame
<1>8. \A i : About(m, i) => i \in Buf
  <2>1. m.kind \in {"release", "reply"} BY <1>4 DEF BackMsg, ReleaseMsg, ReplyMsg
  <2>2. Bears(m) => m.kind = "release" BY <2>1 DEF Bears, Image, CpuKinds
  <2>3. Bears(m) => Of(m) = m BY <2>2 DEF Of, CpuKinds
  <2>4. m.kind = "release" => m \in ReleaseMsg BY <1>4 DEF BackMsg, ReplyMsg
  <2> QED BY <2>2, <2>3, <2>4 DEF About, ReleaseMsg
<1>9. \A i : About(m, i) => Has(back, i) BY <1>3, HasTail
<1>10. \A i : About(m, i) => /\ ~Queued(i) /\ ~InHand(i) /\ ~Has(unix, i) /\ ~Has(mach, i)
                             /\ ~Leased(i) /\ ~Has(releases, i) /\ ~Has(Tail(back), i)
  <2> SUFFICES ASSUME NEW i, About(m, i)
               PROVE  /\ ~Queued(i) /\ ~InHand(i) /\ ~Has(unix, i) /\ ~Has(mach, i)
                      /\ ~Leased(i) /\ ~Has(releases, i) /\ ~Has(Tail(back), i)
    OBVIOUS
  <2>1. i \in Buf /\ Has(back, i) BY <1>8, <1>9
  <2>2. Alone(i) BY <1>2, <2>1
  <2>3. ~Has(Tail(back), i) BY <1>3, <2>2, HasTail DEF Alone
  <2> QED BY <2>1, <2>2, <2>3 DEF Alone
<1>11. Backed(Tail(back), Granted) BY <1>2, <1>3, BackedTail DEF Ownership
<1> HIDE DEF m
<1>12. \A t \in Granted : ~About(m, t[1]) => t \in Granted' BY DEF m
<1>13. ChannelsBacked'
  <2>1. /\ Backed(unix, Granted') /\ Backed(mach, Granted') /\ Backed(releases, Granted')
        /\ Backed(Tail(back), Granted')
    BY <1>2, <1>10, <1>11, <1>12, BackedLess DEF Ownership
  <2>2. ASSUME NEW l \in Live PROVE Token(l) \in Granted'
    <3>1. Token(l) \in Granted /\ Token(l)[1] = l.index BY <1>2 DEF Ownership, Token
    <3>2. ~About(m, l.index) BY <1>10 DEF Leased
    <3> QED BY <1>12, <3>1, <3>2
  <2> QED BY <1>1, <1>7, <2>1, <2>2 DEF ChannelsBacked
<1>14. ASSUME NEW j \in Job, Promised(j, Granted), \A i : JobFor(j, i) => ~About(m, i)
       PROVE  Promised(j, Granted')
  <2> SUFFICES ASSUME ~j.slot, Bears(j.op) PROVE Token(Of(j.op)) \in Granted' BY DEF Promised
  <2>1. Token(Of(j.op)) \in Granted /\ Token(Of(j.op))[1] = Of(j.op).index
    BY <1>14 DEF Promised, Token
  <2>2. JobFor(j, Of(j.op).index) BY DEF JobFor, About
  <2> QED BY <1>12, <1>14, <2>1, <2>2
<1>15. JobsStep
  <2>1. \A i \in Buf : /\ Queued(i)' <=> Queued(i)
                       /\ InHand(i)' <=> InHand(i)
    BY DEF Queued, InHand, HasJob
  <2>2. \A k \in DOMAIN output'.items : Promised(output'.items[k], Granted')
    <3> SUFFICES ASSUME NEW k \in DOMAIN output.items PROVE Promised(output.items[k], Granted')
      OBVIOUS
    <3>1. output.items[k] \in Job /\ Promised(output.items[k], Granted)
      BY <1>2, JobWhere DEF Ownership
    <3>2. \A i : JobFor(output.items[k], i) => ~About(m, i) BY <1>10 DEF Queued, HasJob
    <3> QED BY <1>14, <3>1, <3>2
  <2>3. \A s \in sending' : s.stage # "sent" => Promised(s.job, Granted')
    <3> SUFFICES ASSUME NEW s \in sending, s.stage # "sent" PROVE Promised(s.job, Granted')
      OBVIOUS
    <3>1. s.job \in Job /\ Promised(s.job, Granted) BY <1>2, JobWhere DEF Ownership
    <3>2. \A i : JobFor(s.job, i) => ~About(m, i) BY <1>10 DEF InHand
    <3> QED BY <1>14, <3>1, <3>2
  <2> QED BY <1>2, <2>1, <2>2, <2>3 DEF JobsStep, Alone
<1>16. ASSUME NEW i \in Buf
       PROVE  /\ Has(unix, i)' <=> Has(unix, i)
              /\ Has(mach, i)' <=> Has(mach, i)
              /\ Leased(i)' <=> Leased(i)
              /\ Has(releases, i)' <=> Has(releases, i)
              /\ Has(back, i)' => Has(back, i)
              /\ Separate(i)'
  <2>1. /\ Has(unix, i)' <=> Has(unix, i)
        /\ Has(mach, i)' <=> Has(mach, i)
        /\ Has(releases, i)' <=> Has(releases, i)
        /\ Once(unix, i)' <=> Once(unix, i)
        /\ Once(mach, i)' <=> Once(mach, i)
        /\ Once(releases, i)' <=> Once(releases, i)
    BY <1>1 DEF Has, Once
  <2>2. Leased(i)' <=> Leased(i) BY <1>7 DEF Leased
  <2>3. /\ Has(back, i)' <=> Has(Tail(back), i)
        /\ Once(back, i)' <=> Once(Tail(back), i)
    BY DEF Has, Once
  <2>4. Separate(i) BY SeparateNow
  <2>5. Has(back, i)' => Has(back, i) BY <1>3, <2>3, HasTail
  <2>6. Once(back, i)' BY <1>3, <2>3, <2>4, HasTail DEF Separate
  <2> QED BY <2>1, <2>2, <2>4, <2>5, <2>6 DEF Separate
<1>17. ChannelsFlow BY <1>16 DEF ChannelsFlow
<1>18. ASSUME NEW i \in Buf, Has(unix, i) \/ Has(mach, i) \/ Leased(i) PROVE Kept(i)'
  <2>1. ~About(m, i) BY <1>10, <1>18
  <2>2. PICK t \in Granted : t[1] = i BY <1>18, PlacedKept
  <2>3. t \in Granted' BY <1>12, <2>1, <2>2
  <2> QED BY <2>2, <2>3, KeptNext
<1> QED BY <1>5, <1>6, <1>13, <1>15, <1>16, <1>17, <1>18, StepDone

LEMMA ReceiveBackStep == ASSUME FramesInv, ReceiveBack PROVE FramesStep
<1> DEFINE m == Head(back)
<1>1. /\ back # <<>> /\ back' = Tail(back)
      /\ UNCHANGED <<consumer, separate, unix, mach, external>>
  BY DEF ReceiveBack
<1>2. ProducerShape /\ SlotsSound /\ Bounded /\ Ownership /\ back \in Seq(BackMsg)
  BY DEF FramesInv, Custody, WireShape
<1>3. m \in BackMsg BY <1>1, <1>2, TailOf
<1>4. m.kind = "reply" => m \in ReplyMsg /\ ~Bears(m)
  BY <1>3 DEF BackMsg, ReplyMsg, ReleaseMsg, Bears, Image, CpuKinds
<1>5. m.kind # "reply" => m \in ReleaseMsg /\ m.kind = "release"
  BY <1>3 DEF BackMsg, ReplyMsg, ReleaseMsg
<1>6. m.kind # "reply" =>
          /\ m.index \in Buf /\ <<m.index, m.epoch, m.generation>> \in Granted
          /\ \A i : About(m, i) <=> i = m.index
  <2> SUFFICES ASSUME m.kind # "reply"
               PROVE  /\ m.index \in Buf /\ <<m.index, m.epoch, m.generation>> \in Granted
                      /\ \A i : About(m, i) <=> i = m.index
    OBVIOUS
  <2>1. m \in ReleaseMsg /\ m.kind = "release" BY <1>5
  <2>2. Bears(m) /\ Of(m) = m BY <2>1 DEF Bears, Of, CpuKinds
  <2>3. Token(Of(m)) \in Granted BY <1>1, <1>2, <2>2, BackedTail DEF Ownership
  <2> QED BY <2>1, <2>2, <2>3 DEF ReleaseMsg, Token, About
<1>7. UNCHANGED <<stream, refs>> BY <1>1 DEF external
<1>8. CASE m.kind = "reply"
  <2>1. ReplyReceive(m) /\ UNCHANGED <<slots, drawables, next_epoch, output, sending, cpu>>
    BY <1>8 DEF ReceiveBack, producer
  <2>2. reply' \in Reply
    <3>1. reply \in Reply /\ m.ok \in BOOLEAN /\ m.sequence \in Nat
      BY <1>2, <1>4, <1>8 DEF ProducerShape, ReplyMsg
    <3> QED BY <2>1, <3>1 DEF ReplyReceive, Reply
  <2>3. ProducerShape' BY <1>2, <1>7, <2>1, <2>2 DEF ProducerShape
  <2>4. SlotsSound' BY <1>2, <2>1 DEF SlotsSound, SlotSound, HeldBy
  <2>5. Bounded' BY <1>1, <1>2, <1>7, <2>1 DEF Bounded
  <2>6. Granted \subseteq Granted' BY <2>1, GrantedStays
  <2>7. \A i \in Buf : Moves(i) BY <2>1 DEF Moves
  <2> QED BY <1>1, <2>1, <2>3, <2>4, <2>5, <2>6, <2>7, BackDone
<1>9. CASE m.kind = "release" /\ m.index \in CPU
  <2> DEFINE c == m.index
             new == CpuReleased(cpu[c], m)
  <2>1. cpu' = [cpu EXCEPT ![c] = new]
        /\ UNCHANGED <<slots, drawables, next_epoch, output, sending, reply>>
    BY <1>9 DEF ReceiveBack, CpuRelease, producer
  <2>2. cpu \in [CPU -> Allocation] /\ cpu[c] \in Allocation BY <1>2, <1>9 DEF ProducerShape
  <2>3. /\ new \in Allocation /\ (new.published => cpu[c].published)
        /\ new.published => new = cpu[c]
    BY <2>2 DEF CpuReleased, Allocation
  <2> HIDE DEF new
  <2>4. /\ cpu' \in [CPU -> Allocation]
        /\ \A o \in CPU : cpu'[o].published => cpu[o].published /\ cpu'[o] = cpu[o]
        /\ \A o \in CPU : o # c => cpu'[o] = cpu[o]
    BY <1>9, <2>1, <2>2, <2>3
  <2>5. ProducerShape' BY <1>2, <1>7, <2>1, <2>4 DEF ProducerShape
  <2>6. SlotsSound' BY <1>2, <2>1 DEF SlotsSound, SlotSound, HeldBy
  <2>7. Bounded' BY <1>1, <1>2, <1>7, <2>4 DEF Bounded
  <2>8. \A t \in Granted : ~About(m, t[1]) => t \in Granted'
    <3> SUFFICES ASSUME NEW t \in Granted, t[1] # c PROVE t \in Granted' BY <1>6, <1>9
    <3>1. t[1] \in CPU => cpu'[t[1]] = cpu[t[1]] BY <2>4
    <3> QED BY <2>1, <3>1 DEF Granted
  <2>9. \A i \in Buf : Moves(i) BY <2>1, <2>4 DEF Moves
  <2> QED BY <1>1, <2>1, <2>5, <2>6, <2>7, <2>8, <2>9, BackDone
<1>10. CASE m.kind = "release" /\ m.index \notin CPU
  <2> DEFINE i == m.index
             new == Freed(slots[i], m)
  <2>1. slots' = [slots EXCEPT ![i] = new]
        /\ UNCHANGED <<drawables, next_epoch, output, sending, cpu, reply>>
    BY <1>10 DEF ReceiveBack, Release
  <2>2. i \in Index BY <1>6, <1>10 DEF Buf
  <2>3. slots \in [Index -> Slot] /\ slots[i] \in Slot BY <1>2, <2>2 DEF ProducerShape
  <2>4. /\ slots[i].state = "published" /\ ~slots[i].release_pending
        /\ \A s \in sending : s.job = SlotJob(i) => s.stage = "sent" /\ s.sent
    BY <1>6, <1>10 DEF Granted
  <2>5. /\ new \in Slot /\ new.epoch = slots[i].epoch /\ new.state \in {"free", "published"}
        /\ new.sending = slots[i].sending /\ (new.sending => new.state = "published")
    BY <2>3, <2>4 DEF Freed, Slot
  <2> HIDE DEF new
  <2>6. SlotBecomes(i, new) BY <2>1, <2>2, <2>3, <2>5 DEF SlotBecomes
  <2>7. ProducerShape' BY <1>2, <1>7, <2>1, <2>6 DEF ProducerShape, SlotBecomes
  <2>8. SlotsSound'
    <3>1. ASSUME NEW s \in sending, s.job.slot PROVE HeldBy(s)'
      <4>1. HeldBy(s) /\ s.job.index \in Index /\ s.job = SlotJob(s.job.index)
        BY <1>2, <3>1, JobWhere, JobType DEF SlotsSound
      <4>2. CASE s.job.index = i
        <5>1. s.stage = "sent" /\ s.sent BY <2>4, <4>1, <4>2
        <5>2. slots[i].sending BY <4>1, <4>2, <5>1 DEF HeldBy
        <5> QED BY <2>5, <2>6, <4>2, <5>1, <5>2 DEF HeldBy, SlotBecomes
      <4>3. CASE s.job.index # i BY <2>6, <4>1, <4>3 DEF HeldBy, SlotBecomes
      <4> QED BY <4>2, <4>3
    <3>2. ASSUME NEW k \in DOMAIN output.items, output.items[k].slot
          PROVE  /\ slots'[output.items[k].index].state = "pending"
                 /\ ~slots'[output.items[k].index].release_pending
      <4>1. /\ slots[output.items[k].index].state = "pending" /\ output.items[k].index \in Index
            /\ ~slots[output.items[k].index].release_pending
        BY <1>2, <3>2, JobWhere, JobType DEF SlotsSound
      <4>2. output.items[k].index # i BY <2>4, <4>1
      <4> QED BY <2>6, <4>1, <4>2 DEF SlotBecomes
    <3>3. \A j \in Index : SlotSound(j)'
      <4> TAKE j \in Index
      <4>1. SlotSound(j) BY <1>2 DEF SlotsSound
      <4>2. CASE j = i
        <5>1. slots'[j] = new /\ slots[i].epoch # 0 BY <2>4, <2>6, <4>1, <4>2 DEF SlotBecomes, SlotSound
        <5>2. new.sending => \E s \in sending : s.job = SlotJob(i) /\ s.stage # "popped"
          BY <2>5, <4>1, <4>2 DEF SlotSound
        <5> QED BY <2>1, <2>5, <4>2, <5>1, <5>2 DEF SlotSound
      <4>3. CASE j # i
        <5>1. slots'[j] = slots[j] BY <2>6, <4>3 DEF SlotBecomes
        <5> QED BY <2>1, <4>1, <5>1 DEF SlotSound
      <4> QED BY <4>2, <4>3
    <3> QED BY <1>2, <2>1, <3>1, <3>2, <3>3 DEF SlotsSound
  <2>9. Bounded' BY <1>1, <1>2, <1>7, <2>1 DEF Bounded
  <2>10. \A t \in Granted : ~About(m, t[1]) => t \in Granted'
    <3> SUFFICES ASSUME NEW t \in Granted, t[1] # i PROVE t \in Granted' BY <1>6, <1>10
    <3>1. t[1] \in Buf BY DEF Granted
    <3>2. t[1] \notin CPU => slots'[t[1]] = slots[t[1]] BY <2>6, <3>1 DEF SlotBecomes, Buf
    <3> QED BY <2>1, <3>2 DEF Granted
  <2>11. \A j \in Buf : Moves(j)
    <3> TAKE j \in Buf
    <3>1. j \notin CPU => j \in Index BY DEF Buf
    <3> QED BY <2>1, <2>4, <2>5, <2>6, <3>1 DEF Moves, SlotBecomes
  <2> QED BY <1>1, <2>1, <2>7, <2>8, <2>9, <2>10, <2>11, BackDone
<1> QED BY <1>5, <1>8, <1>9, <1>10

-----------------------------------------------------------------------------
(* Steps of the SDK.                                                         *)

LEMMA SdkDone ==
    ASSUME FramesInv, Untouched, separate' = separate,
           separate => \A k \in DOMAIN unix' : unix'[k].kind \notin Image,
           ~separate => mach' = <<>>,
           WireShape', ConsumerShape', LatestAlone', ChannelsFlow,
           \A i \in Buf : Separate(i)',
           Backed(unix', Granted), Backed(mach', Granted), Backed(releases', Granted),
           Backed(back', Granted), \A l \in Live' : Token(l) \in Granted
    PROVE  FramesStep
<1>1. UNCHANGED <<slots, drawables, next_epoch, output, sending, cpu, reply, stream, refs>>
  BY DEF Untouched, producer, external
<1>2. ProducerShape /\ SlotsSound /\ Bounded /\ Counts BY DEF FramesInv
<1>3. Granted' = Granted BY <1>1 DEF Granted
<1>4. ProducerShape' BY <1>1, <1>2 DEF ProducerShape
<1>5. SlotsSound' BY <1>1, <1>2 DEF SlotsSound, SlotSound, HeldBy
<1>6. Bounded' BY <1>1, <1>2 DEF Bounded
<1>7. Counts' BY <1>1, <1>2 DEF Counts
<1>8. JobsStep BY <1>1, <1>3, IdleJobs
<1>9. \A i \in Buf : Moves(i) BY <1>1 DEF Moves
<1>10. \A i \in Buf : Has(unix, i) \/ Has(mach, i) \/ Leased(i) => Kept(i)' BY <1>3, StillKept
<1>11. ChannelsBacked' BY <1>3 DEF ChannelsBacked
<1> QED BY <1>4, <1>5, <1>6, <1>7, <1>8, <1>9, <1>10, <1>11, StepDone

(* What the device keeps for a buffer is one identity, so what the SDK       *)
(* leases of it is one lease.                                                *)
LEMMA LeaseByIndex ==
    ASSUME NEW l \in AnyLease, NEW k \in AnyLease, Token(l) \in Granted, Token(k) \in Granted,
           l.index = k.index
    PROVE  l = k
<1>1. l.epoch = k.epoch /\ l.generation = k.generation
  <2>1. /\ Token(l)[1] = l.index /\ Token(l)[2] = l.epoch /\ Token(l)[3] = l.generation
        /\ Token(k)[1] = k.index /\ Token(k)[2] = k.epoch /\ Token(k)[3] = k.generation
    BY DEF Token
  <2>2. CASE l.index \in CPU BY <2>1, <2>2 DEF Granted
  <2>3. CASE l.index \notin CPU BY <2>1, <2>3 DEF Granted
  <2> QED BY <2>2, <2>3
<1>2. \A x \in AnyLease : /\ x = [d |-> x.d, index |-> x.index, epoch |-> x.epoch,
                                  generation |-> x.generation]
                          /\ x.d = IF x.index \in CPU THEN x.index ELSE x.index[1]
  <2> TAKE x \in AnyLease
  <2>1. CASE x \in ImageLease BY <2>1, Apart DEF ImageLease
  <2>2. CASE x \in CpuLease BY <2>2 DEF CpuLease
  <2> QED BY <2>1, <2>2 DEF AnyLease
<1> QED BY <1>1, <1>2

LEMMA ImageFinite ==
    ASSUME NEW S, IsFiniteSet(S), NEW f PROVE IsFiniteSet({f[x] : x \in S})
<1> DEFINE T == {f[x] : x \in S}
           g == [x \in S |-> f[x]]
<1>1. g \in Surjection(S, T) BY DEF Surjection
<1> HIDE DEF T, g
<1>2. IsFiniteSet(T) BY <1>1, FS_Surjection
<1> QED BY <1>2 DEF T

LEMMA LiveType ==
    ASSUME FramesInv
    PROVE  /\ Live \subseteq AnyLease /\ IsFiniteSet(Live)
           /\ \A l \in Live : Token(l) \in Granted
<1>1. ConsumerShape /\ Ownership BY DEF FramesInv, Custody
<1>2. /\ desktop.resources \subseteq ImageLease /\ desktop.pending \in Seq(Op)
      /\ frames.latest \subseteq ImageLease /\ frames.windows \subseteq ImageLease
      /\ held \subseteq AnyLease
      /\ IsFiniteSet(desktop.resources) /\ IsFiniteSet(frames.latest)
      /\ IsFiniteSet(frames.windows) /\ IsFiniteSet(held)
  BY <1>1 DEF ConsumerShape, DesktopShape
<1>3. PendingLeases(desktop.pending) \subseteq CpuLease
  <2>1. \A k \in DOMAIN desktop.pending : desktop.pending[k] \in Op BY <1>2
  <2> QED BY <2>1, OpType DEF PendingLeases, CpuKinds
<1>4. IsFiniteSet(PendingLeases(desktop.pending))
  <2> DEFINE q == desktop.pending
             K == {j \in DOMAIN q : q[j].kind \in {"seed", "patch", "return"}}
  <2>1. Len(q) \in Nat /\ DOMAIN q = 1..Len(q) BY <1>2
  <2>2. IsFiniteSet(DOMAIN q) BY <2>1, FS_Interval
  <2>3. IsFiniteSet(K) BY <2>2, FS_Subset
  <2>4. PendingLeases(q) = {q[k].lease : k \in K} BY DEF PendingLeases
  <2> DEFINE f == [k \in K |-> q[k].lease]
  <2> HIDE DEF K, q
  <2>6. {q[k].lease : k \in K} = {f[k] : k \in K} OBVIOUS
  <2> HIDE DEF f
  <2>5. IsFiniteSet({q[k].lease : k \in K}) BY <2>3, <2>6, ImageFinite
  <2> QED BY <2>4, <2>5 DEF q
<1>5. Live = (((desktop.resources \union frames.latest) \union frames.windows) \union held)
               \union PendingLeases(desktop.pending)
  BY DEF Live, Owners
<1>6. Live \subseteq AnyLease BY <1>2, <1>3, <1>5 DEF AnyLease
<1>7. IsFiniteSet(Live) BY <1>2, <1>4, <1>5, FS_Union
<1> QED BY <1>1, <1>6, <1>7 DEF Ownership

(* The release queue after the leases of S gave up their buffers.            *)
Released(S) ==
    /\ releases' \in Seq(BackMsg) /\ Backed(releases', Granted)
    /\ \A i : Has(releases', i) => Has(releases, i) \/ \E l \in S : l.index = i
    /\ \A i \in Buf : ((\E l \in S : l.index = i) => ~Has(releases, i)) => Once(releases', i)

LEMMA ReleasedNone == ASSUME FramesInv, releases' = releases PROVE \A S : Released(S)
<1>1. releases \in Seq(BackMsg) /\ Backed(releases, Granted) /\ \A i \in Buf : Once(releases, i)
  BY DEF FramesInv, WireShape, Custody, Ownership, Alone
<1> QED BY <1>1 DEF Released

LEMMA EnqueueIs ==
    ASSUME closed \in BOOLEAN, NEW messages, Enqueue(messages)
    PROVE  /\ closed' \in BOOLEAN
           /\ releases' = releases \/ releases' = releases \o messages
BY DEF Enqueue

LEMMA ReleasedAll ==
    ASSUME FramesInv, NEW S, S \subseteq AnyLease, IsFiniteSet(S),
           \A l \in S : Token(l) \in Granted, ReleaseAll(S)
    PROVE  Released(S) /\ closed' \in BOOLEAN
<1> DEFINE M == {ReleaseOf(l) : l \in S}
           q == SetToSeq(M)
<1>0. closed \in BOOLEAN BY DEF FramesInv, ConsumerShape
<1>1. closed' \in BOOLEAN /\ (releases' = releases \/ releases' = releases \o q)
  BY <1>0, EnqueueIs DEF ReleaseAll
<1>2. IsFiniteSet(M)
  <2> DEFINE f == [l \in S |-> ReleaseOf(l)]
  <2>1. M = {f[l] : l \in S} OBVIOUS
  <2> HIDE DEF q, f, M
  <2> QED BY <2>1, ImageFinite
<1>3. /\ q \in Seq(M) /\ DOMAIN q = 1..Cardinality(M)
      /\ \A x : x \in M <=> \E k \in 1..Cardinality(M) : q[k] = x
      /\ \A j, k \in DOMAIN q : q[j] = q[k] => j = k
  <2> HIDE DEF M
  <2> QED BY <1>2, SeqOfSet
<1>4. \A l \in S : /\ ReleaseOf(l) \in ReleaseMsg /\ Bears(ReleaseOf(l))
                   /\ Of(ReleaseOf(l)) = ReleaseOf(l)
                   /\ Token(ReleaseOf(l)) = Token(l) /\ ReleaseOf(l).index = l.index
  <2> TAKE l \in S
  <2>1. l.index \in Buf /\ l.epoch \in Nat /\ l.generation \in Nat
    BY DEF AnyLease, ImageLease, CpuLease, Buf
  <2> QED BY <2>1 DEF ReleaseOf, ReleaseMsg, Bears, Of, CpuKinds, Token
<1>5. M \subseteq BackMsg BY <1>4 DEF BackMsg
<1> HIDE DEF q
<1>6. \A k \in DOMAIN q : \E l \in S : q[k] = ReleaseOf(l)
  <2>1. \A k \in DOMAIN q : q[k] \in M
    <3> HIDE DEF M
    <3> QED BY <1>3
  <2> QED BY <2>1
<1> HIDE DEF M
<1>7. q \in Seq(BackMsg) BY <1>3, <1>5
<1>8. Backed(q, Granted) BY <1>4, <1>6 DEF Backed
<1>9. \A i : Has(q, i) => \E l \in S : l.index = i BY <1>4, <1>6 DEF Has, About
<1>10. \A i : Once(q, i)
  <2> SUFFICES ASSUME NEW i, NEW j \in DOMAIN q, NEW k \in DOMAIN q, About(q[j], i), About(q[k], i)
               PROVE  j = k
    BY DEF Once
  <2>1. PICK l \in S : q[j] = ReleaseOf(l) BY <1>6
  <2>2. PICK m \in S : q[k] = ReleaseOf(m) BY <1>6
  <2>3. l.index = m.index BY <1>4, <2>1, <2>2 DEF About
  <2>4. l = m BY <2>3, LeaseByIndex
  <2> QED BY <1>3, <2>1, <2>2, <2>4
<1>11. releases \in Seq(BackMsg) /\ Backed(releases, Granted) /\ \A i \in Buf : Once(releases, i)
  BY DEF FramesInv, WireShape, Custody, Ownership, Alone
<1>12. CASE releases' = releases BY <1>1, <1>12, ReleasedNone
<1>13. CASE releases' = releases \o q
  <2>1. releases \o q \in Seq(BackMsg) BY <1>7, <1>11, CatOf
  <2>2. Backed(releases \o q, Granted) BY <1>7, <1>8, <1>11, BackedCat
  <2>3. \A i : Has(releases \o q, i) => Has(releases, i) \/ \E l \in S : l.index = i
    BY <1>7, <1>9, <1>11, HasCat
  <2>4. \A i \in Buf : ((\E l \in S : l.index = i) => ~Has(releases, i)) => Once(releases \o q, i)
    BY <1>7, <1>9, <1>10, <1>11, HasCat
  <2> QED BY <1>1, <1>13, <2>1, <2>2, <2>3, <2>4 DEF Released
<1> QED BY <1>1, <1>12, <1>13

(* Leases move between their owners, or end and are released.                *)
LEMMA OwnersStep ==
    ASSUME FramesInv, Untouched, UNCHANGED wire, ConsumerShape', LatestAlone',
           Live' \subseteq Live, NEW S, S \subseteq Live \ Live', Released(S)
    PROVE  FramesStep
<1>1. UNCHANGED <<separate, unix, mach, back>> BY DEF wire
<1>2. WireShape /\ Bounded /\ Ownership BY DEF FramesInv, Custody
<1>3. Live \subseteq AnyLease /\ \A l \in Live : Token(l) \in Granted BY LiveType
<1>4. WireShape' BY <1>1, <1>2 DEF WireShape, Released
<1>5. ASSUME NEW i \in Buf
      PROVE  /\ Has(unix, i)' <=> Has(unix, i)
             /\ Has(mach, i)' <=> Has(mach, i)
             /\ Has(back, i)' <=> Has(back, i)
             /\ Leased(i)' => Leased(i)
             /\ Has(releases, i)' => Has(releases, i) \/ Leased(i)
             /\ Separate(i)'
  <2>1. /\ Has(unix, i)' <=> Has(unix, i)
        /\ Has(mach, i)' <=> Has(mach, i)
        /\ Has(back, i)' <=> Has(back, i)
        /\ Once(unix, i)' <=> Once(unix, i)
        /\ Once(mach, i)' <=> Once(mach, i)
        /\ Once(back, i)' <=> Once(back, i)
    BY <1>1 DEF Has, Once
  <2>2. Leased(i)' <=> \E l \in Live' : l.index = i BY DEF Leased
  <2>3. /\ Has(releases, i)' <=> Has(releases', i)
        /\ Once(releases, i)' <=> Once(releases', i)
    BY DEF Has, Once
  <2>4. Separate(i) BY SeparateNow
  <2>5. (\E l \in S : l.index = i) => Leased(i) /\ ~\E l \in Live' : l.index = i
    <3> SUFFICES ASSUME NEW l \in S, l.index = i, NEW k \in Live', k.index = i PROVE FALSE
      BY DEF Leased
    <3>1. l \in Live /\ k \in Live /\ l # k OBVIOUS
    <3> QED BY <1>3, <3>1, LeaseByIndex
  <2>6. Leased(i)' => Leased(i) BY <2>2 DEF Leased
  <2>7. Has(releases, i)' => Has(releases, i) \/ \E l \in S : l.index = i
    BY <2>3 DEF Released
  <2>8. Once(releases, i)'
    <3>1. (\E l \in S : l.index = i) => ~Has(releases, i) BY <2>4, <2>5 DEF Separate
    <3> QED BY <2>3, <3>1 DEF Released
  <2> QED BY <2>1, <2>2, <2>4, <2>5, <2>6, <2>7, <2>8 DEF Separate
<1>6. ChannelsFlow BY <1>5 DEF ChannelsFlow
<1>7. /\ Backed(unix', Granted) /\ Backed(mach', Granted) /\ Backed(back', Granted)
      /\ Backed(releases', Granted)
  BY <1>1, <1>2 DEF Ownership, Released
<1>8. /\ separate => \A k \in DOMAIN unix' : unix'[k].kind \notin Image
      /\ ~separate => mach' = <<>>
  BY <1>1, <1>2 DEF Bounded
<1> QED BY <1>1, <1>3, <1>4, <1>5, <1>6, <1>7, <1>8, SdkDone

LEMMA ConsumerType ==
    ASSUME FramesInv
    PROVE  /\ DesktopShape
           /\ frames \in [latest : SUBSET ImageLease, owner : SUBSET ImageLease,
                          windows : SUBSET ImageLease]
           /\ frames.latest \subseteq ImageLease /\ frames.owner \subseteq ImageLease
           /\ frames.windows \subseteq ImageLease
           /\ held \subseteq AnyLease /\ owed \subseteq Pair
           /\ order \in [epoch : Nat, generations : [Drawable -> Nat]]
           /\ leased \subseteq (1..(MaxEpoch + MaxOps)) \X Buf
           /\ active \in BOOLEAN /\ waiting \in BOOLEAN /\ signal \in BOOLEAN /\ closed \in BOOLEAN
           /\ taking = {} \/ \E t : taking = {t} /\ t.returned \in BOOLEAN
           /\ IsFiniteSet(desktop.resources) /\ IsFiniteSet(frames.latest)
           /\ IsFiniteSet(frames.windows) /\ IsFiniteSet(held)
           /\ Len(desktop.pending) <= MaxPending
           /\ LatestAlone
BY DEF FramesInv, ConsumerShape

LEMMA LiveIs ==
    /\ Live = desktop.resources \union frames.latest \union frames.windows \union held
                \union PendingLeases(desktop.pending)
    /\ Live' = desktop'.resources \union frames'.latest \union frames'.windows \union held'
                \union PendingLeases(desktop'.pending)
BY DEF Live, Owners

(* The receiver waits and wakes.                                             *)
LEMMA SleepsStep == ASSUME FramesInv, ReceiverSleeps PROVE FramesStep
<1>1. /\ waiting' = TRUE /\ signal' = FALSE
      /\ UNCHANGED <<desktop, order, leased, releases, frames, held, owed, active, taking, closed>>
  BY DEF ReceiverSleeps, WaitForSpace
<1>2. UNCHANGED wire /\ Untouched BY DEF ReceiverSleeps
<1>3. ConsumerShape' /\ LatestAlone'
  BY <1>1, ConsumerType DEF ConsumerShape, DesktopShape, LatestAlone
<1>4. Live' = Live BY <1>1, LiveSame
<1>5. Released({}) BY <1>1, ReleasedNone
<1> QED BY <1>2, <1>3, <1>4, <1>5, OwnersStep

LEMMA WakesStep == ASSUME FramesInv, ReceiverWakes PROVE FramesStep
<1>1. /\ waiting' = FALSE /\ signal' = FALSE
      /\ UNCHANGED <<desktop, order, leased, releases, frames, held, owed, active, taking, closed>>
  BY DEF ReceiverWakes, WakeReceiver
<1>2. UNCHANGED wire /\ Untouched BY DEF ReceiverWakes
<1>3. ConsumerShape' /\ LatestAlone'
  BY <1>1, ConsumerType DEF ConsumerShape, DesktopShape, LatestAlone
<1>4. Live' = Live BY <1>1, LiveSame
<1>5. Released({}) BY <1>1, ReleasedNone
<1> QED BY <1>2, <1>3, <1>4, <1>5, OwnersStep

(* The presentation thread takes what the receivers left for it.             *)
LEMMA FrameStep == ASSUME FramesInv, Frame PROVE FramesStep
<1>1. /\ frames' = [frames EXCEPT !.latest = {}] /\ held' = held \union frames.latest
      /\ UNCHANGED <<desktop, order, leased, releases, owed, active, taking, waiting, signal, closed>>
  BY DEF Frame, TakeFrame
<1>2. UNCHANGED wire /\ Untouched BY DEF Frame
<1>3. /\ frames' \in [latest : SUBSET ImageLease, owner : SUBSET ImageLease,
                      windows : SUBSET ImageLease]
      /\ frames'.latest = {} /\ frames'.windows = frames.windows
  BY <1>1, ConsumerType
<1>4. held' \subseteq AnyLease /\ IsFiniteSet(held')
  BY <1>1, ConsumerType, FS_Union DEF AnyLease
<1>5. ConsumerShape'
  BY <1>1, <1>3, <1>4, ConsumerType, FS_EmptySet DEF ConsumerShape, DesktopShape
<1>6. LatestAlone' BY <1>3 DEF LatestAlone
<1>7. Live' = Live BY <1>1, <1>3, LiveIs
<1>8. Released({}) BY <1>1, ReleasedNone
<1> QED BY <1>2, <1>5, <1>6, <1>7, <1>8, OwnersStep

LEMMA WindowsStep == ASSUME FramesInv, Windows PROVE FramesStep
<1>1. /\ frames' = [frames EXCEPT !.windows = {}] /\ held' = held \union frames.windows
      /\ UNCHANGED <<desktop, order, leased, releases, owed, active, taking, waiting, signal, closed>>
  BY DEF Windows, TakeDrawables
<1>2. UNCHANGED wire /\ Untouched BY DEF Windows
<1>3. /\ frames' \in [latest : SUBSET ImageLease, owner : SUBSET ImageLease,
                      windows : SUBSET ImageLease]
      /\ frames'.windows = {} /\ frames'.latest = frames.latest
  BY <1>1, ConsumerType
<1>4. held' \subseteq AnyLease /\ IsFiniteSet(held')
  BY <1>1, ConsumerType, FS_Union DEF AnyLease
<1>5. ConsumerShape'
  BY <1>1, <1>3, <1>4, ConsumerType, FS_EmptySet DEF ConsumerShape, DesktopShape
<1>6. LatestAlone' BY <1>1, <1>3, ConsumerType DEF LatestAlone
<1>7. Live' = Live BY <1>1, <1>3, LiveIs
<1>8. Released({}) BY <1>1, ReleasedNone
<1> QED BY <1>2, <1>5, <1>6, <1>7, <1>8, OwnersStep

LEMMA CpuFrameStep == ASSUME FramesInv, CpuFrame PROVE FramesStep
<1>1. /\ desktop' = [desktop EXCEPT !.anchor = 0]
      /\ UNCHANGED <<order, leased, releases, frames, held, owed, active, taking, waiting, signal,
                     closed>>
  BY DEF CpuFrame, AcceptCpuFrame
<1>2. UNCHANGED wire /\ Untouched BY DEF CpuFrame
<1>3. /\ DesktopShape' /\ desktop'.resources = desktop.resources
      /\ desktop'.pending = desktop.pending
  BY <1>1, ConsumerType DEF DesktopShape
<1>4. ConsumerShape' /\ LatestAlone' BY <1>1, <1>3, ConsumerType DEF ConsumerShape, LatestAlone
<1>5. Live' = Live BY <1>1, <1>3, LiveIs
<1>6. Released({}) BY <1>1, ReleasedNone
<1> QED BY <1>2, <1>4, <1>5, <1>6, OwnersStep

(* Leases end.                                                               *)
LEMMA DropStep == ASSUME FramesInv, Drop PROVE FramesStep
<1>1. PICK l \in held : held' = held \ {l} /\ ReleaseAll(Live \ Owners(desktop, frames, held'))
                        /\ UNCHANGED <<desktop, order, leased, frames, owed, active, taking, waiting,
                                       signal>>
  BY DEF Drop, DropLease
<1>2. UNCHANGED wire /\ Untouched BY DEF Drop
<1>3. Owners(desktop, frames, held') = Live' BY <1>1 DEF Live, Owners
<1>4. Live' \subseteq Live BY <1>1, LiveIs
<1> DEFINE S == Live \ Live'
<1>5. S \subseteq AnyLease /\ IsFiniteSet(S) /\ \A x \in S : Token(x) \in Granted
  BY LiveType, FS_Subset
<1>6. Released(S) /\ closed' \in BOOLEAN BY <1>1, <1>3, <1>5, ReleasedAll
<1>7. held' \subseteq AnyLease /\ IsFiniteSet(held') BY <1>1, ConsumerType, FS_Subset
<1>8. ConsumerShape' BY <1>1, <1>6, <1>7, ConsumerType DEF ConsumerShape, DesktopShape
<1>9. LatestAlone' BY <1>1, ConsumerType DEF LatestAlone
<1> HIDE DEF S
<1>10. S \subseteq Live \ Live' BY DEF S
<1> QED BY <1>2, <1>4, <1>6, <1>8, <1>9, <1>10, OwnersStep

LEMMA FinishStep == ASSUME FramesInv, Finish PROVE FramesStep
<1>1. PICK t \in taking :
        /\ IF t.returned
             THEN /\ active' = FALSE
                  /\ frames' = [frames EXCEPT !.latest = {}, !.windows = {}]
                  /\ ReleaseAll(Live \ Owners(desktop, frames', held))
             ELSE UNCHANGED <<active, frames, releases, closed>>
        /\ taking' = {} /\ signal' = (signal \/ ~t.failed)
        /\ UNCHANGED <<desktop, order, leased, held, owed, waiting>>
  BY DEF Finish, FinishUpdate
<1>2. UNCHANGED wire /\ Untouched BY DEF Finish
<1>3. t.returned \in BOOLEAN BY ConsumerType
<1>4. CASE t.returned
  <2>1. /\ active' = FALSE /\ frames' = [frames EXCEPT !.latest = {}, !.windows = {}]
        /\ ReleaseAll(Live \ Owners(desktop, frames', held))
    BY <1>1, <1>4
  <2>2. Owners(desktop, frames', held) = Live' BY <1>1 DEF Live, Owners
  <2>3. /\ frames' \in [latest : SUBSET ImageLease, owner : SUBSET ImageLease,
                        windows : SUBSET ImageLease]
        /\ frames'.latest = {} /\ frames'.windows = {}
    BY <2>1, ConsumerType
  <2>4. Live' \subseteq Live BY <1>1, <2>3, LiveIs
  <2> DEFINE S == Live \ Live'
  <2>5. S \subseteq AnyLease /\ IsFiniteSet(S) /\ \A x \in S : Token(x) \in Granted
    BY LiveType, FS_Subset
  <2>6. Released(S) /\ closed' \in BOOLEAN BY <2>1, <2>2, <2>5, ReleasedAll
  <2>7. ConsumerShape'
    BY <1>1, <2>1, <2>3, <2>6, ConsumerType, FS_EmptySet DEF ConsumerShape, DesktopShape
  <2>8. LatestAlone' BY <2>3 DEF LatestAlone
  <2> HIDE DEF S
  <2>9. S \subseteq Live \ Live' BY DEF S
  <2> QED BY <1>2, <2>4, <2>6, <2>7, <2>8, <2>9, OwnersStep
<1>5. CASE ~t.returned
  <2>1. UNCHANGED <<active, frames, releases, closed>> BY <1>1, <1>5
  <2>2. ConsumerShape' /\ LatestAlone'
    BY <1>1, <2>1, ConsumerType DEF ConsumerShape, DesktopShape, LatestAlone
  <2>3. Live' = Live BY <1>1, <2>1, LiveSame
  <2>4. Released({}) BY <2>1, ReleasedNone
  <2> QED BY <1>2, <2>2, <2>3, <2>4, OwnersStep
<1> QED BY <1>3, <1>4, <1>5

(* A readback is answered: a message that bears no buffer.                   *)
LEMMA AnswerStep == ASSUME FramesInv, Answer PROVE FramesStep
<1>1. PICK id \in owed, ok \in BOOLEAN :
        /\ owed' = owed \ {id}
        /\ Enqueue(<<[kind |-> "reply", epoch |-> id[1], sequence |-> id[2], ok |-> ok]>>)
        /\ UNCHANGED <<desktop, order, leased, frames, held, active, taking, waiting, signal>>
  BY DEF Answer, AnswerReadback
<1>2. UNCHANGED wire /\ Untouched BY DEF Answer
<1> DEFINE m == [kind |-> "reply", epoch |-> id[1], sequence |-> id[2], ok |-> ok]
<1>3. id[1] \in Nat /\ id[2] \in Nat BY ConsumerType DEF Pair
<1>4. m \in BackMsg /\ ~Bears(m) BY <1>3 DEF BackMsg, ReplyMsg, Bears, Image, CpuKinds
<1> HIDE DEF m
<1>5. closed' \in BOOLEAN /\ (releases' = releases \/ releases' = releases \o <<m>>)
  BY <1>1, ConsumerType, EnqueueIs DEF m
<1>6. releases \in Seq(BackMsg) /\ Backed(releases, Granted) /\ \A i \in Buf : Once(releases, i)
  BY DEF FramesInv, WireShape, Custody, Ownership, Alone
<1>7. releases \o <<m>> = Append(releases, m) BY <1>4, <1>6
<1>8. Released({})
  <2>1. CASE releases' = releases BY <2>1, ReleasedNone
  <2>2. CASE releases' = Append(releases, m)
    <3>1. Append(releases, m) \in Seq(BackMsg) BY <1>4, <1>6, AppendOf
    <3>2. Backed(Append(releases, m), Granted) BY <1>4, <1>6, BackedAppend
    <3>3. \A i : Has(Append(releases, m), i) => Has(releases, i)
      BY <1>4, <1>6, HasAppend DEF About
    <3>4. \A i \in Buf : Once(Append(releases, m), i) BY <1>4, <1>6, HasAppend DEF About
    <3> QED BY <2>2, <3>1, <3>2, <3>3, <3>4 DEF Released
  <2> QED BY <1>5, <1>7, <2>1, <2>2
<1>9. ConsumerShape' /\ LatestAlone'
  BY <1>1, <1>5, ConsumerType DEF ConsumerShape, DesktopShape, LatestAlone
<1>10. Live' = Live BY <1>1, LiveSame
<1> QED BY <1>2, <1>8, <1>9, <1>10, OwnersStep

(* The writer sends what was released.                                       *)
LEMMA WriteStep == ASSUME FramesInv, Write PROVE FramesStep
<1> DEFINE m == Head(releases)
<1>1. /\ releases # <<>> /\ releases' = Tail(releases) /\ back' = Append(back, m)
      /\ leased' \subseteq leased
      /\ UNCHANGED <<desktop, order, frames, held, owed, active, taking, waiting, signal, closed>>
      /\ UNCHANGED <<separate, unix, mach>> /\ Untouched
  BY DEF Write, WriterTake
<1>2. WireShape /\ Bounded /\ Ownership BY DEF FramesInv, Custody
<1>3. releases \in Seq(BackMsg) /\ back \in Seq(BackMsg) BY <1>2 DEF WireShape
<1>4. m \in BackMsg /\ Tail(releases) \in Seq(BackMsg) BY <1>1, <1>3, TailOf
<1>5. /\ \A i : About(m, i) => Has(releases, i)
      /\ \A i : Has(Tail(releases), i) => Has(releases, i)
      /\ \A i : Once(releases, i) => Once(Tail(releases), i)
      /\ \A i : Once(releases, i) /\ About(m, i) => ~Has(Tail(releases), i)
  BY <1>1, <1>3, HasTail
<1>6. Backed(Tail(releases), Granted) /\ (Bears(m) => Token(Of(m)) \in Granted)
  BY <1>1, <1>2, <1>3, BackedTail DEF Ownership
<1> HIDE DEF m
<1>7. Append(back, m) \in Seq(BackMsg) BY <1>3, <1>4, AppendOf
<1>8. WireShape' BY <1>1, <1>2, <1>4, <1>7 DEF WireShape
<1>9. ConsumerShape' /\ LatestAlone'
  BY <1>1, ConsumerType DEF ConsumerShape, DesktopShape, LatestAlone
<1>10. Live' = Live BY <1>1, LiveSame
<1>11. Backed(Append(back, m), Granted) BY <1>2, <1>3, <1>4, <1>6, BackedAppend DEF Ownership
<1>12. ASSUME NEW i \in Buf
       PROVE  /\ Has(unix, i)' <=> Has(unix, i)
              /\ Has(mach, i)' <=> Has(mach, i)
              /\ Leased(i)' <=> Leased(i)
              /\ Has(releases, i)' => Has(releases, i)
              /\ Has(back, i)' => Has(back, i) \/ Has(releases, i)
              /\ Separate(i)'
  <2>1. /\ Has(unix, i)' <=> Has(unix, i)
        /\ Has(mach, i)' <=> Has(mach, i)
        /\ Once(unix, i)' <=> Once(unix, i)
        /\ Once(mach, i)' <=> Once(mach, i)
    BY <1>1 DEF Has, Once
  <2>2. Leased(i)' <=> Leased(i) BY <1>10 DEF Leased
  <2>3. /\ Has(releases, i)' <=> Has(Tail(releases), i)
        /\ Once(releases, i)' <=> Once(Tail(releases), i)
        /\ Has(back, i)' <=> Has(Append(back, m), i)
        /\ Once(back, i)' <=> Once(Append(back, m), i)
    BY <1>1 DEF Has, Once
  <2>4. /\ Has(Append(back, m), i) <=> Has(back, i) \/ About(m, i)
        /\ Once(back, i) /\ ~(Has(back, i) /\ About(m, i)) => Once(Append(back, m), i)
    BY <1>3, <1>4, HasAppend
  <2>5. Separate(i) BY SeparateNow
  <2> QED BY <1>5, <2>1, <2>2, <2>3, <2>4, <2>5 DEF Separate
<1>13. ChannelsFlow BY <1>12 DEF ChannelsFlow
<1>14. /\ separate => \A k \in DOMAIN unix' : unix'[k].kind \notin Image
       /\ ~separate => mach' = <<>>
  BY <1>1, <1>2 DEF Bounded
<1>15. \A l \in Live' : Token(l) \in Granted BY <1>10, LiveType
<1>16. /\ Backed(unix', Granted) /\ Backed(mach', Granted) /\ Backed(releases', Granted)
       /\ Backed(back', Granted)
  BY <1>1, <1>2, <1>6, <1>11 DEF Ownership
<1> QED BY <1>1, <1>8, <1>9, <1>12, <1>13, <1>14, <1>15, <1>16, SdkDone


-----------------------------------------------------------------------------
(* Messages reach the SDK.                                                   *)

Takes(m) ==
    \/ unix # <<>> /\ m = Head(unix) /\ unix' = Tail(unix) /\ mach' = mach
    \/ mach # <<>> /\ m = Head(mach) /\ mach' = Tail(mach) /\ unix' = unix

(* It becomes the leases N, and the leases S end.                            *)
LEMMA TakenStep ==
    ASSUME FramesInv, Untouched, UNCHANGED <<separate, back>>, NEW m, Takes(m),
           ConsumerShape', LatestAlone',
           NEW N, N \subseteq AnyLease, \A l \in N : Bears(m) /\ Token(l) = Token(Of(m)),
           Live' \subseteq Live \union N,
           NEW S, S \subseteq (Live \union N) \ Live', Released(S)
    PROVE  FramesStep
<1>1. separate' = separate /\ back' = back OBVIOUS
<1>2. WireShape /\ Bounded /\ Ownership BY DEF FramesInv, Custody
<1>3. unix \in Seq(ImageMsg \union Op) /\ mach \in Seq(ImageMsg) BY <1>2 DEF WireShape
<1> DEFINE Facts ==
      /\ unix' \in Seq(ImageMsg \union Op) /\ mach' \in Seq(ImageMsg)
      /\ Backed(unix', Granted) /\ Backed(mach', Granted) /\ (Bears(m) => Token(Of(m)) \in Granted)
      /\ separate => \A k \in DOMAIN unix' : unix'[k].kind \notin Image
      /\ ~separate => mach' = <<>>
      /\ \A i : /\ About(m, i) => Has(unix, i) \/ Has(mach, i)
                /\ Has(unix', i) => Has(unix, i)
                /\ Has(mach', i) => Has(mach, i)
                /\ Once(unix, i) => Once(unix', i)
                /\ Once(mach, i) => Once(mach', i)
                /\ About(m, i) /\ Once(unix, i) /\ Once(mach, i) /\ ~(Has(unix, i) /\ Has(mach, i))
                     => ~Has(unix', i) /\ ~Has(mach', i)
<1>4. Facts
  <2>1. CASE unix # <<>> /\ m = Head(unix) /\ unix' = Tail(unix) /\ mach' = mach
    <3>1. Tail(unix) \in Seq(ImageMsg \union Op) BY <1>3, <2>1, TailOf
    <3>2. \A k \in DOMAIN Tail(unix) : k + 1 \in DOMAIN unix /\ Tail(unix)[k] = unix[k + 1]
      BY <1>3, <2>1, TailOf
    <3>3. Backed(Tail(unix), Granted) /\ (Bears(m) => Token(Of(m)) \in Granted)
      BY <1>2, <1>3, <2>1, BackedTail DEF Ownership
    <3>4. \A i : /\ Has(Tail(unix), i) => Has(unix, i)
                 /\ Once(unix, i) => Once(Tail(unix), i)
                 /\ Once(unix, i) /\ About(m, i) => ~Has(Tail(unix), i)
                 /\ About(m, i) => Has(unix, i)
      BY <1>3, <2>1, HasTail
    <3>5. separate => \A k \in DOMAIN Tail(unix) : Tail(unix)[k].kind \notin Image
      BY <1>2, <3>2 DEF Bounded
    <3>6. Backed(mach, Granted) /\ (~separate => mach = <<>>) BY <1>2 DEF Ownership, Bounded
    <3> QED BY <1>3, <2>1, <3>1, <3>3, <3>4, <3>5, <3>6
  <2>2. CASE mach # <<>> /\ m = Head(mach) /\ mach' = Tail(mach) /\ unix' = unix
    <3>1. Tail(mach) \in Seq(ImageMsg) BY <1>3, <2>2, TailOf
    <3>2. Backed(Tail(mach), Granted) /\ (Bears(m) => Token(Of(m)) \in Granted)
      BY <1>2, <1>3, <2>2, BackedTail DEF Ownership
    <3>3. \A i : /\ Has(Tail(mach), i) => Has(mach, i)
                 /\ Once(mach, i) => Once(Tail(mach), i)
                 /\ Once(mach, i) /\ About(m, i) => ~Has(Tail(mach), i)
                 /\ About(m, i) => Has(mach, i)
      BY <1>3, <2>2, HasTail
    <3>4. separate BY <1>2, <2>2 DEF Bounded
    <3>5. Backed(unix, Granted) /\ \A k \in DOMAIN unix : unix[k].kind \notin Image
      BY <1>2, <3>4 DEF Ownership, Bounded
    <3> QED BY <1>3, <2>2, <3>1, <3>2, <3>3, <3>4, <3>5
  <2> QED BY <2>1, <2>2 DEF Takes
<1>5. Live \subseteq AnyLease /\ \A l \in Live : Token(l) \in Granted BY LiveType
<1>6. \A l \in N : Token(l) \in Granted /\ About(m, l.index)
  <2> TAKE l \in N
  <2>1. Bears(m) /\ Token(l) = Token(Of(m)) OBVIOUS
  <2>2. l.index = Of(m).index BY <2>1 DEF Token
  <2> QED BY <1>4, <2>1, <2>2 DEF About
<1>7. WireShape' BY <1>1, <1>2, <1>4 DEF WireShape, Released
<1>8. ASSUME NEW i \in Buf
      PROVE  /\ Has(unix, i)' => Has(unix, i)
             /\ Has(mach, i)' => Has(mach, i)
             /\ Has(back, i)' => Has(back, i)
             /\ Leased(i)' => Leased(i) \/ Has(unix, i) \/ Has(mach, i)
             /\ Has(releases, i)' => Has(releases, i) \/ Leased(i) \/ Has(unix, i) \/ Has(mach, i)
             /\ Separate(i)'
  <2>0. Separate(i) BY SeparateNow
  <2>1. /\ Has(unix, i)' <=> Has(unix', i)
        /\ Has(mach, i)' <=> Has(mach', i)
        /\ Has(back, i)' <=> Has(back, i)
        /\ Has(releases, i)' <=> Has(releases', i)
    BY <1>1 DEF Has
  <2>2. /\ Once(unix, i)' <=> Once(unix', i)
        /\ Once(mach, i)' <=> Once(mach', i)
        /\ Once(back, i)' <=> Once(back, i)
        /\ Once(releases, i)' <=> Once(releases', i)
    BY <1>1 DEF Once
  <2>3. Leased(i)' <=> \E l \in Live' : l.index = i BY DEF Leased
  <2>4. \A l \in N : l.index = i => About(m, i) BY <1>6
  <2>5. Leased(i)' => Leased(i) \/ About(m, i) BY <2>3, <2>4 DEF Leased
  <2>6. (\E l \in S : l.index = i) => (Leased(i) \/ About(m, i)) /\ ~Leased(i)'
    <3> SUFFICES ASSUME NEW l \in S, l.index = i
                 PROVE  (Leased(i) \/ About(m, i)) /\ ~Leased(i)'
      OBVIOUS
    <3>1. Leased(i) \/ About(m, i) BY <2>4 DEF Leased
    <3>2. ASSUME NEW k \in Live', k.index = i PROVE FALSE
      <4>1. l \in Live \union N /\ k \in Live \union N /\ l # k BY <3>2
      <4>2. /\ l \in AnyLease /\ k \in AnyLease
            /\ Token(l) \in Granted /\ Token(k) \in Granted /\ l.index = k.index
        BY <1>5, <1>6, <3>2, <4>1
      <4> QED BY <4>1, <4>2, LeaseByIndex
    <3> QED BY <2>3, <3>1, <3>2
  <2>7. Has(releases', i) => Has(releases, i) \/ \E l \in S : l.index = i BY DEF Released
  <2>8. About(m, i) => Has(unix, i) \/ Has(mach, i) BY <1>4
  <2>9. About(m, i) => ~Has(unix', i) /\ ~Has(mach', i) BY <1>4, <2>0 DEF Separate
  <2>10. (\E l \in S : l.index = i) => ~Has(releases, i)
    BY <2>0, <2>6, <2>8 DEF Separate
  <2>11. Once(releases', i) BY <2>10 DEF Released
  <2>12. /\ Has(unix', i) => Has(unix, i)
         /\ Has(mach', i) => Has(mach, i)
         /\ Once(unix, i) => Once(unix', i)
         /\ Once(mach, i) => Once(mach', i)
    BY <1>4
  <2>13. Separate(i)'
    BY <2>0, <2>1, <2>2, <2>5, <2>6, <2>7, <2>8, <2>9, <2>11, <2>12 DEF Separate
  <2> QED BY <2>1, <2>5, <2>6, <2>7, <2>8, <2>12, <2>13
<1>9. ChannelsFlow BY <1>8 DEF ChannelsFlow
<1>10. Backed(releases', Granted) /\ Backed(back', Granted) BY <1>1, <1>2 DEF Ownership, Released
<1>11. \A l \in Live' : Token(l) \in Granted BY <1>5, <1>6
<1>12. \A i \in Buf : Separate(i)' BY <1>8
<1> QED BY <1>1, <1>4, <1>7, <1>9, <1>10, <1>11, <1>12, SdkDone

(* The identity of a buffer the device keeps is in range.                    *)
LEMMA GrantedIn ==
    ASSUME FramesInv, NEW t \in Granted
    PROVE  t[1] \in Buf /\ t[2] \in 1..(MaxEpoch + MaxOps)
<1>1. /\ slots \in [Index -> Slot] /\ \A i \in Index : SlotSound(i)
      /\ \A c \in CPU : cpu[c].published => cpu[c].epoch \in 1..MaxOps
  BY DEF FramesInv, ProducerShape, SlotsSound, Bounded
<1>2. t[1] \in Buf BY DEF Granted
<1>3. MaxEpoch \in Nat /\ MaxOps \in Nat BY PublicationLimits, FramesAssumption
<1>4. CASE t[1] \in CPU
  <2>1. t[2] \in 1..MaxOps BY <1>1, <1>4 DEF Granted
  <2> QED BY <1>2, <1>3, <2>1
<1>5. CASE t[1] \notin CPU
  <2>1. t[1] \in Index BY <1>2, <1>5 DEF Buf
  <2>2. slots[t[1]].state = "published" /\ slots[t[1]].epoch = t[2] BY <1>5 DEF Granted
  <2>3. slots[t[1]].epoch # 0 /\ slots[t[1]].epoch \in 0..MaxEpoch
    BY <1>1, <2>1, <2>2 DEF SlotSound, Slot
  <2> QED BY <1>2, <1>3, <2>2, <2>3
<1> QED BY <1>4, <1>5

LEMMA ImageLeaseOf ==
    ASSUME NEW m \in ImageMsg
    PROVE  /\ Lease(m) \in ImageLease /\ Bears(m) /\ Of(m) = m /\ Token(Lease(m)) = Token(m)
           /\ m.d \in Drawable /\ m.index \in Index /\ m.epoch \in Nat /\ m.generation \in Nat
           /\ m.kind \in Image
<1>1. /\ m.kind \in Image /\ m.d \in Drawable /\ m.index \in Index /\ m.epoch \in Nat
      /\ m.generation \in Nat /\ m.d = m.index[1]
  BY DEF ImageMsg
<1>2. m.kind \notin CpuKinds BY <1>1 DEF Image, CpuKinds
<1>3. Lease(m) \in ImageLease BY <1>1 DEF Lease, ImageLease
<1>4. Bears(m) /\ Of(m) = m BY <1>1, <1>2 DEF Bears, Of
<1>5. Token(Lease(m)) = Token(m) BY DEF Token, Lease
<1> QED BY <1>1, <1>3, <1>4, <1>5

DesktopRecord ==
    [resources : SUBSET ImageLease, pending : Seq(Op), wire_epoch : Nat, revision : Nat,
     epoch : Nat, sequence : Nat, next_epoch : Nat, anchor : Nat,
     dropped : [Drawable -> Pair], received : [Drawable -> Pair]]

LEMMA DesktopIn == DesktopShape <=> desktop \in DesktopRecord
BY DEF DesktopShape, DesktopRecord

LEMMA ReceivedType ==
    ASSUME NEW D \in DesktopRecord, NEW m \in ImageMsg
    PROVE  /\ ReceivedBy(D, m) \in DesktopRecord
           /\ ReceivedBy(D, m).resources = D.resources /\ ReceivedBy(D, m).pending = D.pending
           /\ ReceivedBy(D, m).dropped[m.d] =
                 IF D.dropped[m.d] # Zero /\ D.dropped[m.d] \preceq Id(m) THEN Zero
                 ELSE D.dropped[m.d]
           /\ ReceivedBy(D, m).received[m.d] \in {Zero, D.received[m.d], Id(m)}
           /\ \A d \in Drawable : d # m.d =>
                 /\ ReceivedBy(D, m).dropped[d] = D.dropped[d]
                 /\ ReceivedBy(D, m).received[d] = D.received[d]
<1> DEFINE clear == D.dropped[m.d] # Zero /\ D.dropped[m.d] \preceq Id(m)
           x == IF clear THEN Zero ELSE D.dropped[m.d]
           y == IF ~Retired(D, m) THEN Id(m) ELSE IF clear THEN Zero ELSE D.received[m.d]
<1>1. m.d \in Drawable /\ Id(m) \in Pair BY ImageLeaseOf DEF Id, Pair
<1>2. /\ D.dropped \in [Drawable -> Pair] /\ D.received \in [Drawable -> Pair]
      /\ Zero \in Pair
  BY DEF DesktopRecord, Zero, Pair
<1> HIDE DEF clear
<1>3. x \in Pair /\ y \in Pair BY <1>1, <1>2
<1> HIDE DEF x, y
<1>4. ReceivedBy(D, m) = [D EXCEPT !.dropped = [@ EXCEPT ![m.d] = x],
                                   !.received = [@ EXCEPT ![m.d] = y]]
  BY DEF ReceivedBy, x, y, clear
<1> DEFINE f == [D.dropped EXCEPT ![m.d] = x]
           g == [D.received EXCEPT ![m.d] = y]
<1>5. /\ f \in [Drawable -> Pair] /\ g \in [Drawable -> Pair] /\ f[m.d] = x /\ g[m.d] = y
      /\ \A d \in Drawable : d # m.d => f[d] = D.dropped[d] /\ g[d] = D.received[d]
  BY <1>1, <1>2, <1>3
<1>6. ReceivedBy(D, m) = [D EXCEPT !.dropped = f, !.received = g] BY <1>4
<1> HIDE DEF f, g
<1>7. /\ ReceivedBy(D, m) \in DesktopRecord /\ ReceivedBy(D, m).resources = D.resources
      /\ ReceivedBy(D, m).pending = D.pending /\ ReceivedBy(D, m).dropped = f
      /\ ReceivedBy(D, m).received = g
  BY <1>5, <1>6 DEF DesktopRecord
<1> QED BY <1>5, <1>7 DEF x, y, clear

LEMMA TakenHead ==
    ASSUME FramesInv, NEW m, Takes(m)
    PROVE  /\ m \in ImageMsg \union Op
           /\ Bears(m) => Token(Of(m)) \in Granted
           /\ Bears(m) /\ Of(m).index \in Buf => \A l \in Live : l.index # Of(m).index
<1>1. /\ unix \in Seq(ImageMsg \union Op) /\ mach \in Seq(ImageMsg)
      /\ Backed(unix, Granted) /\ Backed(mach, Granted)
  BY DEF FramesInv, WireShape, Custody, Ownership
<1>2. CASE unix # <<>> /\ m = Head(unix)
  <2>1. m \in ImageMsg \union Op BY <1>1, <1>2, TailOf
  <2>2. Bears(m) => Token(Of(m)) \in Granted BY <1>1, <1>2, BackedTail
  <2>3. \A i : About(m, i) => Has(unix, i) BY <1>1, <1>2, HasTail
  <2>4. \A i \in Buf : Has(unix, i) => ~Leased(i) BY SeparateNow DEF Separate
  <2> QED BY <2>1, <2>2, <2>3, <2>4 DEF Leased, About
<1>3. CASE mach # <<>> /\ m = Head(mach)
  <2>1. m \in ImageMsg BY <1>1, <1>3, TailOf
  <2>2. Bears(m) => Token(Of(m)) \in Granted BY <1>1, <1>3, BackedTail
  <2>3. \A i : About(m, i) => Has(mach, i) BY <1>1, <1>3, HasTail
  <2>4. \A i \in Buf : Has(mach, i) => ~Leased(i) BY SeparateNow DEF Separate
  <2> QED BY <2>1, <2>2, <2>3, <2>4 DEF Leased, About
<1> QED BY <1>2, <1>3 DEF Takes

(* A refused record ends the connection and lets go of nothing.              *)
LEMMA RefuseStep ==
    ASSUME FramesInv, Untouched, UNCHANGED <<separate, back>>, NEW m, Takes(m),
           NEW reason, Refuse(reason)
    PROVE  FramesStep
<1>1. /\ closed' = TRUE /\ signal' = TRUE
      /\ UNCHANGED <<desktop, order, leased, releases, frames, held, owed, active, taking, waiting>>
  BY DEF Refuse
<1>2. ConsumerShape' /\ LatestAlone'
  BY <1>1, ConsumerType DEF ConsumerShape, DesktopShape, LatestAlone
<1>3. Live' = Live BY <1>1, LiveSame
<1>4. Released({}) BY <1>1, ReleasedNone
<1> QED BY <1>2, <1>3, <1>4, TakenStep

LEMMA ReceiveImageStep ==
    ASSUME FramesInv, Untouched, UNCHANGED <<separate, back>>, NEW m \in ImageMsg, Takes(m),
           ReceiveImage(m)
    PROVE  FramesStep
<1> DEFINE l == Lease(m)
           N == {l}
<1>1. CASE ImageFault(m) # {}
  <2>1. PICK reason \in ImageFault(m) : Refuse(reason) BY <1>1 DEF ReceiveImage
  <2> QED BY <2>1, RefuseStep
<1>2. CASE ImageFault(m) = {}
  <2>1. /\ leased' = leased \union {<<m.epoch, m.index>>}
        /\ order' = [epoch |-> m.epoch,
                     generations |-> [d \in Drawable |->
                        IF d = m.d THEN m.generation
                        ELSE IF m.epoch # order.epoch THEN 0 ELSE order.generations[d]]]
        /\ IF Retired(desktop, m)
             THEN /\ desktop' = ReceivedBy(desktop, m) /\ ReleaseAll({l})
                  /\ UNCHANGED <<frames, active>>
             ELSE KeepImage(m, l)
        /\ UNCHANGED <<held, owed, taking, waiting, signal>>
    BY <1>2 DEF ReceiveImage
  <2>2. /\ l \in ImageLease /\ l \in AnyLease /\ Bears(m) /\ Of(m) = m /\ Token(l) = Token(m)
        /\ m.d \in Drawable /\ m.index \in Index /\ m.epoch \in Nat /\ m.generation \in Nat
        /\ m.kind \in Image
    BY ImageLeaseOf DEF AnyLease
  <2>3. Token(m) \in Granted /\ m.index \in Buf /\ m.epoch \in 1..(MaxEpoch + MaxOps)
    <3>1. Token(m) \in Granted BY <2>2, TakenHead
    <3>2. Token(m)[1] = m.index /\ Token(m)[2] = m.epoch BY DEF Token
    <3> QED BY <3>1, <3>2, GrantedIn
  <2>4. l \notin Live
    <3>1. l.index = Of(m).index BY <2>2 DEF Lease
    <3> QED BY <2>2, <2>3, <3>1, TakenHead
  <2>5. leased' \subseteq (1..(MaxEpoch + MaxOps)) \X Buf BY <2>1, <2>3, ConsumerType
  <2>6. order' \in [epoch : Nat, generations : [Drawable -> Nat]] BY <2>1, <2>2, ConsumerType
  <2>7. /\ desktop \in DesktopRecord /\ ReceivedBy(desktop, m) \in DesktopRecord
        /\ ReceivedBy(desktop, m).resources = desktop.resources
        /\ ReceivedBy(desktop, m).pending = desktop.pending
    BY DesktopIn, ConsumerType, ReceivedType
  <2> HIDE DEF l
  <2>8. N \subseteq AnyLease /\ IsFiniteSet(N) /\ \A x \in N : Bears(m) /\ Token(x) = Token(Of(m))
    BY <2>2, FS_Singleton
  <2>9. \A x \in N : Token(x) \in Granted BY <2>2, <2>3
  <2>10. active \in BOOLEAN /\ closed \in BOOLEAN BY ConsumerType
  <2>11. CASE Retired(desktop, m)
    <3>1. /\ desktop' = ReceivedBy(desktop, m) /\ ReleaseAll(N) /\ UNCHANGED <<frames, active>>
      BY <2>1, <2>11
    <3>2. Released(N) /\ closed' \in BOOLEAN BY <2>8, <2>9, <3>1, ReleasedAll
    <3>3. DesktopShape' BY <2>7, <3>1 DEF DesktopShape, DesktopRecord
    <3>4. ConsumerShape' /\ LatestAlone'
      BY <2>1, <2>5, <2>6, <2>7, <3>1, <3>2, <3>3, ConsumerType DEF ConsumerShape, LatestAlone
    <3>5. Live' = Live BY <2>1, <2>7, <3>1, LiveIs
    <3>6. N \subseteq (Live \union N) \ Live' BY <2>4, <3>5
    <3>7. Live' \subseteq Live \union N BY <3>5
    <3> HIDE DEF N
    <3> QED BY <2>8, <3>2, <3>4, <3>6, <3>7, TakenStep
  <2>12. CASE ~Retired(desktop, m) /\ m.kind = "frame"
    <3>1. /\ frames' = [frames EXCEPT !.latest = {l}, !.owner = {l}] /\ active' = TRUE
          /\ desktop' = ReceivedBy(desktop, m) /\ ReleaseAll(frames.latest)
      BY <2>1, <2>12 DEF KeepImage
    <3> DEFINE S == frames.latest
    <3>2. S \subseteq Live /\ IsFiniteSet(S) BY LiveIs, ConsumerType
    <3>3. S \subseteq AnyLease /\ \A x \in S : Token(x) \in Granted BY <3>2, LiveType
    <3>4. Released(S) /\ closed' \in BOOLEAN BY <3>1, <3>2, <3>3, ReleasedAll
    <3>5. DesktopShape' BY <2>7, <3>1 DEF DesktopShape, DesktopRecord
    <3>6. /\ frames' \in [latest : SUBSET ImageLease, owner : SUBSET ImageLease,
                          windows : SUBSET ImageLease]
          /\ frames'.latest = N /\ frames'.windows = frames.windows
      BY <2>2, <3>1, ConsumerType
    <3>7. ConsumerShape'
      BY <2>1, <2>5, <2>6, <2>7, <2>8, <3>1, <3>4, <3>5, <3>6, ConsumerType DEF ConsumerShape
    <3>8. LatestAlone' BY <2>1, <2>4, <2>7, <3>1, <3>6, LiveIs DEF LatestAlone
    <3>9. Live' = desktop.resources \union N \union frames.windows \union held
                    \union PendingLeases(desktop.pending)
      BY <2>1, <2>7, <3>1, <3>6, LiveIs
    <3>10. Live' \subseteq Live \union N BY <3>9, LiveIs
    <3>11. S \subseteq (Live \union N) \ Live'
      <4>1. S \cap (desktop.resources \union frames.windows \union held
                      \union PendingLeases(desktop.pending)) = {}
        BY ConsumerType DEF LatestAlone
      <4>2. l \notin S BY <2>4, <3>2
      <4> QED BY <3>2, <3>9, <4>1, <4>2
    <3> HIDE DEF N, S
    <3> QED BY <2>8, <3>4, <3>7, <3>8, <3>10, <3>11, TakenStep
  <2>13. CASE ~Retired(desktop, m) /\ m.kind = "retained"
    <3>1. /\ desktop' = [ReceivedBy(desktop, m) EXCEPT !.resources = @ \union {l}]
          /\ UNCHANGED <<frames, active, releases, closed>>
      BY <2>1, <2>13 DEF KeepImage
    <3>2. /\ desktop' \in DesktopRecord /\ desktop'.resources = desktop.resources \union {l}
          /\ desktop'.pending = desktop.pending
      BY <2>2, <2>7, <3>1 DEF DesktopRecord
    <3>3. DesktopShape' BY <3>2 DEF DesktopShape, DesktopRecord
    <3>4. IsFiniteSet(desktop'.resources)
      <4> DEFINE R == desktop.resources
      <4>1. IsFiniteSet(R) BY ConsumerType
      <4> HIDE DEF R
      <4>2. IsFiniteSet(R \union {l}) BY <4>1, FS_AddElement
      <4> QED BY <3>2, <4>2 DEF R
    <3>5. ConsumerShape'
      BY <2>1, <2>5, <2>6, <3>1, <3>2, <3>3, <3>4, ConsumerType DEF ConsumerShape
    <3>6. LatestAlone' BY <2>1, <2>4, <3>1, <3>2, ConsumerType, LiveIs DEF LatestAlone
    <3>7. Live' \subseteq Live \union N BY <2>1, <3>1, <3>2, LiveIs
    <3>8. Released({}) BY <3>1, ReleasedNone
    <3> HIDE DEF N
    <3> QED BY <2>8, <3>5, <3>6, <3>7, <3>8, TakenStep
  <2>14. CASE ~Retired(desktop, m) /\ m.kind = "window"
    <3>1. /\ frames' = [frames EXCEPT !.windows = @ \union {l}]
          /\ desktop' = ReceivedBy(desktop, m) /\ UNCHANGED <<active, releases, closed>>
      BY <2>1, <2>14 DEF KeepImage
    <3>2. DesktopShape' BY <2>7, <3>1 DEF DesktopShape, DesktopRecord
    <3>3. /\ frames' \in [latest : SUBSET ImageLease, owner : SUBSET ImageLease,
                          windows : SUBSET ImageLease]
          /\ frames'.latest = frames.latest /\ frames'.windows = frames.windows \union {l}
      BY <2>2, <3>1, ConsumerType
    <3>4. IsFiniteSet(frames'.windows)
      <4> DEFINE R == frames.windows
      <4>1. IsFiniteSet(R) BY ConsumerType
      <4> HIDE DEF R
      <4>2. IsFiniteSet(R \union {l}) BY <4>1, FS_AddElement
      <4> QED BY <3>3, <4>2 DEF R
    <3>5. ConsumerShape'
      BY <2>1, <2>5, <2>6, <2>7, <3>1, <3>2, <3>3, <3>4, ConsumerType DEF ConsumerShape
    <3>6. LatestAlone' BY <2>1, <2>4, <2>7, <3>1, <3>3, ConsumerType, LiveIs DEF LatestAlone
    <3>7. Live' \subseteq Live \union N BY <2>1, <2>7, <3>1, <3>3, LiveIs
    <3>8. Released({}) BY <3>1, ReleasedNone
    <3> HIDE DEF N
    <3> QED BY <2>8, <3>5, <3>6, <3>7, <3>8, TakenStep
  <2> QED BY <2>2, <2>11, <2>12, <2>13, <2>14 DEF Image
<1> QED BY <1>1, <1>2

LEMMA MachStep == ASSUME FramesInv, MachReceive PROVE FramesStep
<1>1. /\ mach # <<>> /\ mach' = Tail(mach) /\ ReceiveImage(Head(mach))
      /\ UNCHANGED <<separate, unix, back>> /\ Untouched
  BY DEF MachReceive
<1>2. Takes(Head(mach)) BY <1>1 DEF Takes
<1>3. mach \in Seq(ImageMsg) BY DEF FramesInv, WireShape
<1>4. Head(mach) \in ImageMsg BY <1>1, <1>3, TailOf
<1> QED BY <1>1, <1>2, <1>4, ReceiveImageStep

(* An ordered record joins the queue of the presentation thread.             *)
LEMMA PushedIs ==
    ASSUME desktop \in DesktopRecord, NEW op \in Op
    PROVE  /\ Pushed(op) \in DesktopRecord /\ Pushed(op).resources = desktop.resources
           /\ Pushed(op).dropped = desktop.dropped /\ Pushed(op).received = desktop.received
           /\ \E e \in Op : /\ e.kind = op.kind /\ e.lease = op.lease
                            /\ Pushed(op).pending = Append(desktop.pending, e)
<1> DEFINE fresh == op.kind \in {"seed", "reset"}
           host == CASE op.kind = "drop" \/ Detached(op) -> 0
                     [] fresh -> desktop.next_epoch
                     [] OTHER -> desktop.epoch
           rev == IF op.kind \in {"seed", "return", "reset"} THEN desktop.revision + 1
                  ELSE desktop.revision
           seq == IF op.kind = "reset" THEN 1 ELSE op.sequence
           anc == IF op.kind = "readback" THEN <<op.epoch, op.sequence>> ELSE op.anchor
           e == [op EXCEPT !.epoch = host, !.sequence = seq, !.anchor = anc, !.revision = rev]
           ne == IF fresh THEN desktop.next_epoch + 1 ELSE desktop.next_epoch
           ep == IF op.kind = "seed" THEN host ELSE desktop.epoch
           an == IF op.kind = "seed" THEN 0 ELSE desktop.anchor
           we == CASE op.kind = "seed" -> op.epoch
                   [] op.kind = "reset" -> 0
                   [] OTHER -> desktop.wire_epoch
           sq == CASE op.kind = "reset" -> 0
                   [] op.kind = "drop" \/ Detached(op) -> desktop.sequence
                   [] OTHER -> op.sequence
           q == Append(desktop.pending, e)
<1>1. /\ op.epoch \in Nat /\ op.sequence \in Nat /\ op.anchor \in Pair BY OpType
<1>2. /\ desktop.next_epoch \in Nat /\ desktop.epoch \in Nat /\ desktop.revision \in Nat
      /\ desktop.wire_epoch \in Nat /\ desktop.sequence \in Nat /\ desktop.anchor \in Nat
      /\ desktop.pending \in Seq(Op)
  BY DEF DesktopRecord
<1>3. host \in Nat /\ rev \in Nat /\ seq \in Nat /\ ne \in Nat /\ an \in Nat /\ we \in Nat
      /\ sq \in Nat
  BY <1>1, <1>2
<1>4. anc \in Pair /\ ep \in Nat BY <1>1, <1>2, <1>3 DEF Pair
<1>5. Pushed(op) = [desktop EXCEPT
          !.pending = Append(@, [[op EXCEPT !.epoch = host, !.sequence = seq, !.anchor = anc]
                                   EXCEPT !.revision = rev]),
          !.revision = rev, !.next_epoch = ne, !.epoch = ep, !.anchor = an, !.wire_epoch = we,
          !.sequence = sq]
  BY DEF Pushed
<1> HIDE DEF host, rev, seq, anc, ne, ep, an, we, sq, fresh
<1>6. op \in RawOp BY DEF Op
<1>7. e \in RawOp /\ e.kind = op.kind /\ e.lease = op.lease /\ e.d = op.d
  BY <1>3, <1>4, <1>6 DEF RawOp
<1>8. e \in Op BY <1>7 DEF Op
<1>9. [[op EXCEPT !.epoch = host, !.sequence = seq, !.anchor = anc] EXCEPT !.revision = rev] = e
  BY <1>6 DEF RawOp
<1>10. Pushed(op) = [desktop EXCEPT !.pending = q, !.revision = rev, !.next_epoch = ne,
                                    !.epoch = ep, !.anchor = an, !.wire_epoch = we,
                                    !.sequence = sq]
  BY <1>5, <1>9
<1> HIDE DEF e
<1>11. q \in Seq(Op) BY <1>2, <1>8
<1> HIDE DEF q
<1> DEFINE A == [desktop EXCEPT !.pending = q, !.revision = rev, !.next_epoch = ne]
           B == [A EXCEPT !.epoch = ep, !.anchor = an, !.wire_epoch = we, !.sequence = sq]
<1>11a. Pushed(op) = B BY <1>10
<1>11b. A \in DesktopRecord BY <1>3, <1>11 DEF DesktopRecord
<1> HIDE DEF A
<1>11c. B \in DesktopRecord BY <1>3, <1>4, <1>11b DEF DesktopRecord
<1> HIDE DEF B
<1>12. Pushed(op) \in DesktopRecord BY <1>11a, <1>11c
<1>13. Pushed(op).resources = desktop.resources BY <1>10 DEF DesktopRecord
<1>14. Pushed(op).dropped = desktop.dropped /\ Pushed(op).received = desktop.received
  BY <1>10 DEF DesktopRecord
<1>15. Pushed(op).pending = q BY <1>10 DEF DesktopRecord
<1> QED BY <1>7, <1>8, <1>12, <1>13, <1>14, <1>15 DEF q

LEMMA PendingAppend ==
    ASSUME NEW q \in Seq(Op), NEW e \in Op
    PROVE  PendingLeases(Append(q, e)) =
             PendingLeases(q) \union IF e.kind \in CpuKinds THEN {e.lease} ELSE {}
<1> DEFINE r == Append(q, e)
           n == Len(q) + 1
<1>1. /\ DOMAIN r = DOMAIN q \union {n} /\ n \notin DOMAIN q /\ r[n] = e
      /\ \A k \in DOMAIN q : r[k] = q[k]
  BY AppendOf
<1> HIDE DEF r, n
<1>2. \A x : x \in PendingLeases(r) <=> \E k \in DOMAIN r : r[k].kind \in CpuKinds /\ x = r[k].lease
  BY DEF PendingLeases, CpuKinds
<1>3. \A x : x \in PendingLeases(q) <=> \E k \in DOMAIN q : q[k].kind \in CpuKinds /\ x = q[k].lease
  BY DEF PendingLeases, CpuKinds
<1>4. \A x : x \in PendingLeases(r) <=>
               x \in PendingLeases(q) \/ (e.kind \in CpuKinds /\ x = e.lease)
  BY <1>1, <1>2, <1>3
<1>5. PendingLeases(r) = PendingLeases(q) \union IF e.kind \in CpuKinds THEN {e.lease} ELSE {}
  BY <1>4
<1> QED BY <1>5 DEF r

LEMMA ReceiveOpStep ==
    ASSUME FramesInv, Untouched, UNCHANGED <<separate, back>>, NEW op \in Op, Takes(op),
           ReceiveOp(op)
    PROVE  FramesStep
<1>1. CASE OpFault(op) # {}
  <2>1. PICK reason \in OpFault(op) : Refuse(reason) BY <1>1 DEF ReceiveOp
  <2> QED BY <2>1, RefuseStep
<1>2. CASE OpFault(op) = {}
  <2>1. /\ ~Full /\ desktop' = Pushed(op)
        /\ leased' = IF op.kind \in CpuKinds
                       THEN leased \union {<<op.lease.epoch, op.lease.index>>} ELSE leased
        /\ active' = (active \/ op.kind \in {"seed", "reset"})
        /\ UNCHANGED <<order, releases, frames, held, owed, taking, waiting, signal, closed>>
    BY <1>2 DEF ReceiveOp
  <2>2. desktop \in DesktopRecord BY DesktopIn, ConsumerType
  <2>3. PICK e \in Op : /\ e.kind = op.kind /\ e.lease = op.lease
                        /\ desktop'.pending = Append(desktop.pending, e)
    BY <2>1, <2>2, PushedIs
  <2>4. desktop' \in DesktopRecord /\ desktop'.resources = desktop.resources
    BY <2>1, <2>2, PushedIs
  <2>5. DesktopShape' BY <2>4 DEF DesktopShape, DesktopRecord
  <2> DEFINE N == IF op.kind \in CpuKinds THEN {op.lease} ELSE {}
  <2>6. desktop.pending \in Seq(Op) BY <2>2 DEF DesktopRecord
  <2>7. PendingLeases(desktop'.pending) = PendingLeases(desktop.pending) \union N
    BY <2>3, <2>6, PendingAppend
  <2>8. Len(desktop'.pending) <= MaxPending
    <3>1. Len(desktop.pending) \in Nat /\ MaxPending \in Nat BY <2>6, TransportAssumption
    <3>2. Len(desktop'.pending) = Len(desktop.pending) + 1 BY <2>3, <2>6, AppendOf
    <3>3. ~(Len(desktop.pending) >= MaxPending) BY <2>1 DEF Full
    <3> QED BY <3>1, <3>2, <3>3
  <2>9. op.kind \in CpuKinds =>
           /\ op.lease \in CpuLease /\ Bears(op) /\ Of(op) = op.lease /\ op.lease.index \in CPU
           /\ Token(op.lease) \in Granted
    BY OpType, TakenHead
  <2>10. op.kind \in CpuKinds =>
           op.lease.index \in Buf /\ op.lease.epoch \in 1..(MaxEpoch + MaxOps)
    <3> SUFFICES ASSUME op.kind \in CpuKinds
                 PROVE  op.lease.index \in Buf /\ op.lease.epoch \in 1..(MaxEpoch + MaxOps)
      OBVIOUS
    <3>1. Token(op.lease)[1] = op.lease.index /\ Token(op.lease)[2] = op.lease.epoch BY DEF Token
    <3> QED BY <2>9, <3>1, GrantedIn
  <2>11. leased' \subseteq (1..(MaxEpoch + MaxOps)) \X Buf BY <2>1, <2>10, ConsumerType
  <2>12. active' \in BOOLEAN BY <2>1, ConsumerType
  <2>13. ConsumerShape'
    BY <2>1, <2>4, <2>5, <2>8, <2>11, <2>12, ConsumerType DEF ConsumerShape
  <2>14. op.kind \in CpuKinds => op.lease \notin Live
    <3>1. op.kind \in CpuKinds => Of(op).index \in Buf /\ Bears(op) BY <2>9 DEF Buf
    <3> QED BY <2>9, <3>1, TakenHead
  <2>15. LatestAlone'
    <3>1. frames.latest \cap N = {} BY <2>14, LiveIs
    <3> QED BY <2>1, <2>4, <2>7, <3>1, ConsumerType DEF LatestAlone
  <2>16. Live' \subseteq Live \union N BY <2>1, <2>4, <2>7, LiveIs
  <2>17. N \subseteq AnyLease /\ \A l \in N : Bears(op) /\ Token(l) = Token(Of(op))
    BY <2>9 DEF AnyLease
  <2>18. Released({}) BY <2>1, ReleasedNone
  <2> HIDE DEF N
  <2> QED BY <2>13, <2>15, <2>16, <2>17, <2>18, TakenStep
<1> QED BY <1>1, <1>2

LEMMA UnixStep == ASSUME FramesInv, UnixReceive PROVE FramesStep
<1> DEFINE m == Head(unix)
<1>1. /\ unix # <<>> /\ unix' = Tail(unix) /\ UNCHANGED <<separate, mach, back>> /\ Untouched
      /\ IF m.kind \in Image THEN ReceiveImage(m) ELSE ReceiveOp(m)
  BY DEF UnixReceive
<1>2. Takes(m) BY <1>1 DEF Takes
<1>3. m \in ImageMsg \union Op BY <1>2, TakenHead
<1> HIDE DEF m
<1>4. CASE m.kind \in Image
  <2>1. m \notin Op BY <1>4 DEF Op, RawOp, OpKinds, CpuKinds, Image
  <2> QED BY <1>1, <1>2, <1>3, <1>4, <2>1, ReceiveImageStep
<1>5. CASE m.kind \notin Image
  <2>1. m \notin ImageMsg BY <1>5, ImageLeaseOf
  <2> QED BY <1>1, <1>2, <1>3, <1>5, <2>1, ReceiveOpStep
<1> QED BY <1>4, <1>5

-----------------------------------------------------------------------------
(* Desktop::take.  The lifecycle records at the head are a fold over the     *)
(* queue; its stages are followed one by one.                                *)

Sweeping(g, q, m, base) ==
    g = [S \in SUBSET (1..m) |->
           IF S = {} THEN base ELSE Lifecycle(g[S \ {Max(S)}], q[Max(S)])]

LEMMA SweepExists ==
    ASSUME NEW q, NEW m \in Nat, NEW base PROVE \E g : Sweeping(g, q, m, base)
<1> DEFINE T == 1..m
           Part(n) == {S \in SUBSET T : Cardinality(S) <= n}
           Then(g, S) == IF S = {} THEN base ELSE Lifecycle(g[S \ {Max(S)}], q[Max(S)])
           Upto(g, n) == g = [S \in Part(n) |-> Then(g, S)]
           Bad == {n \in Nat : ~\E g : Upto(g, n)}
<1>0. IsFiniteSet(T) BY FS_Interval
<1>1. \A S \in SUBSET T : IsFiniteSet(S) /\ Cardinality(S) \in Nat
  BY <1>0, FS_Subset, FS_CardinalityType
<1>2. ASSUME NEW n \in Nat, NEW S \in Part(n), S # {}
      PROVE  n > 0 /\ S \ {Max(S)} \in Part(n - 1)
  <2>1. Max(S) \in S BY <1>2, MaxOf
  <2>2. S \in SUBSET T /\ Cardinality(S) <= n OBVIOUS
  <2>3. Cardinality(S \ {Max(S)}) = Cardinality(S) - 1 BY <2>1, <2>2, <1>1, FS_RemoveElement
  <2>4. S \ {Max(S)} \in SUBSET T BY <2>2
  <2>5. Cardinality(S) \in Nat /\ Cardinality(S \ {Max(S)}) \in Nat BY <2>2, <2>4, <1>1
  <2>6. n > 0 /\ Cardinality(S \ {Max(S)}) <= n - 1
    <3> HIDE DEF T, Part
    <3> QED BY <2>2, <2>3, <2>5
  <2> QED BY <2>4, <2>6
<1>3. \E g : Upto(g, 0)
  <2> DEFINE g == [S \in Part(0) |-> base]
  <2>1. ASSUME NEW S \in Part(0), S # {} PROVE FALSE
    <3>1. 0 > 0 BY <2>1, <1>2
    <3> QED BY <3>1
  <2>2. Upto(g, 0) BY <2>1
  <2> QED BY <2>2
<1>4. ASSUME NEW n \in Nat, n # 0, NEW g, Upto(g, n - 1)
      PROVE  \E h : Upto(h, n)
  <2> DEFINE h == [S \in Part(n) |-> Then(g, S)]
  <2>1. \A S \in Part(n) : S # {} => S \ {Max(S)} \in Part(n - 1) BY <1>2
  <2>2. \A t \in Part(n - 1) : t \in Part(n)
    <3> TAKE t \in Part(n - 1)
    <3>1. t \in SUBSET T /\ Cardinality(t) <= n - 1 OBVIOUS
    <3> QED BY <3>1, <1>1
  <2>3. \A t \in Part(n - 1) : g[t] = Then(g, t)
    <3> HIDE DEF Part, Then
    <3> QED BY <1>4
  <2>4. \A t \in Part(n - 1) : h[t] = g[t]
    <3> HIDE DEF Part, Then
    <3> QED BY <2>2, <2>3
  <2>5. \A S \in Part(n) : Then(g, S) = Then(h, S)
    <3> HIDE DEF Part, h
    <3> QED BY <2>1, <2>4
  <2>6. Upto(h, n)
    <3> HIDE DEF Part, Then
    <3> QED BY <2>5
  <2> QED BY <2>6
<1>5. Bad = {}
  <2> SUFFICES ASSUME Bad # {} PROVE FALSE OBVIOUS
  <2>0. Bad \in SUBSET Nat OBVIOUS
  <2>1. PICK n \in Bad : \A k \in Bad : n <= k
    <3> HIDE DEF Bad
    <3> QED BY <2>0, LeastNat
  <2>2. n \in Nat /\ n # 0
    <3> HIDE DEF Upto
    <3> QED BY <1>3
  <2>3. n - 1 \in Nat /\ n - 1 \notin Bad
    <3> HIDE DEF Bad
    <3> QED BY <2>0, <2>1, <2>2
  <2>4. PICK g : Upto(g, n - 1)
    <3> HIDE DEF Upto
    <3> QED BY <2>3
  <2>5. \E h : Upto(h, n)
    <3> HIDE DEF Upto
    <3> QED BY <2>2, <2>4, <1>4
  <2> HIDE DEF Upto
  <2> QED BY <2>5
<1>6. Cardinality(T) \in Nat BY <1>1
<1>7. PICK g : Upto(g, Cardinality(T))
  <2> HIDE DEF Upto
  <2> QED BY <1>5, <1>6
<1>8. Part(Cardinality(T)) = SUBSET T BY <1>0, FS_Subset
<1>9. g = [S \in SUBSET T |-> Then(g, S)]
  <2> HIDE DEF Then
  <2> QED BY <1>7, <1>8
<1> QED BY <1>9 DEF Sweeping

Start == [D |-> desktop, retired |-> {}, stop |-> FALSE]

LEMMA SweepStages ==
    ASSUME NEW m \in Nat, DOMAIN desktop.pending = 1..m
    PROVE  \E C : /\ C[0] = Start /\ C[m] = Swept
                  /\ \A k \in 1..m : C[k] = Lifecycle(C[k - 1], desktop.pending[k])
<1> DEFINE q == desktop.pending
           g == CHOOSE f : Sweeping(f, q, m, Start)
           C == [k \in 0..m |-> g[1..k]]
<1>1. Sweeping(g, q, m, Start)
  <2> HIDE DEF q
  <2> QED BY SweepExists
<1>2. Swept = g[1..m]
  <2>1. Swept = (CHOOSE f : f = [S \in SUBSET (DOMAIN q) |->
                    IF S = {} THEN Start ELSE Lifecycle(f[S \ {Max(S)}], q[Max(S)])])[DOMAIN q]
    BY DEF Swept, FoldLeft, MapThenFoldSet, Start
  <2> QED BY <2>1 DEF Sweeping
<1>3. /\ g[{}] = Start
      /\ \A S \in SUBSET (1..m) : S # {} => g[S] = Lifecycle(g[S \ {Max(S)}], q[Max(S)])
  <2> HIDE DEF g
  <2> QED BY <1>1 DEF Sweeping
<1> HIDE DEF g
<1>4. C[0] = Start /\ C[m] = Swept
  <2>1. 1..0 = {} /\ 0 \in 0..m /\ m \in 0..m OBVIOUS
  <2> QED BY <1>2, <1>3, <2>1
<1>5. \A k \in 1..m : C[k] = Lifecycle(C[k - 1], q[k])
  <2> TAKE k \in 1..m
  <2>1. 1..k \in SUBSET (1..m) /\ 1..k # {}
    <3>1. k \in Nat /\ 1 <= k /\ k <= m OBVIOUS
    <3>2. \A x \in 1..k : x \in 1..m BY <3>1
    <3>3. k \in 1..k BY <3>1
    <3> QED BY <3>2, <3>3
  <2>2. Max(1..k) \in 1..k /\ \A x \in 1..k : x <= Max(1..k) BY <2>1, MaxOf
  <2>3. Max(1..k) = k
    <3>1. k \in 1..k OBVIOUS
    <3>2. k <= Max(1..k) /\ Max(1..k) <= k /\ Max(1..k) \in Nat BY <2>2, <3>1
    <3> QED BY <3>2
  <2>4. (1..k) \ {k} = 1..(k - 1) OBVIOUS
  <2>5. g[1..k] = Lifecycle(g[1..(k - 1)], q[k]) BY <1>3, <2>1, <2>3, <2>4
  <2>6. k \in 0..m /\ k - 1 \in 0..m OBVIOUS
  <2> QED BY <2>5, <2>6
<1> HIDE DEF C
<1> QED BY <1>4, <1>5

(* Identities are ordered as pairs, and the latest of some is one of them.   *)
LEMMA PrecedesOrder ==
    /\ \A x \in Pair : x \preceq x /\ Zero \preceq x
    /\ \A x, y \in Pair : x \preceq y \/ y \preceq x
    /\ \A x, y, z \in Pair : x \preceq y /\ y \preceq z => x \preceq z
    /\ \A x, y \in Pair : Later(x, y) \in Pair /\ x \preceq Later(x, y) /\ y \preceq Later(x, y)
<1>1. \A x \in Pair : x[1] \in Nat /\ x[2] \in Nat BY DEF Pair
<1>2. \A x \in Pair : x \preceq x /\ Zero \preceq x BY <1>1 DEF \preceq, Zero
<1>3. \A x, y \in Pair : x \preceq y \/ y \preceq x BY <1>1 DEF \preceq
<1>4. \A x, y, z \in Pair : x \preceq y /\ y \preceq z => x \preceq z BY <1>1 DEF \preceq
<1>5. \A x, y \in Pair : Later(x, y) \in Pair /\ x \preceq Later(x, y) /\ y \preceq Later(x, y)
  BY <1>2, <1>3 DEF Later
<1> QED BY <1>2, <1>3, <1>4, <1>5

LEMMA LatestOf ==
    ASSUME NEW S \in SUBSET Pair, IsFiniteSet(S), S # {}
    PROVE  Latest(S) \in S /\ \A x \in S : x \preceq Latest(S)
<1> DEFINE G == {s \in SUBSET S : s # {} => \E m \in s : \A x \in s : x \preceq m}
<1>1. ASSUME NEW s \in SUBSET S, \A x \in s : s \ {x} \in G PROVE s \in G
  <2>1. CASE s = {} BY <2>1
  <2>2. CASE s # {}
    <3>1. PICK x \in s : TRUE BY <2>2
    <3>2. x \in Pair OBVIOUS
    <3>3. CASE s \ {x} = {}
      <4>1. \A y \in s : y = x BY <3>3
      <4>2. x \preceq x BY <3>2, PrecedesOrder
      <4> QED BY <3>1, <4>1, <4>2
    <3>4. CASE s \ {x} # {}
      <4>1. s \ {x} \in G BY <1>1, <3>1
      <4>2. PICK m \in s \ {x} : \A y \in s \ {x} : y \preceq m BY <3>4, <4>1
      <4>3. m \in Pair /\ m \in s OBVIOUS
      <4>4. CASE x \preceq m
        <5>1. \A y \in s : y \preceq m BY <4>2, <4>4
        <5> QED BY <4>3, <5>1
      <4>5. CASE m \preceq x
        <5>1. \A y \in s : y \preceq x
          <6> TAKE y \in s
          <6>1. CASE y = x BY <3>2, <6>1, PrecedesOrder
          <6>2. CASE y # x
            <7>1. y \preceq m /\ y \in Pair BY <4>2, <6>2
            <7> QED BY <3>2, <4>3, <4>5, <7>1, PrecedesOrder
          <6> QED BY <6>1, <6>2
        <5> QED BY <3>1, <5>1
      <4> QED BY <3>2, <4>3, <4>4, <4>5, PrecedesOrder
    <3> QED BY <3>3, <3>4
  <2> QED BY <2>1, <2>2
<1>2. SUBSET S \subseteq G
  <2> HIDE DEF G
  <2> QED BY <1>1, SetInduction
<1>3. \E m \in S : \A x \in S : x \preceq m BY <1>2
<1> QED BY <1>3 DEF Latest

LEMMA TakeDropIs ==
    ASSUME NEW D \in DesktopRecord, D.pending # <<>>, NEW op \in Op, op.kind = "drop",
           NEW c, c = Later(D.dropped[op.d], op.anchor),
           NEW seen \in BOOLEAN,
           seen <=> D.received[op.d] # Zero /\ c \preceq D.received[op.d]
    PROVE  /\ TakeDrop(D, op) \in DesktopRecord /\ c \in Pair /\ op.d \in Drawable
           /\ TakeDrop(D, op).resources = {l \in D.resources : ~Gone(l, op.d, c)}
           /\ TakeDrop(D, op).pending = Tail(D.pending)
           /\ D.dropped[op.d] \in Pair /\ D.dropped[op.d] \preceq c
           /\ TakeDrop(D, op).dropped[op.d] = (IF seen THEN Zero ELSE c)
           /\ TakeDrop(D, op).received[op.d] = (IF seen THEN Zero ELSE D.received[op.d])
           /\ \A d \in Drawable : d # op.d =>
                 /\ TakeDrop(D, op).dropped[d] = D.dropped[d]
                 /\ TakeDrop(D, op).received[d] = D.received[d]
<1> DEFINE x == IF seen THEN Zero ELSE c
           y == IF seen THEN Zero ELSE D.received[op.d]
           R == {l \in D.resources : ~Gone(l, op.d, c)}
           q == Tail(D.pending)
           f == [D.dropped EXCEPT ![op.d] = x]
           g == [D.received EXCEPT ![op.d] = y]
<1>1. op.d \in Drawable /\ op.anchor \in Pair BY OpType
<1>2. /\ D.dropped \in [Drawable -> Pair] /\ D.received \in [Drawable -> Pair]
      /\ D.pending \in Seq(Op) /\ D.resources \subseteq ImageLease
  BY DEF DesktopRecord
<1>3. c \in Pair /\ D.dropped[op.d] \in Pair /\ D.dropped[op.d] \preceq c
  BY <1>1, <1>2, PrecedesOrder
<1>4. x \in Pair /\ y \in Pair BY <1>1, <1>2, <1>3 DEF Zero, Pair
<1>5. TakeDrop(D, op) = [D EXCEPT !.resources = R, !.dropped = [@ EXCEPT ![op.d] = x],
                                  !.received = [@ EXCEPT ![op.d] = y], !.pending = q]
  BY DEF TakeDrop
<1>6. R \subseteq ImageLease /\ q \in Seq(Op) BY <1>2, TailOf
<1> HIDE DEF x, y, R, q
<1>7. /\ f \in [Drawable -> Pair] /\ g \in [Drawable -> Pair] /\ f[op.d] = x /\ g[op.d] = y
      /\ \A d \in Drawable : d # op.d => f[d] = D.dropped[d] /\ g[d] = D.received[d]
  BY <1>1, <1>2, <1>4
<1>8. TakeDrop(D, op) = [D EXCEPT !.resources = R, !.dropped = f, !.received = g, !.pending = q]
  BY <1>5
<1> HIDE DEF f, g
<1>9. /\ TakeDrop(D, op) \in DesktopRecord /\ TakeDrop(D, op).resources = R
      /\ TakeDrop(D, op).pending = q /\ TakeDrop(D, op).dropped = f
      /\ TakeDrop(D, op).received = g
  BY <1>6, <1>7, <1>8 DEF DesktopRecord
<1> QED BY <1>1, <1>3, <1>7, <1>9 DEF x, y, R, q

(* What a stage of the sweep keeps of the queue and of the images.           *)
Among(p, q) == \A i \in DOMAIN p : \E n \in DOMAIN q : p[i] = q[n]

SweptSound(s, k) ==
    /\ s \in [D : DesktopRecord, retired : SUBSET (Drawable \X Pair), stop : BOOLEAN]
    /\ IsFiniteSet(s.retired) /\ s.D.resources \subseteq desktop.resources
    /\ Among(s.D.pending, desktop.pending) /\ Len(s.D.pending) <= Len(desktop.pending)
    /\ ~s.stop => Len(s.D.pending) = Len(desktop.pending) - k

LEMMA AmongTail ==
    ASSUME NEW p \in Seq(Op), p # <<>>, NEW q, Among(p, q)
    PROVE  Among(Tail(p), q) /\ Len(Tail(p)) = Len(p) - 1
BY TailOf DEF Among

LEMMA LifecycleSound ==
    ASSUME desktop \in DesktopRecord, NEW k \in 1..Len(desktop.pending), NEW s,
           SweptSound(s, k - 1)
    PROVE  SweptSound(Lifecycle(s, desktop.pending[k]), k)
<1> DEFINE q == desktop.pending
           op == q[k]
           D == s.D
<1>1. q \in Seq(Op) /\ Len(q) \in Nat /\ op \in Op
  <2>1. q \in Seq(Op) BY DEF DesktopRecord
  <2>2. k \in DOMAIN q BY <2>1
  <2> QED BY <2>1, <2>2
<1>2. /\ s \in [D : DesktopRecord, retired : SUBSET (Drawable \X Pair), stop : BOOLEAN]
      /\ IsFiniteSet(s.retired) /\ D.resources \subseteq desktop.resources
      /\ Among(D.pending, q) /\ Len(D.pending) <= Len(q)
      /\ ~s.stop => Len(D.pending) = Len(q) - (k - 1)
  BY DEF SweptSound
<1>3. D \in DesktopRecord /\ D.pending \in Seq(Op) /\ Len(D.pending) \in Nat
      /\ D.resources \subseteq ImageLease
  <2>1. D \in DesktopRecord BY <1>2
  <2> HIDE DEF D
  <2>2. D.pending \in Seq(Op) /\ D.resources \subseteq ImageLease BY <2>1 DEF DesktopRecord
  <2>3. Len(D.pending) \in Nat BY <2>2
  <2> QED BY <2>1, <2>2, <2>3
<1>4. ~s.stop => D.pending # <<>> BY <1>1, <1>2, <1>3
<1>5. ~s.stop => /\ Tail(D.pending) \in Seq(Op) /\ Among(Tail(D.pending), q)
                 /\ Len(Tail(D.pending)) = Len(q) - k
  <2> SUFFICES ASSUME ~s.stop
               PROVE  /\ Tail(D.pending) \in Seq(Op) /\ Among(Tail(D.pending), q)
                      /\ Len(Tail(D.pending)) = Len(q) - k
    OBVIOUS
  <2>1. D.pending # <<>> BY <1>4
  <2>2. Tail(D.pending) \in Seq(Op) BY <1>3, <2>1, TailOf
  <2>3. Among(Tail(D.pending), q) /\ Len(Tail(D.pending)) = Len(D.pending) - 1
    BY <1>2, <1>3, <2>1, AmongTail
  <2>4. Len(D.pending) = Len(q) - (k - 1) /\ k \in Nat BY <1>1, <1>2
  <2> HIDE DEF D, q
  <2>5. Len(q) - (k - 1) - 1 = Len(q) - k BY <1>1, <2>4
  <2> QED BY <2>2, <2>3, <2>4, <2>5
<1> DEFINE drop == [s EXCEPT !.D = TakeDrop(D, op),
                            !.retired = @ \union {<<op.d, Later(D.dropped[op.d], op.anchor)>>}]
           discard == [s EXCEPT !.D = TakeDiscard(D, op)]
           stop == [s EXCEPT !.stop = TRUE]
           visible == ~(op.kind = "drop" \/ (Detached(op) /\ Named(D, op) # {}))
<1>6. /\ s.stop => Lifecycle(s, op) = s
      /\ ~s.stop /\ op.kind = "drop" => Lifecycle(s, op) = drop
      /\ ~s.stop /\ op.kind # "drop" /\ ~visible => Lifecycle(s, op) = discard
      /\ ~s.stop /\ visible => Lifecycle(s, op) = stop
  <2>1. Lifecycle(s, op) = CASE s.stop -> s
                             [] ~s.stop /\ op.kind = "drop" -> drop
                             [] ~s.stop /\ Detached(op) /\ Named(D, op) # {} -> discard
                             [] OTHER -> stop
    BY DEF Lifecycle
  <2>2. op.kind = "drop" => ~Detached(op) BY DEF Detached
  <2> HIDE DEF drop, discard, stop
  <2> QED BY <2>1, <2>2
<1> HIDE DEF op, drop, discard, stop
<1>7. CASE s.stop
  <2>1. Lifecycle(s, op) = s BY <1>6, <1>7
  <2> QED BY <1>2, <1>7, <2>1 DEF SweptSound, op
<1>8. CASE ~s.stop /\ op.kind = "drop"
  <2> DEFINE c == Later(D.dropped[op.d], op.anchor)
             seen == D.received[op.d] # Zero /\ c \preceq D.received[op.d]
             E == TakeDrop(D, op)
             r == <<op.d, c>>
             Q == s.retired \union {r}
  <2>1. seen \in BOOLEAN BY DEF \preceq
  <2>2. Lifecycle(s, op) = [s EXCEPT !.D = E, !.retired = Q] BY <1>6, <1>8 DEF drop
  <2> HIDE DEF c, seen, D
  <2>3. /\ E \in DesktopRecord /\ c \in Pair /\ op.d \in Drawable
        /\ E.resources \subseteq D.resources /\ E.pending = Tail(D.pending)
    <3>1. c = Later(D.dropped[op.d], op.anchor) BY DEF c
    <3>2. seen <=> D.received[op.d] # Zero /\ c \preceq D.received[op.d] BY DEF seen
    <3>3. D \in DesktopRecord /\ D.pending # <<>> BY <1>3, <1>4, <1>8
    <3>4. op \in Op BY <1>1
    <3> QED BY <1>8, <2>1, <3>1, <3>2, <3>3, <3>4, TakeDropIs
  <2>4. r \in Drawable \X Pair BY <2>3
  <2> HIDE DEF E, r
  <2>5. Q \in SUBSET (Drawable \X Pair) BY <1>2, <2>4
  <2>6. IsFiniteSet(Q)
    <3> DEFINE T == s.retired
    <3>1. IsFiniteSet(T) BY <1>2
    <3> HIDE DEF T
    <3>2. IsFiniteSet(T \union {r}) BY <3>1, FS_AddElement
    <3> QED BY <3>2 DEF T
  <2> HIDE DEF Q
  <2> DEFINE z == Lifecycle(s, op)
  <2>7. /\ z \in [D : DesktopRecord, retired : SUBSET (Drawable \X Pair), stop : BOOLEAN]
        /\ z.D = E /\ z.retired = Q /\ z.stop = s.stop
    BY <1>2, <2>2, <2>3, <2>5
  <2> HIDE DEF z
  <2>8. E.resources \subseteq desktop.resources BY <1>2, <2>3 DEF D
  <2>9. /\ Among(E.pending, q) /\ Len(E.pending) = Len(q) - k /\ Len(E.pending) <= Len(q)
    BY <1>1, <1>5, <1>8, <2>3
  <2>10. SweptSound(z, k) BY <2>6, <2>7, <2>8, <2>9 DEF SweptSound
  <2> QED BY <2>10 DEF z, op
<1>9. CASE ~s.stop /\ op.kind # "drop" /\ Detached(op) /\ Named(D, op) # {}
  <2> DEFINE R == D.resources \ {op.lease}
             p == Tail(D.pending)
             E == [D EXCEPT !.resources = R, !.pending = p]
  <2>0. Lifecycle(s, op) = discard
    <3>1. ~visible BY <1>9
    <3> HIDE DEF visible
    <3> QED BY <1>6, <1>9, <3>1
  <2>1. Lifecycle(s, op) = [s EXCEPT !.D = E]
    <3>1. TakeDiscard(D, op) = E
      <4> HIDE DEF D
      <4> QED BY <1>3 DEF DesktopRecord, TakeDiscard
    <3> HIDE DEF E, D
    <3> QED BY <2>0, <3>1 DEF discard
  <2>2. R \subseteq ImageLease /\ p \in Seq(Op) BY <1>3, <1>5, <1>9
  <2>3. R \subseteq desktop.resources BY <1>2
  <2>4. Among(p, q) /\ Len(p) = Len(q) - k /\ Len(p) <= Len(q) BY <1>1, <1>5, <1>9
  <2> HIDE DEF R, p, D
  <2>5. E \in DesktopRecord /\ E.resources = R /\ E.pending = p BY <1>3, <2>2 DEF DesktopRecord
  <2> HIDE DEF E
  <2> DEFINE z == Lifecycle(s, op)
  <2>6. /\ z \in [D : DesktopRecord, retired : SUBSET (Drawable \X Pair), stop : BOOLEAN]
        /\ z.D = E /\ z.retired = s.retired /\ z.stop = s.stop
    BY <1>2, <2>1, <2>5
  <2> HIDE DEF z
  <2>7. SweptSound(z, k) BY <1>2, <2>3, <2>4, <2>5, <2>6 DEF SweptSound
  <2> QED BY <2>7 DEF z, op
<1>10. CASE ~s.stop /\ op.kind # "drop" /\ ~(Detached(op) /\ Named(D, op) # {})
  <2>1. Lifecycle(s, op) = [s EXCEPT !.stop = TRUE] BY <1>6, <1>10 DEF stop
  <2> DEFINE z == Lifecycle(s, op)
  <2>2. /\ z \in [D : DesktopRecord, retired : SUBSET (Drawable \X Pair), stop : BOOLEAN]
        /\ z.D = D /\ z.retired = s.retired /\ z.stop
    BY <1>2, <2>1
  <2> HIDE DEF z, D
  <2>3. SweptSound(z, k) BY <1>2, <2>2 DEF SweptSound, D
  <2> QED BY <2>3 DEF z, op
<1> QED BY <1>7, <1>8, <1>9, <1>10

LEMMA StagesSound ==
    ASSUME desktop \in DesktopRecord, NEW C, C[0] = Start,
           \A k \in 1..Len(desktop.pending) : C[k] = Lifecycle(C[k - 1], desktop.pending[k])
    PROVE  \A k \in 0..Len(desktop.pending) : SweptSound(C[k], k)
<1> DEFINE q == desktop.pending
           m == Len(q)
           Bad == {k \in 0..m : ~SweptSound(C[k], k)}
<1>1. q \in Seq(Op) /\ m \in Nat
  <2>1. q \in Seq(Op) BY DEF DesktopRecord
  <2> QED BY <2>1
<1>2. SweptSound(C[0], 0)
  <2>1. IsFiniteSet({}) BY FS_EmptySet
  <2> DEFINE z == Start
  <2>2. z.D = desktop /\ z.retired = {} /\ z.stop = FALSE
        /\ z \in [D : DesktopRecord, retired : SUBSET (Drawable \X Pair), stop : BOOLEAN]
    BY DEF Start
  <2> HIDE DEF z
  <2>3. SweptSound(z, 0) BY <1>1, <2>1, <2>2 DEF SweptSound, Among
  <2> QED BY <2>3 DEF z
<1>3. ASSUME NEW k \in 1..m, SweptSound(C[k - 1], k - 1) PROVE SweptSound(C[k], k)
  <2>1. C[k] = Lifecycle(C[k - 1], q[k]) OBVIOUS
  <2>2. SweptSound(Lifecycle(C[k - 1], q[k]), k) BY <1>3, LifecycleSound
  <2> QED BY <2>1, <2>2
<1>4. Bad = {}
  <2> SUFFICES ASSUME Bad # {} PROVE FALSE OBVIOUS
  <2> HIDE DEF m
  <2>0. Bad \in SUBSET Nat BY <1>1
  <2>1. PICK n \in Bad : \A k \in Bad : n <= k
    <3> HIDE DEF Bad
    <3> QED BY <2>0, LeastNat
  <2>2. n \in 0..m /\ ~SweptSound(C[n], n) OBVIOUS
  <2>3. n # 0 BY <1>2, <2>2
  <2>4. n \in 1..m /\ n - 1 \in 0..m /\ ~(n <= n - 1) BY <1>1, <2>2, <2>3
  <2>5. n - 1 \notin Bad
    <3> HIDE DEF Bad
    <3> QED BY <2>1, <2>4
  <2>6. SweptSound(C[n - 1], n - 1) BY <2>4, <2>5
  <2> QED BY <1>3, <2>2, <2>4, <2>6
<1> QED BY <1>4

LEMMA SweptIs ==
    ASSUME desktop \in DesktopRecord
    PROVE  /\ Swept.D \in DesktopRecord /\ Swept.D.resources \subseteq desktop.resources
           /\ Among(Swept.D.pending, desktop.pending)
           /\ Len(Swept.D.pending) <= Len(desktop.pending)
           /\ Swept.retired \subseteq Drawable \X Pair /\ IsFiniteSet(Swept.retired)
<1> DEFINE m == Len(desktop.pending)
<1>1. desktop.pending \in Seq(Op) BY DEF DesktopRecord
<1>2. m \in Nat /\ DOMAIN desktop.pending = 1..m BY <1>1
<1>3. PICK C : /\ C[0] = Start /\ C[m] = Swept
               /\ \A k \in 1..m : C[k] = Lifecycle(C[k - 1], desktop.pending[k])
  <2> HIDE DEF m
  <2> QED BY <1>2, SweepStages
<1>4. \A k \in 0..m : SweptSound(C[k], k) BY <1>3, StagesSound
<1>5. m \in 0..m BY <1>2
<1>6. SweptSound(Swept, m) BY <1>3, <1>4, <1>5
<1> HIDE DEF m
<1> QED BY <1>6 DEF SweptSound

LEMMA PendingAmong ==
    ASSUME NEW p, NEW q, Among(p, q) PROVE PendingLeases(p) \subseteq PendingLeases(q)
<1> SUFFICES ASSUME NEW l \in PendingLeases(p) PROVE l \in PendingLeases(q) OBVIOUS
<1>1. PICK i \in DOMAIN p : p[i].kind \in {"seed", "patch", "return"} /\ l = p[i].lease
  BY DEF PendingLeases
<1>2. PICK n \in DOMAIN q : p[i] = q[n] BY DEF Among
<1>3. q[n].kind \in {"seed", "patch", "return"} /\ l = q[n].lease BY <1>1, <1>2
<1> QED BY <1>3 DEF PendingLeases

LEMMA ResetIs ==
    ASSUME NEW D \in DesktopRecord, IsFiniteSet(D.resources)
    PROVE  /\ Reset(D) \in DesktopRecord /\ Reset(D).resources = {}
           /\ Reset(D).pending = D.pending
           /\ \A d \in Drawable : /\ Reset(D).received[d] = Zero
                                  /\ D.dropped[d] \preceq Reset(D).dropped[d]
<1> DEFINE last(d) == {Id(l) : l \in {r \in D.resources : r.d = d}}
           f == [d \in Drawable |-> Latest(last(d) \union {D.dropped[d]})]
           g == [d \in Drawable |-> Zero]
<1>1. D.dropped \in [Drawable -> Pair] /\ D.resources \subseteq ImageLease BY DEF DesktopRecord
<1>2. ASSUME NEW d \in Drawable PROVE f[d] \in Pair /\ D.dropped[d] \preceq f[d]
  <2> DEFINE K == {r \in D.resources : r.d = d}
             h == [l \in D.resources |-> Id(l)]
             S == last(d) \union {D.dropped[d]}
  <2>1. K \subseteq D.resources OBVIOUS
  <2>2. IsFiniteSet(K) BY <2>1, FS_Subset
  <2> HIDE DEF K
  <2>3. last(d) = {h[l] : l \in K} BY <2>1 DEF K
  <2>4. IsFiniteSet({h[l] : l \in K})
    <3> HIDE DEF h
    <3> QED BY <2>2, ImageFinite
  <2>5. IsFiniteSet(S)
    <3> DEFINE T == last(d)
               y == D.dropped[d]
    <3>1. IsFiniteSet(T) BY <2>3, <2>4
    <3> HIDE DEF T, y
    <3>2. IsFiniteSet(T \union {y}) BY <3>1, FS_AddElement
    <3> QED BY <3>2 DEF T, y
  <2>6. \A l \in ImageLease : Id(l) \in Pair BY DEF ImageLease, Id, Pair
  <2>7. S \in SUBSET Pair /\ D.dropped[d] \in S
    <3>1. D.dropped[d] \in Pair BY <1>1
    <3>2. last(d) \subseteq Pair BY <1>1, <2>6
    <3> QED BY <3>1, <3>2
  <2>8. S # {} BY <2>7
  <2> HIDE DEF S
  <2>9. Latest(S) \in S /\ \A x \in S : x \preceq Latest(S) BY <2>5, <2>7, <2>8, LatestOf
  <2>10. Latest(S) \in Pair /\ D.dropped[d] \preceq Latest(S) BY <2>7, <2>9
  <2>11. f[d] = Latest(S) BY DEF S
  <2> QED BY <2>10, <2>11
<1>3. f \in [Drawable -> Pair] /\ g \in [Drawable -> Pair]
  <2>1. Zero \in Pair BY DEF Zero, Pair
  <2>2. g \in [Drawable -> Pair] BY <2>1
  <2>3. \A d \in Drawable : f[d] \in Pair
    <3> HIDE DEF f
    <3> QED BY <1>2
  <2> QED BY <2>2, <2>3
<1>4. \A d \in Drawable : g[d] = Zero OBVIOUS
<1>5. Reset(D) = [D EXCEPT !.received = g, !.dropped = f, !.resources = {}] BY DEF Reset
<1>6. \A d \in Drawable : D.dropped[d] \preceq f[d] BY <1>2
<1> HIDE DEF f, g
<1>7. /\ Reset(D) \in DesktopRecord /\ Reset(D).resources = {} /\ Reset(D).pending = D.pending
      /\ Reset(D).dropped = f /\ Reset(D).received = g
  BY <1>3, <1>5 DEF DesktopRecord
<1> QED BY <1>4, <1>6, <1>7

LEMMA TakenIs ==
    ASSUME NEW D \in DesktopRecord, IsFiniteSet(D.resources), D.pending # <<>>
    PROVE  /\ Taken(D) \in DesktopRecord /\ Taken(D).resources \subseteq D.resources
           /\ Taken(D).pending = Tail(D.pending)
           /\ \A d \in Drawable : /\ D.dropped[d] \preceq Taken(D).dropped[d]
                                  /\ Taken(D).received[d] \in {Zero, D.received[d]}
<1> DEFINE op == Head(D.pending)
           q == Tail(D.pending)
           E == [D EXCEPT !.pending = q]
           R == D.resources \ {op.lease}
           G == [E EXCEPT !.resources = R]
<1>1. /\ D.pending \in Seq(Op) /\ D.resources \subseteq ImageLease
      /\ D.dropped \in [Drawable -> Pair]
  BY DEF DesktopRecord
<1>2. q \in Seq(Op) BY <1>1, TailOf
<1> HIDE DEF q
<1>3. /\ E \in DesktopRecord /\ E.resources = D.resources /\ E.pending = q
      /\ E.dropped = D.dropped /\ E.received = D.received
  BY <1>2 DEF DesktopRecord
<1>4. R \subseteq ImageLease /\ R \subseteq D.resources BY <1>1
<1> HIDE DEF E, R
<1>5. /\ G \in DesktopRecord /\ G.resources = R /\ G.pending = q
      /\ G.dropped = D.dropped /\ G.received = D.received
  BY <1>3, <1>4 DEF DesktopRecord
<1>6. /\ Reset(E) \in DesktopRecord /\ Reset(E).resources = {} /\ Reset(E).pending = q
      /\ \A d \in Drawable : /\ Reset(E).received[d] = Zero
                             /\ D.dropped[d] \preceq Reset(E).dropped[d]
  BY <1>3, ResetIs
<1>7. \A d \in Drawable : D.dropped[d] \preceq D.dropped[d] BY <1>1, PrecedesOrder
<1>8. Taken(D) \in {E, G, Reset(E)}
  <2>1. Taken(D) = CASE op.kind = "reset" -> Reset(E)
                     [] Needs(op) /\ (op.final \/ op.kind = "discard") -> G
                     [] OTHER -> E
    BY DEF Taken, q, E, R
  <2> HIDE DEF G, op
  <2> QED BY <2>1
<1> HIDE DEF G
<1>9. CASE Taken(D) = E BY <1>3, <1>7, <1>9 DEF q
<1>10. CASE Taken(D) = G BY <1>4, <1>5, <1>7, <1>10 DEF q
<1>11. CASE Taken(D) = Reset(E) BY <1>6, <1>11 DEF q
<1> QED BY <1>8, <1>9, <1>10, <1>11

LEMMA RetiredFramesIs ==
    ASSUME NEW R,
           frames \in [latest : SUBSET ImageLease, owner : SUBSET ImageLease,
                       windows : SUBSET ImageLease]
    PROVE  /\ RetiredFrames(R) \in [latest : SUBSET ImageLease, owner : SUBSET ImageLease,
                                    windows : SUBSET ImageLease]
           /\ RetiredFrames(R).latest \subseteq frames.latest
           /\ RetiredFrames(R).windows \subseteq frames.windows
           /\ RetiredFrames(R).owner \subseteq frames.owner
           /\ \A l \in RetiredFrames(R).windows \union RetiredFrames(R).owner :
                 ~\E r \in R : Gone(l, r[1], r[2])
<1> DEFINE gone(l) == \E r \in R : Gone(l, r[1], r[2])
           owned == \E l \in frames.owner : gone(l)
           F == RetiredFrames(R)
<1>1. F = [windows |-> {l \in frames.windows : ~gone(l)},
           latest |-> IF owned THEN {} ELSE frames.latest,
           owner |-> IF owned THEN {} ELSE frames.owner]
  BY DEF RetiredFrames
<1>2. \A l \in F.windows \union F.owner : ~gone(l)
  <2>1. \A l \in F.windows : ~gone(l) BY <1>1
  <2>2. \A l \in F.owner : l \in frames.owner /\ ~owned BY <1>1
  <2> QED BY <2>1, <2>2
<1> HIDE DEF gone, owned, F
<1>3. /\ F \in [latest : SUBSET ImageLease, owner : SUBSET ImageLease,
                windows : SUBSET ImageLease]
      /\ F.latest \subseteq frames.latest /\ F.windows \subseteq frames.windows
      /\ F.owner \subseteq frames.owner
  <2> DEFINE w == {l \in frames.windows : ~gone(l)}
             la == IF owned THEN {} ELSE frames.latest
             ow == IF owned THEN {} ELSE frames.owner
  <2>1. /\ w \subseteq frames.windows /\ la \subseteq frames.latest /\ ow \subseteq frames.owner
    OBVIOUS
  <2>2. F = [windows |-> w, latest |-> la, owner |-> ow] BY <1>1
  <2> HIDE DEF w, la, ow
  <2> QED BY <2>1, <2>2
<1> QED BY <1>2, <1>3 DEF F, gone

(* What taking an update leaves: nobody owns a lease nobody owned before.    *)
LEMMA TakeUpdateIs ==
    ASSUME FramesInv, TakeUpdate
    PROVE  /\ desktop' \in DesktopRecord /\ desktop'.resources \subseteq Swept.D.resources
           /\ Among(desktop'.pending, desktop.pending)
           /\ Len(desktop'.pending) <= Len(desktop.pending)
           /\ held \subseteq held' /\ held' \subseteq Live \union held /\ IsFiniteSet(held')
           /\ held' \cap frames'.latest = {}
           /\ owed' \subseteq Pair /\ ReleaseAll(Live \ Live')
           /\ \E t : taking' = {t} /\ t.returned \in BOOLEAN
           /\ frames' = RetiredFrames(Swept.retired)
           /\ UNCHANGED <<order, leased, active, waiting, signal>>
           /\ \A d \in Drawable : /\ Swept.D.dropped[d] \preceq desktop'.dropped[d]
                                  /\ desktop'.received[d] \in {Zero, Swept.D.received[d]}
<1> DEFINE D == Swept.D
           F == RetiredFrames(Swept.retired)
           op == Head(D.pending)
           H == held \union HandedOver(op)
           failed == D.pending # <<>> /\ op.kind = "drop"
           E == [Taken(D) EXCEPT !.anchor = IF Returns(D) THEN op.anchor[1] ELSE @]
<1>1. desktop \in DesktopRecord BY DesktopIn, ConsumerType
<1>2. /\ D \in DesktopRecord /\ D.resources \subseteq desktop.resources
      /\ Among(D.pending, desktop.pending) /\ Len(D.pending) <= Len(desktop.pending)
  BY <1>1, SweptIs
<1>3. IsFiniteSet(D.resources)
  <2>1. IsFiniteSet(desktop.resources) BY ConsumerType
  <2> DEFINE S == desktop.resources
             T == D.resources
  <2>2. T \subseteq S /\ IsFiniteSet(S) BY <1>2, <2>1
  <2> HIDE DEF S, T
  <2>3. IsFiniteSet(T) BY <2>2, FS_Subset
  <2> QED BY <2>3 DEF T
<1>4. /\ frames' = F /\ UNCHANGED <<order, leased, active, waiting, signal>>
      /\ \/ /\ D.pending # <<>> /\ (Needs(op) => Named(D, op) # {})
            /\ desktop' = E /\ held' = H
            /\ owed' = (IF op.kind = "readback" THEN owed \union {op.anchor} ELSE owed)
            /\ taking' = {[op |-> op, returned |-> Returns(D), failed |-> FALSE]}
            /\ ReleaseAll(Live \ Owners(E, F, H))
         \/ /\ desktop' = D
            /\ taking' = {[op |-> [kind |-> "none"], returned |-> FALSE, failed |-> failed]}
            /\ ReleaseAll(Live \ Owners(D, F, held))
            /\ UNCHANGED <<held, owed>>
  BY DEF TakeUpdate
<1>5. F.latest \subseteq frames.latest BY ConsumerType, RetiredFramesIs
<1>6. LatestAlone /\ IsFiniteSet(held) BY ConsumerType
<1>7. CASE /\ desktop' = D
           /\ taking' = {[op |-> [kind |-> "none"], returned |-> FALSE, failed |-> failed]}
           /\ ReleaseAll(Live \ Owners(D, F, held))
           /\ UNCHANGED <<held, owed>>
  <2>1. Owners(D, F, held) = Live' BY <1>4, <1>7 DEF Live, Owners
  <2>2. \E t : taking' = {t} /\ t.returned \in BOOLEAN
    <3> DEFINE t == [op |-> [kind |-> "none"], returned |-> FALSE, failed |-> failed]
    <3>1. taking' = {t} /\ t.returned \in BOOLEAN BY <1>7
    <3> HIDE DEF t
    <3> QED BY <3>1
  <2>3. held' \cap frames'.latest = {} BY <1>4, <1>5, <1>6, <1>7 DEF LatestAlone
  <2>4. \A d \in Drawable : D.dropped[d] \preceq D.dropped[d]
    <3>1. D.dropped \in [Drawable -> Pair] BY <1>2 DEF DesktopRecord
    <3> QED BY <3>1, PrecedesOrder
  <2>5. owed' \subseteq Pair BY <1>7, ConsumerType
  <2>6. held \subseteq held' /\ held' \subseteq Live \union held /\ IsFiniteSet(held')
    BY <1>6, <1>7
  <2>7. ReleaseAll(Live \ Live') BY <1>7, <2>1
  <2> HIDE DEF D, F
  <2>8. /\ desktop' \in DesktopRecord /\ desktop'.resources \subseteq D.resources
        /\ Among(desktop'.pending, desktop.pending)
        /\ Len(desktop'.pending) <= Len(desktop.pending)
        /\ \A d \in Drawable : /\ D.dropped[d] \preceq desktop'.dropped[d]
                               /\ desktop'.received[d] \in {Zero, D.received[d]}
    BY <1>2, <1>7, <2>4
  <2> QED BY <1>4, <2>2, <2>3, <2>5, <2>6, <2>7, <2>8 DEF D, F
<1>8. CASE /\ D.pending # <<>> /\ (Needs(op) => Named(D, op) # {})
           /\ desktop' = E /\ held' = H
           /\ owed' = (IF op.kind = "readback" THEN owed \union {op.anchor} ELSE owed)
           /\ taking' = {[op |-> op, returned |-> Returns(D), failed |-> FALSE]}
           /\ ReleaseAll(Live \ Owners(E, F, H))
  <2>1. D.pending \in Seq(Op) BY <1>2 DEF DesktopRecord
  <2>2. op \in Op /\ Tail(D.pending) \in Seq(Op) /\ op = D.pending[1] /\ 1 \in DOMAIN D.pending
    BY <1>8, <2>1, TailOf
  <2>3. /\ Among(Tail(D.pending), desktop.pending)
        /\ Len(Tail(D.pending)) = Len(D.pending) - 1
    BY <1>2, <1>8, <2>1, AmongTail
  <2>4. Len(D.pending) \in Nat /\ Len(desktop.pending) \in Nat BY <1>1, <2>1 DEF DesktopRecord
  <2>5. Returns(D) \in BOOLEAN BY DEF Returns
  <2>6. op.kind \in OpKinds /\ op.anchor \in Pair /\ op.anchor[1] \in Nat
    BY <2>2, OpType DEF Pair
  <2>7. /\ Taken(D) \in DesktopRecord /\ Taken(D).resources \subseteq D.resources
        /\ Taken(D).pending = Tail(D.pending)
        /\ \A d \in Drawable : /\ D.dropped[d] \preceq Taken(D).dropped[d]
                               /\ Taken(D).received[d] \in {Zero, D.received[d]}
    BY <1>2, <1>3, <1>8, TakenIs
  <2> DEFINE a == IF Returns(D) THEN op.anchor[1] ELSE Taken(D).anchor
             X == Taken(D)
  <2>8. a \in Nat BY <2>5, <2>6, <2>7 DEF DesktopRecord
  <2>9. E = [X EXCEPT !.anchor = a] OBVIOUS
  <2> HIDE DEF a, X
  <2>10. X \in DesktopRecord BY <2>7 DEF X
  <2>11. [X EXCEPT !.anchor = a] \in DesktopRecord
         /\ [X EXCEPT !.anchor = a].resources = X.resources
         /\ [X EXCEPT !.anchor = a].pending = X.pending
         /\ [X EXCEPT !.anchor = a].dropped = X.dropped
         /\ [X EXCEPT !.anchor = a].received = X.received
    BY <2>8, <2>10 DEF DesktopRecord
  <2>12. /\ desktop' \in DesktopRecord /\ desktop'.resources \subseteq D.resources
         /\ desktop'.pending = Tail(D.pending)
         /\ \A d \in Drawable : /\ D.dropped[d] \preceq desktop'.dropped[d]
                                /\ desktop'.received[d] \in {Zero, D.received[d]}
    <3>1. desktop' = [X EXCEPT !.anchor = a] BY <1>8, <2>9
    <3> HIDE DEF E, D
    <3> QED BY <2>7, <2>11, <3>1 DEF X
  <2>13. HandedOver(op) \subseteq desktop.resources \union PendingLeases(desktop.pending)
    <3>1. CASE op.kind \in CpuKinds
      <4>1. HandedOver(op) = {op.lease} BY <3>1 DEF HandedOver
      <4>2. op.lease \in PendingLeases(D.pending)
        <5> HIDE DEF D, op
        <5> QED BY <2>2, <3>1 DEF PendingLeases, CpuKinds
      <4>3. PendingLeases(D.pending) \subseteq PendingLeases(desktop.pending)
        BY <1>2, PendingAmong
      <4> QED BY <4>1, <4>2, <4>3
    <3>2. CASE op.kind = "blit"
      <4>1. HandedOver(op) = {op.lease} BY <3>2 DEF HandedOver
      <4>2. Named(D, op) # {} BY <1>8, <3>2 DEF Needs
      <4>3. op.lease \in D.resources BY <4>2 DEF Named
      <4> QED BY <1>2, <4>1, <4>3
    <3>3. CASE op.kind \notin CpuKinds \union {"blit"} BY <3>3 DEF HandedOver
    <3> QED BY <3>1, <3>2, <3>3
  <2>14. IsFiniteSet(H)
    <3>1. HandedOver(op) = {op.lease} \/ HandedOver(op) = {} BY DEF HandedOver
    <3>2. IsFiniteSet(HandedOver(op))
      <4>1. IsFiniteSet({op.lease}) /\ IsFiniteSet({}) BY FS_Singleton, FS_EmptySet
      <4> QED BY <3>1, <4>1
    <3> DEFINE T == HandedOver(op)
    <3> HIDE DEF T
    <3>3. IsFiniteSet(held \union T) BY <1>6, <3>2, FS_Union DEF T
    <3> QED BY <3>3 DEF T
  <2>15. H \subseteq Live \union held BY <2>13, LiveIs
  <2>16. H \cap F.latest = {} BY <1>5, <1>6, <2>13 DEF LatestAlone
  <2>17. owed' \subseteq Pair BY <1>8, <2>6, ConsumerType
  <2>18. Owners(E, F, H) = Live' BY <1>4, <1>8 DEF Live, Owners
  <2>19. ReleaseAll(Live \ Live') BY <1>8, <2>18
  <2>20. \E t : taking' = {t} /\ t.returned \in BOOLEAN
    <3> DEFINE t == [op |-> op, returned |-> Returns(D), failed |-> FALSE]
    <3>1. taking' = {t} /\ t.returned \in BOOLEAN BY <1>8, <2>5
    <3> HIDE DEF t
    <3> QED BY <3>1
  <2>21. /\ Among(desktop'.pending, desktop.pending)
         /\ Len(desktop'.pending) <= Len(desktop.pending)
    <3> HIDE DEF D
    <3> QED BY <1>2, <2>3, <2>4, <2>12
  <2>22. held \subseteq held' /\ held' \subseteq Live \union held /\ IsFiniteSet(held')
         /\ held' \cap frames'.latest = {}
    BY <1>4, <1>8, <2>14, <2>15, <2>16
  <2> HIDE DEF D, F, H, E
  <2> QED BY <1>4, <2>12, <2>17, <2>19, <2>20, <2>21, <2>22 DEF D, F
<1> QED BY <1>4, <1>7, <1>8

LEMMA UpdateStep == ASSUME FramesInv, Update PROVE FramesStep
<1>1. TakeUpdate /\ UNCHANGED wire /\ Untouched BY DEF Update
<1>2. /\ desktop' \in DesktopRecord /\ desktop'.resources \subseteq Swept.D.resources
      /\ Among(desktop'.pending, desktop.pending)
      /\ Len(desktop'.pending) <= Len(desktop.pending)
      /\ held' \subseteq Live \union held /\ IsFiniteSet(held') /\ held' \cap frames'.latest = {}
      /\ owed' \subseteq Pair /\ ReleaseAll(Live \ Live')
      /\ \E t : taking' = {t} /\ t.returned \in BOOLEAN
      /\ frames' = RetiredFrames(Swept.retired)
      /\ UNCHANGED <<order, leased, active, waiting, signal>>
  BY <1>1, TakeUpdateIs
<1>3. desktop \in DesktopRecord BY DesktopIn, ConsumerType
<1>4. desktop'.resources \subseteq desktop.resources BY <1>2, <1>3, SweptIs
<1>5. /\ frames' \in [latest : SUBSET ImageLease, owner : SUBSET ImageLease,
                      windows : SUBSET ImageLease]
      /\ frames'.latest \subseteq frames.latest /\ frames'.windows \subseteq frames.windows
  BY <1>2, ConsumerType, RetiredFramesIs
<1>6. PendingLeases(desktop'.pending) \subseteq PendingLeases(desktop.pending)
  BY <1>2, PendingAmong
<1>7. Live' \subseteq Live /\ held' \subseteq Live BY <1>2, <1>4, <1>5, <1>6, LiveIs
<1> DEFINE S == Live \ Live'
<1>8. S \subseteq AnyLease /\ IsFiniteSet(S) /\ \A x \in S : Token(x) \in Granted
  BY LiveType, FS_Subset
<1>9. Released(S) /\ closed' \in BOOLEAN BY <1>2, <1>8, ReleasedAll
<1>10. Len(desktop'.pending) <= MaxPending
  <2>1. /\ desktop.pending \in Seq(Op) /\ desktop'.pending \in Seq(Op)
    BY <1>2, <1>3 DEF DesktopRecord
  <2>2. /\ Len(desktop.pending) \in Nat /\ Len(desktop'.pending) \in Nat /\ MaxPending \in Nat
        /\ Len(desktop.pending) <= MaxPending
    BY <2>1, ConsumerType, TransportAssumption
  <2> QED BY <1>2, <2>2
<1>11. /\ IsFiniteSet(desktop'.resources) /\ IsFiniteSet(frames'.latest)
       /\ IsFiniteSet(frames'.windows)
  BY <1>4, <1>5, ConsumerType, FS_Subset
<1>12. DesktopShape' BY <1>2 DEF DesktopShape, DesktopRecord
<1>13. held' \subseteq AnyLease BY <1>7, LiveType
<1>14. ConsumerShape'
  BY <1>2, <1>5, <1>9, <1>10, <1>11, <1>12, <1>13, ConsumerType DEF ConsumerShape
<1>15. LatestAlone' BY <1>2, <1>4, <1>5, <1>6, ConsumerType DEF LatestAlone
<1> HIDE DEF S
<1>16. S \subseteq Live \ Live' BY DEF S
<1> QED BY <1>1, <1>7, <1>9, <1>14, <1>15, <1>16, OwnersStep

-----------------------------------------------------------------------------
(* The invariant holds at the start and through every step.                  *)

LEMMA InitInv == Init => FramesInv
<1> SUFFICES ASSUME Init PROVE FramesInv OBVIOUS
<1>1. /\ slots = [i \in Index |-> EmptySlot] /\ drawables = [d \in Drawable |-> EmptyDrawable]
      /\ next_epoch = 0 /\ output = [items |-> <<>>, pending |-> 0, desktop |-> 0]
      /\ sending = {}
  BY DEF Init, PublicationInit
<1>2. /\ desktop = [resources |-> {}, pending |-> <<>>, wire_epoch |-> 0, revision |-> 0,
                    epoch |-> 0, sequence |-> 0, next_epoch |-> 1, anchor |-> 0,
                    dropped |-> [d \in Drawable |-> Zero],
                    received |-> [d \in Drawable |-> Zero]]
      /\ order = [epoch |-> 0, generations |-> [d \in Drawable |-> 0]]
      /\ leased = {} /\ releases = <<>> /\ held = {} /\ owed = {}
      /\ frames = [latest |-> {}, owner |-> {}, windows |-> {}]
      /\ active = FALSE /\ taking = {} /\ waiting = FALSE /\ signal = FALSE /\ closed = FALSE
  BY DEF Init, TransportInit
<1>3. /\ cpu = [c \in CPU |-> EmptyCpu] /\ reply = NoReply
      /\ separate \in BOOLEAN /\ unix = <<>> /\ mach = <<>> /\ back = <<>>
      /\ stream = [epoch |-> 0, sequence |-> 0, seeded |-> FALSE, queued |-> 0] /\ refs = {}
  BY DEF Init, CpuInit
<1>4. MaxEpoch \in Nat /\ MaxGeneration \in Nat /\ MaxOps \in Nat /\ MaxPending \in Nat
  BY PublicationLimits, FramesAssumption, TransportAssumption
<1>5. \A X : <<>> \in Seq(X) /\ Len(<<>>) = 0 /\ DOMAIN <<>> = {} OBVIOUS
<1>6. IsFiniteSet({}) /\ Cardinality({}) = 0 BY FS_EmptySet
<1>7. ProducerShape
  <2>1. EmptySlot \in Slot BY <1>4 DEF EmptySlot, Slot, Image
  <2>2. EmptyDrawable \in Registered BY <1>4 DEF EmptyDrawable, Registered, Pair
  <2>3. EmptyCpu \in Allocation /\ NoReply \in Reply BY DEF EmptyCpu, Allocation, NoReply, Reply
  <2>4. slots \in [Index -> Slot] /\ drawables \in [Drawable -> Registered]
        /\ cpu \in [CPU -> Allocation]
    BY <1>1, <1>3, <2>1, <2>2, <2>3
  <2>5. output \in [items : Seq(Job), pending : Int, desktop : Int] BY <1>1, <1>5
  <2>6. stream \in [epoch : Nat, sequence : Nat, seeded : BOOLEAN, queued : Nat] BY <1>3
  <2> QED BY <1>1, <1>3, <1>4, <2>3, <2>4, <2>5, <2>6 DEF ProducerShape
<1>8. WireShape BY <1>2, <1>3, <1>5 DEF WireShape
<1>9. DesktopShape
  <2>1. Zero \in Pair BY DEF Zero, Pair
  <2> DEFINE z == [d \in Drawable |-> Zero]
  <2>2. z \in [Drawable -> Pair] BY <2>1
  <2> HIDE DEF z
  <2>3. desktop = [resources |-> {}, pending |-> <<>>, wire_epoch |-> 0, revision |-> 0,
                   epoch |-> 0, sequence |-> 0, next_epoch |-> 1, anchor |-> 0,
                   dropped |-> z, received |-> z]
    BY <1>2 DEF z
  <2> QED BY <1>5, <2>2, <2>3 DEF DesktopShape
<1>10. /\ desktop.resources = {} /\ desktop.pending = <<>>
       /\ frames.latest = {} /\ frames.windows = {}
  BY <1>2
<1>11. ConsumerShape
  <2>1. /\ frames \in [latest : SUBSET ImageLease, owner : SUBSET ImageLease,
                       windows : SUBSET ImageLease]
    BY <1>2
  <2>2. order \in [epoch : Nat, generations : [Drawable -> Nat]] BY <1>2
  <2>3. Len(desktop.pending) <= MaxPending BY <1>4, <1>5, <1>10
  <2> QED BY <1>2, <1>6, <1>9, <1>10, <2>1, <2>2, <2>3 DEF ConsumerShape
<1>12. PendingLeases(<<>>) = {} BY <1>5 DEF PendingLeases
<1>13. Live = {} BY <1>2, <1>10, <1>12, LiveIs
<1>14. Custody
  <2>1. \A i : /\ ~Has(unix, i) /\ ~Has(mach, i) /\ ~Has(releases, i) /\ ~Has(back, i)
               /\ Once(unix, i) /\ Once(mach, i) /\ Once(releases, i) /\ Once(back, i)
    BY <1>2, <1>3, HasNone
  <2>2. output.items = <<>> BY <1>1
  <2>3. \A i : OnceJob(output.items, i) /\ ~Queued(i) BY <2>2, HasNone DEF Queued
  <2>4. \A i : ~InHand(i) /\ ~Leased(i) BY <1>1, <1>13 DEF InHand, Leased
  <2>5. \A i \in Buf : Alone(i) BY <2>1, <2>3, <2>4 DEF Alone
  <2>6. Ownership BY <1>1, <1>2, <1>3, <1>13, <2>2 DEF Ownership, Backed
  <2> QED BY <2>5, <2>6 DEF Custody
<1>15. SlotsSound
  <2>1. \A i \in Index : slots[i] = EmptySlot BY <1>1
  <2>2. \A i \in Index : SlotSound(i) BY <2>1 DEF SlotSound, EmptySlot
  <2>3. \A d \in Drawable : ~drawables[d].live BY <1>1 DEF EmptyDrawable
  <2>4. DOMAIN output.items = {} BY <1>1
  <2> QED BY <1>1, <2>2, <2>3, <2>4 DEF SlotsSound
<1>16. Bounded
  <2>1. \A c \in CPU : ~cpu[c].published BY <1>3 DEF EmptyCpu
  <2>2. stream.epoch = 0 /\ stream.queued = 0 /\ stream.seeded = FALSE BY <1>3
  <2> QED BY <1>3, <1>4, <2>1, <2>2 DEF Bounded
<1>17. LatestAlone BY <1>10 DEF LatestAlone
<1>18. Counts
  <2>1. output.items = <<>> /\ output.pending = 0 /\ output.desktop = 0 BY <1>1
  <2>2. DesktopJobs(output.items) = {} BY <1>5, <2>1 DEF DesktopJobs
  <2>3. {s \in sending : ~s.job.slot} = {} BY <1>1
  <2>4. Cardinality({s \in sending : ~s.job.slot}) = 0 BY <1>6, <2>3
  <2>5. Cardinality(DesktopJobs(output.items)) = 0 BY <1>6, <2>2
  <2>6. Len(output.items) = 0 BY <1>5, <2>1
  <2>7. Cardinality(sending) = 0 BY <1>1, <1>6
  <2> QED BY <2>1, <2>4, <2>5, <2>6, <2>7 DEF Counts
<1> QED BY <1>7, <1>8, <1>11, <1>14, <1>15, <1>16, <1>17, <1>18 DEF FramesInv

LEMMA StutterStep == ASSUME FramesInv, UNCHANGED vars PROVE FramesStep
<1>1. /\ UNCHANGED <<slots, drawables, next_epoch, output, sending, cpu, reply, stream, refs>>
      /\ UNCHANGED wire
      /\ UNCHANGED <<desktop, order, leased, releases, frames, held, owed, active, taking,
                     waiting, signal, closed>>
  BY DEF vars, producer, consumer, external
<1>2. Untouched BY DEF Untouched, vars
<1>3. ConsumerShape' /\ LatestAlone'
  BY <1>1, ConsumerType DEF ConsumerShape, DesktopShape, LatestAlone
<1>4. Live' = Live BY <1>1, LiveSame
<1>5. Released({}) BY <1>1, ReleasedNone
<1> QED BY <1>1, <1>2, <1>3, <1>4, <1>5, OwnersStep

LEMMA NextStep == FramesInv /\ [Next]_vars => FramesStep
<1> SUFFICES ASSUME FramesInv, [Next]_vars PROVE FramesStep OBVIOUS
<1>1. CASE Guest
  <2>1. CASE NewDrawable BY <2>1, NewDrawableStep
  <2>2. CASE Begin BY <2>2, BeginStep
  <2>3. CASE GiveUp BY <2>3, GiveUpStep
  <2>4. CASE \E image \in Images : PresentImage(image)
    <3>1. PICK image \in Images : PresentImage(image) BY <2>4
    <3> QED BY <3>1, PresentStep
  <2>5. CASE \E kind \in CpuKinds : CpuRecord(kind)
    <3>1. PICK kind \in CpuKinds : CpuRecord(kind) BY <2>5
    <3> QED BY <3>1, CpuRecordStep
  <2>6. CASE CpuMemoryFails BY <2>6, CpuMemoryStep
  <2>7. CASE Paint BY <2>7, PaintStep
  <2>8. CASE Blit BY <2>8, BlitStep
  <2>9. CASE Discard BY <2>9, DiscardStep
  <2>10. CASE Readback BY <2>10, ReadbackStep
  <2>11. CASE ReadbackEnds BY <2>11, ReadbackEndsStep
  <2>12. CASE FreeDrawable BY <2>12, FreeDrawableStep
  <2>13. CASE DeviceReset BY <2>13, DeviceResetStep
  <2> QED
    BY <1>1, <2>1, <2>2, <2>3, <2>4, <2>5, <2>6, <2>7, <2>8, <2>9, <2>10, <2>11, <2>12, <2>13
    DEF Guest
<1>2. CASE OutputThread
  BY <1>2, PopStep, PublishStep, SendStep, SettleStep DEF OutputThread
<1>3. CASE ReceiveBack BY <1>3, ReceiveBackStep
<1>4. CASE Sdk
  <2>1. CASE MachReceive BY <2>1, MachStep
  <2>2. CASE UnixReceive BY <2>2, UnixStep
  <2>3. CASE ReceiverSleeps BY <2>3, SleepsStep
  <2>4. CASE ReceiverWakes BY <2>4, WakesStep
  <2>5. CASE Update BY <2>5, UpdateStep
  <2>6. CASE Finish BY <2>6, FinishStep
  <2>7. CASE Answer BY <2>7, AnswerStep
  <2>8. CASE Frame BY <2>8, FrameStep
  <2>9. CASE Windows BY <2>9, WindowsStep
  <2>10. CASE Drop BY <2>10, DropStep
  <2>11. CASE CpuFrame BY <2>11, CpuFrameStep
  <2>12. CASE Write BY <2>12, WriteStep
  <2> QED
    BY <1>4, <2>1, <2>2, <2>3, <2>4, <2>5, <2>6, <2>7, <2>8, <2>9, <2>10, <2>11, <2>12 DEF Sdk
<1>5. CASE Hangup BY <1>5, HangupStep
<1>6. CASE UNCHANGED vars BY <1>6, StutterStep
<1> QED BY <1>1, <1>2, <1>3, <1>4, <1>5, <1>6 DEF Next

LEMMA InvKept == FramesInv /\ [Next]_vars => FramesInv'
BY NextStep DEF FramesStep

(* The invariant gives each part of the property.                            *)
LEMMA InvSound == FramesInv => PublicationSound
<1> SUFFICES ASSUME FramesInv PROVE TypeOK /\ AssertionsHold /\ LeasesBacked
  BY DEF PublicationSound
<1>1. ProducerShape /\ WireShape /\ ConsumerShape /\ SlotsSound /\ Counts
  BY DEF FramesInv
<1>2. MaxEpoch \in Nat /\ MaxGeneration \in Nat BY PublicationLimits
<1>3. Live \subseteq AnyLease /\ \A l \in Live : Token(l) \in Granted BY LiveType
<1>4. Cardinality(sending) <= 1
  <2>1. CASE sending = {} BY <2>1, FS_EmptySet
  <2>2. CASE \E s : sending = {s} BY <2>2, FS_Singleton
  <2> QED BY <1>1, <2>1, <2>2 DEF ProducerShape
<1>5. Cardinality(taking) <= 1
  <2>1. CASE taking = {} BY <2>1, FS_EmptySet
  <2>2. CASE \E t : taking = {t} BY <2>2, FS_Singleton
  <2> QED BY <1>1, <2>1, <2>2 DEF ConsumerShape
<1>6. TypeOK
  <2>1. \A i \in Index : /\ slots[i].state \in {"free", "rendering", "pending", "published"}
                         /\ slots[i].generation \in 0..MaxGeneration
    BY <1>1 DEF ProducerShape, Slot
  <2>2. \A l \in Live : l.d \in Drawable \union CPU
    BY <1>3 DEF AnyLease, ImageLease, CpuLease
  <2>3. /\ next_epoch \in 0..MaxEpoch
        /\ leased \subseteq (1..(MaxEpoch + MaxOps)) \X (Index \union CPU)
        /\ {active, waiting, signal, closed, separate} \subseteq BOOLEAN
        /\ Len(desktop.pending) <= MaxPending
    BY <1>1 DEF ProducerShape, WireShape, ConsumerShape, Buf
  <2> QED BY <1>4, <1>5, <2>1, <2>2, <2>3 DEF TypeOK
<1>7. AssertionsHold
  <2>1. ASSUME NEW s \in sending, s.job.slot
        PROVE  IF s.stage = "popped" THEN slots[s.job.index].state = "pending"
               ELSE slots[s.job.index].state = "published" /\ slots[s.job.index].sending
    BY <1>1, <2>1 DEF SlotsSound, HeldBy
  <2> QED BY <1>1, <2>1 DEF AssertionsHold, Counts, DesktopJobs
<1>8. LeasesBacked
  <2> SUFFICES ASSUME NEW l \in Live, l.d \in Drawable
               PROVE  /\ slots[l.index].state = "published" /\ slots[l.index].epoch = l.epoch
                      /\ slots[l.index].generation = l.generation
    BY DEF LeasesBacked
  <2>1. l \in ImageLease
    <3>1. l \notin CpuLease BY IndexAssumption DEF CpuLease
    <3> QED BY <1>3, <3>1 DEF AnyLease
  <2>2. l.index \notin CPU BY <2>1, Apart
  <2>3. Token(l) \in Granted /\ Token(l)[1] = l.index /\ Token(l)[2] = l.epoch
        /\ Token(l)[3] = l.generation
    BY <1>3 DEF Token
  <2> QED BY <2>2, <2>3 DEF Granted
<1> QED BY <1>6, <1>7, <1>8

(* Image publication is sound, whatever the numbers of drawables, slots and  *)
(* CPU allocations: the types of both sides hold, no assertion of            *)
(* publication.rs or worker.rs fails, and the slot of every image the SDK    *)
(* leases is still published under the identity the SDK knows.               *)
THEOREM PublicationCorrect == Spec => []PublicationSound
<1>1. Init => FramesInv BY InitInv
<1>2. FramesInv /\ [Next]_vars => FramesInv' BY InvKept
<1>3. FramesInv => PublicationSound BY InvSound
<1> QED BY <1>1, <1>2, <1>3, PTL DEF Spec

-----------------------------------------------------------------------------
(* The contract: who holds a buffer, said by the places.                     *)

Reading(i) == Has(unix, i) \/ Has(mach, i) \/ Leased(i)
Writing(i) == \/ Queued(i) \/ InHand(i)
              \/ i \in Index /\ slots[i].state \in {"rendering", "pending"}

HolderSound(i) ==
    /\ ~Taken1(i) => ~Reading(i) /\ ~Queued(i) /\ ~InHand(i)
    /\ Reading(i) => ~Writing(i) /\ Kept(i)
    /\ Holder(i) = IF ~Taken1(i) THEN "free" ELSE IF Reading(i) THEN "read"
                   ELSE IF Writing(i) THEN "written" ELSE "returned"

LEMMA HolderNow == FramesInv => \A i \in Buf : HolderSound(i)
<1> SUFFICES ASSUME FramesInv, NEW i \in Buf PROVE HolderSound(i) OBVIOUS
<1>1. i \in Index \union CPU /\ (i \in Index <=> i \notin CPU) BY Apart DEF Buf
<1>2. Alone(i) BY DEF FramesInv, Custody
<1>3. /\ \A k \in DOMAIN unix : unix[k] \in ImageMsg \union Op
      /\ \A k \in DOMAIN mach : mach[k] \in ImageMsg
  BY DEF FramesInv, WireShape
<1>4. \A m \in ImageMsg : m.kind \in Image BY DEF ImageMsg
<1>5. \A m \in Op : m.kind \in OpKinds BY OpType
<1>6. Travelling(i) <=> Has(unix, i) \/ Has(mach, i)
  <2>1. Image \cap CpuKinds = {} /\ "release" \notin Image \union CpuKinds \union OpKinds
    BY DEF Image, CpuKinds, OpKinds
  <2>2. \A m \in ImageMsg \union Op :
           About(m, i) <=> \/ m.kind \in Image /\ m.index = i
                           \/ m.kind \in CpuKinds /\ m.lease.index = i
    BY <1>4, <1>5, <2>1 DEF About, Bears, Of
  <2>3. \A m \in ImageMsg : About(m, i) <=> m.index = i
    BY <1>4, <2>1 DEF About, Bears, Of
  <2> QED BY <1>3, <2>2, <2>3 DEF Travelling, Has
<1>7. Reading(i) <=> Travelling(i) \/ \E l \in Live : l.index = i
  BY <1>6 DEF Reading, Leased
<1>8. ASSUME NEW j \in Job, ~j.slot
      PROVE  JobFor(j, i) <=> j.op.kind \in CpuKinds /\ j.op.lease.index = i
  <2>1. j.op \in Op /\ j.op.kind \in OpKinds BY <1>8, JobType, OpType
  <2>2. Bears(j.op) <=> j.op.kind \in CpuKinds
    BY <2>1 DEF Bears, OpKinds, Image, CpuKinds
  <2> QED BY <1>8, <2>2 DEF JobFor, About, Of
<1>9. InHand(i) <=> \E s \in sending : /\ s.stage # "sent"
                                       /\ IF s.job.slot THEN s.job.index = i
                                          ELSE s.job.op.kind \in CpuKinds /\ s.job.op.lease.index = i
  <2>1. \A s \in sending : s.job \in Job BY JobWhere
  <2>2. \A s \in sending : JobFor(s.job, i) <=>
           IF s.job.slot THEN s.job.index = i
           ELSE s.job.op.kind \in CpuKinds /\ s.job.op.lease.index = i
    BY <1>8, <2>1 DEF JobFor
  <2> QED BY <2>2 DEF InHand
<1>10. Unsent(i) => Queued(i) \/ InHand(i)
  BY <1>8, <1>9, JobWhere DEF Unsent, Queued, HasJob
<1>11. Queued(i) => Unsent(i) \/ (i \in Index /\ slots[i].state = "pending")
  <2> SUFFICES ASSUME NEW k \in DOMAIN output.items, JobFor(output.items[k], i)
               PROVE  Unsent(i) \/ (i \in Index /\ slots[i].state = "pending")
    BY DEF Queued, HasJob
  <2>1. CASE i \in CPU
    <3>1. output.items[k] \in Job /\ ~output.items[k].slot BY <2>1, JobWhere
    <3> QED BY <1>8, <3>1 DEF Unsent
  <2>2. CASE i \notin CPU BY <2>2, JobWhere
  <2> QED BY <2>1, <2>2
<1>12. Writing(i) <=> Unsent(i) \/ (i \in Index /\ slots[i].state \in {"rendering", "pending"})
  BY <1>9, <1>10, <1>11 DEF Writing, Unsent
<1>13. Reading(i) => Kept(i) /\ ~Writing(i)
  <2>1. Reading(i) => Kept(i) BY PlacedKept, GrantedKept DEF Reading
  <2>2. Reading(i) => ~Queued(i) /\ ~InHand(i) BY <1>2 DEF Alone, Reading
  <2> QED BY <1>1, <2>1, <2>2 DEF Writing, Kept
<1>14. ~Taken1(i) => ~Reading(i) /\ ~Queued(i) /\ ~InHand(i)
  <2>1. CASE i \in CPU BY <2>1, FreshNowhere DEF Fresh, Taken1, Reading
  <2>2. CASE i \notin CPU
    <3> SUFFICES ASSUME slots[i].state = "free" PROVE ~Reading(i) /\ ~Queued(i) /\ ~InHand(i)
      BY <2>2 DEF Taken1
    <3>1. ~Reading(i) BY <1>13, <2>2 DEF Kept
    <3>2. ~Queued(i) BY <2>2, JobWhere DEF Queued, HasJob
    <3>3. ~InHand(i)
      <4> SUFFICES ASSUME NEW s \in sending, JobFor(s.job, i) PROVE FALSE BY DEF InHand
      <4>1. s.job = SlotJob(i) /\ HeldBy(s) BY <2>2, JobWhere
      <4>2. s.job.index = i BY <4>1 DEF SlotJob
      <4> QED BY <4>1, <4>2 DEF HeldBy
    <3> QED BY <3>1, <3>2, <3>3
  <2> QED BY <2>1, <2>2
<1>15. Holder(i) = IF ~Taken1(i) THEN "free" ELSE IF Reading(i) THEN "read"
                   ELSE IF Writing(i) THEN "written" ELSE "returned"
  <2> DEFINE a == ~Taken1(i)
             b == Travelling(i) \/ \E l \in Live : l.index = i
             c == Unsent(i) \/ (i \in Index /\ slots[i].state \in {"rendering", "pending"})
  <2>1. /\ Reading(i) <=> b
        /\ Writing(i) <=> c
        /\ a => ~b /\ ~c
        /\ b => ~c
    BY <1>1, <1>7, <1>12, <1>13, <1>14 DEF Writing, Taken1
  <2>2. Holder(i) = CASE a -> "free" [] b -> "read" [] c -> "written" [] OTHER -> "returned"
    BY DEF Holder
  <2> HIDE DEF a, b, c
  <2>3. Holder(i) = IF a THEN "free" ELSE IF b THEN "read" ELSE IF c THEN "written" ELSE "returned"
    BY <2>1, <2>2
  <2> QED BY <2>1, <2>3 DEF a
<1> QED BY <1>13, <1>14, <1>15 DEF HolderSound

LEMMA HolderNext == FramesInv' => (\A i \in Buf : HolderSound(i))'
BY HolderNow, PTL

LEMMA HolderInit == Init => \A i \in Buf : Holder(i) = "free"
<1> SUFFICES ASSUME Init, NEW i \in Buf PROVE Holder(i) = "free" OBVIOUS
<1>1. slots = [j \in Index |-> EmptySlot] /\ cpu = [c \in CPU |-> EmptyCpu]
  BY DEF Init, PublicationInit, CpuInit
<1>2. ~Taken1(i) BY <1>1 DEF Taken1, Buf, EmptySlot, EmptyCpu
<1>3. HolderSound(i) BY InitInv, HolderNow
<1> QED BY <1>2, <1>3 DEF HolderSound

(* Every step hands a buffer on as the contract says, or leaves it.          *)
LEMMA HandsOn ==
    FramesInv /\ [Next]_vars =>
        \A i \in Buf : Holder(i)' = Holder(i) \/ <<Holder(i), Holder(i)'>> \in Contract!Handover
<1> SUFFICES ASSUME FramesInv, [Next]_vars, NEW i \in Buf
             PROVE  Holder(i)' = Holder(i) \/ <<Holder(i), Holder(i)'>> \in Contract!Handover
  OBVIOUS
<1>1. FramesInv' /\ Flows(i) /\ Turns(i) BY NextStep DEF FramesStep
<1>2. HolderSound(i) /\ HolderSound(i)' BY <1>1, HolderNow, HolderNext
<1>3. i \in Index \union CPU /\ (i \in Index <=> i \notin CPU) BY Apart DEF Buf
<1>4. i \in Index => slots[i].state \in {"free", "rendering", "pending", "published"}
                     /\ slots'[i].state \in {"free", "rendering", "pending", "published"}
  BY <1>1, SlotType DEF FramesInv, ProducerShape
<1>5. CASE Holder(i) = "free"
  <2>1. ~Taken1(i) BY <1>2, <1>5 DEF HolderSound
  <2>2. ~Reading(i)' /\ ~InHand(i)' BY <1>1, <1>2, <2>1 DEF HolderSound, Flows, Reading
  <2>3. Taken1(i)' => Writing(i)'
    <3>1. CASE i \in CPU BY <1>1, <2>1, <3>1 DEF Turns, Taken1, Writing
    <3>2. CASE i \notin CPU
      BY <1>1, <1>3, <2>1, <3>2 DEF Turns, Taken1, Writing
    <3> QED BY <3>1, <3>2
  <2>4. Holder(i)' \in {"free", "written"} BY <1>2, <2>2, <2>3 DEF HolderSound
  <2> QED BY <1>5, <2>4 DEF Contract!Handover
<1>6. CASE Holder(i) = "read"
  <2>1. Reading(i) /\ Kept(i)
    <3>1. Taken1(i) /\ Reading(i) BY <1>2, <1>6 DEF HolderSound
    <3> QED BY <1>2, <3>1 DEF HolderSound
  <2>2. ~Queued(i) /\ ~InHand(i) BY <1>2, <2>1 DEF HolderSound, Writing
  <2>3. Kept(i)' BY <1>1, <2>1 DEF Turns, Reading
  <2>4. ~Fresh(i) BY <2>1 DEF Fresh, Kept
  <2>5. ~Queued(i)' /\ ~InHand(i)' BY <1>1, <2>2, <2>4 DEF Flows
  <2>6. Taken1(i)' BY <2>3 DEF Taken1, Kept
  <2>7. ~Writing(i)' BY <1>3, <2>3, <2>5 DEF Writing, Kept
  <2>8. Holder(i)' \in {"read", "returned"} BY <1>2, <2>6, <2>7 DEF HolderSound
  <2> QED BY <1>6, <2>8 DEF Contract!Handover
<1>7. CASE Holder(i) = "returned"
  <2>1. Taken1(i) /\ ~Reading(i) /\ ~Writing(i) BY <1>2, <1>7 DEF HolderSound
  <2>2. ~Fresh(i) BY <1>3, <2>1 DEF Fresh, Taken1, Writing
  <2>3. ~Reading(i)' /\ ~Queued(i)' /\ ~InHand(i)'
    BY <1>1, <2>1, <2>2 DEF Flows, Reading, Writing
  <2>4. ~Writing(i)'
    <3>1. CASE i \in CPU BY <1>3, <2>3, <3>1 DEF Writing
    <3>2. CASE i \notin CPU
      <4>1. slots[i].state = "published" BY <1>3, <1>4, <2>1, <3>2 DEF Taken1, Writing
      <4>2. slots'[i].state \in {"free", "published"} BY <1>1, <3>2, <4>1 DEF Turns
      <4> QED BY <2>3, <4>2 DEF Writing
    <3> QED BY <3>1, <3>2
  <2>5. Holder(i)' \in {"free", "returned"} BY <1>2, <2>3, <2>4 DEF HolderSound
  <2> QED BY <1>7, <2>5 DEF Contract!Handover
<1>8. CASE Holder(i) = "written"
  <2>1. Holder(i)' \in {"free", "read", "written", "returned"} BY <1>2 DEF HolderSound
  <2> QED BY <1>8, <2>1 DEF Contract!Handover
<1>9. Holder(i) \in {"free", "read", "written", "returned"} BY <1>2 DEF HolderSound
<1> QED BY <1>5, <1>6, <1>7, <1>8, <1>9

(* Image slots and CPU allocations are exchanged as LeaseContract says: the  *)
(* device writes a buffer again only after the SDK gave it back and the      *)
(* device learnt of it.                                                      *)
THEOREM ExchangeCorrect == Spec => ExchangesBuffers
<1>1. Init => Contract!LeaseInit
  <2> SUFFICES ASSUME Init PROVE Contract!LeaseInit OBVIOUS
  <2>1. \A i \in Index \union CPU : Holder(i) = "free" BY HolderInit DEF Buf
  <2> QED BY <2>1 DEF Contract!LeaseInit
<1>2. FramesInv /\ [Next]_vars => [Contract!LeaseNext]_[i \in Index \union CPU |-> Holder(i)]
  <2> SUFFICES ASSUME FramesInv, [Next]_vars PROVE Contract!LeaseNext OBVIOUS
  <2>1. \A i \in Index \union CPU :
           Holder(i)' = Holder(i) \/ <<Holder(i), Holder(i)'>> \in Contract!Handover
    BY HandsOn DEF Buf
  <2> QED BY <2>1 DEF Contract!LeaseNext
<1> QED
  BY InitInv, InvKept, <1>1, <1>2, PTL DEF Spec, ExchangesBuffers, Contract!LeaseSpec

-----------------------------------------------------------------------------
(* Nothing stale.  A cutoff that was carried out is remembered, as the       *)
(* tombstone of its drawable or by the identity last received for it: so no  *)
(* image up to it is taken any more.                                         *)

Got(d) == <<order.epoch, order.generations[d]>>
Remembered(D, d, x) == x \preceq D.dropped[d] \/ x \preceq Got(d)

RetireInv ==
    /\ past \in [cutoff : [Drawable -> Pair], authority : {"cpu", "gpu"}]
    /\ \A d \in Drawable : /\ Remembered(desktop, d, past.cutoff[d])
                           /\ desktop.received[d] \preceq Got(d)
    /\ NoZombie

(* The descriptor kept for a reply is that of the request that waits.        *)
ReplyInv ==
    /\ reply.fd # 0 => reply.pending /\ reply.fd = reply.sequence
    /\ AnswerIsOwn

LEMMA GotType == ASSUME FramesInv PROVE \A d \in Drawable : Got(d) \in Pair
BY ConsumerType DEF Got, Pair

(* Steps that add no image and change no cutoff.                             *)
RetireStays ==
    /\ order' = order /\ past' \in [cutoff : [Drawable -> Pair], authority : {"cpu", "gpu"}]
    /\ past'.cutoff = past.cutoff
    /\ desktop'.dropped = desktop.dropped /\ desktop'.received = desktop.received
    /\ desktop'.resources \subseteq desktop.resources
    /\ frames'.windows \subseteq frames.windows /\ frames'.owner \subseteq frames.owner

LEMMA RetireKept == ASSUME RetireInv, RetireStays PROVE RetireInv'
<1>1. NoZombie' BY DEF RetireInv, RetireStays, NoZombie
<1>2. \A d \in Drawable : Got(d)' = Got(d) BY DEF RetireStays, Got
<1> QED BY <1>1, <1>2 DEF RetireInv, RetireStays, Remembered

LEMMA RetireSame == ASSUME RetireInv, UNCHANGED <<desktop, order, frames, past>> PROVE RetireInv'
<1>1. RetireStays BY DEF RetireInv, RetireStays
<1> QED BY <1>1, RetireKept

(* An image that is kept is later than what was received and than the cutoff.*)
LEMMA ReceiveRetire ==
    ASSUME FramesInv, RetireInv, NEW m \in ImageMsg, ReceiveImage(m), past' = past
    PROVE  RetireInv'
<1> DEFINE l == Lease(m)
           D == desktop
           R == ReceivedBy(D, m)
<1>1. CASE ImageFault(m) # {}
  <2>1. PICK reason \in ImageFault(m) : Refuse(reason) BY <1>1 DEF ReceiveImage
  <2>2. UNCHANGED <<desktop, order, frames, past>> BY <2>1 DEF Refuse
  <2> QED BY <2>2, RetireSame
<1>2. CASE ImageFault(m) = {}
  <2>1. /\ order' = [epoch |-> m.epoch,
                     generations |-> [d \in Drawable |->
                        IF d = m.d THEN m.generation
                        ELSE IF m.epoch # order.epoch THEN 0 ELSE order.generations[d]]]
        /\ IF Retired(D, m) THEN desktop' = R /\ frames' = frames ELSE KeepImage(m, l)
    BY <1>2 DEF ReceiveImage
  <2>2. /\ m.d \in Drawable /\ m.epoch \in Nat /\ m.generation \in Nat /\ m.kind \in Image
        /\ l.d = m.d /\ Id(l) = Id(m) /\ Id(m) = <<m.epoch, m.generation>> /\ Id(m) \in Pair
    BY ImageLeaseOf DEF Lease, Id, Pair
  <2>3. /\ order.epoch \in Nat /\ order.generations \in [Drawable -> Nat]
        /\ \A d \in Drawable : Got(d) \in Pair
    BY ConsumerType, GotType
  <2>4. ~(m.epoch < order.epoch)
        /\ ~(m.epoch = order.epoch /\ m.generation <= order.generations[m.d])
    <3>1. m.epoch < order.epoch => ImageFault(m) # {}
      BY DEF ImageFault
    <3>2. m.epoch = order.epoch /\ m.generation <= order.generations[m.d] => ImageFault(m) # {}
      BY <2>2, <2>3 DEF ImageFault
    <3> QED BY <1>2, <3>1, <3>2
  <2>5. ~(Id(m) \preceq Got(m.d)) BY <2>2, <2>3, <2>4 DEF Got, \preceq
  <2>6. /\ Got(m.d)' = Id(m)
        /\ \A d \in Drawable : Got(d)' \in Pair /\ Got(d) \preceq Got(d)'
    <3>1. order'.epoch = m.epoch /\ m.epoch >= order.epoch BY <2>1, <2>2, <2>3, <2>4
    <3>2. order'.generations[m.d] = m.generation BY <2>1, <2>2
    <3>3. ASSUME NEW d \in Drawable PROVE Got(d)' \in Pair /\ Got(d) \preceq Got(d)'
      <4>1. order'.generations[d] =
              IF d = m.d THEN m.generation
              ELSE IF m.epoch # order.epoch THEN 0 ELSE order.generations[d]
        BY <2>1
      <4>2. order.generations[d] \in Nat BY <2>3
      <4> QED BY <2>2, <2>3, <2>4, <3>1, <4>1, <4>2 DEF Got, \preceq, Pair
    <3> QED BY <2>2, <3>1, <3>2, <3>3 DEF Got
  <2>7. D \in DesktopRecord BY DesktopIn, ConsumerType
  <2>8. D.dropped \in [Drawable -> Pair] /\ D.received \in [Drawable -> Pair]
    BY <2>7 DEF DesktopRecord
  <2>9. /\ R \in DesktopRecord /\ R.resources = D.resources
        /\ R.dropped[m.d] = (IF D.dropped[m.d] # Zero /\ D.dropped[m.d] \preceq Id(m) THEN Zero
                             ELSE D.dropped[m.d])
        /\ R.received[m.d] \in {Zero, D.received[m.d], Id(m)}
        /\ \A d \in Drawable : d # m.d => /\ R.dropped[d] = D.dropped[d]
                                          /\ R.received[d] = D.received[d]
    BY <2>7, ReceivedType
  <2>10. /\ past.cutoff \in [Drawable -> Pair] /\ NoZombie
         /\ \A d \in Drawable : Remembered(D, d, past.cutoff[d]) /\ D.received[d] \preceq Got(d)
    BY DEF RetireInv
  <2> HIDE DEF D, R, l
  <2>11. ASSUME NEW d \in Drawable
         PROVE  /\ past.cutoff[d] \preceq R.dropped[d] \/ past.cutoff[d] \preceq Got(d)'
                /\ R.received[d] \preceq Got(d)'
    <3> DEFINE c == past.cutoff[d]
               g == Got(d)
               h == Got(d)'
               t == D.dropped[d]
               w == D.received[d]
    <3>1. c \in Pair /\ g \in Pair /\ h \in Pair /\ t \in Pair /\ w \in Pair /\ g \preceq h
      BY <2>3, <2>6, <2>8, <2>10
    <3>2. (c \preceq t \/ c \preceq g) /\ w \preceq g BY <2>10 DEF Remembered
    <3>3. R.dropped[d] = t \/ t \preceq h BY <2>6, <2>9
    <3>4. R.received[d] = w \/ R.received[d] = Zero \/ R.received[d] = h BY <2>6, <2>9
    <3> HIDE DEF c, g, h, t, w
    <3>5. c \preceq R.dropped[d] \/ c \preceq h BY <3>1, <3>2, <3>3, PrecedesOrder
    <3>6. w \preceq h /\ Zero \preceq h /\ h \preceq h BY <3>1, <3>2, PrecedesOrder
    <3>7. R.received[d] \preceq h BY <3>4, <3>6
    <3> QED BY <3>5, <3>7 DEF c, h
  <2>12. ~Retired(D, m) => ~(Id(m) \preceq past.cutoff[m.d])
    <3> DEFINE c == past.cutoff[m.d]
               g == Got(m.d)
               t == D.dropped[m.d]
               i == Id(m)
    <3>1. c \in Pair /\ g \in Pair /\ t \in Pair /\ i \in Pair BY <2>2, <2>3, <2>8, <2>10
    <3>2. c \preceq t \/ c \preceq g BY <2>2, <2>10 DEF Remembered
    <3>3. ~(i \preceq g) BY <2>5
    <3>4. ~Retired(D, m) => ~(i \preceq t) BY DEF Retired
    <3> HIDE DEF c, g, t, i
    <3>5. ~Retired(D, m) => ~(i \preceq c) BY <3>1, <3>2, <3>3, <3>4, PrecedesOrder
    <3> QED BY <3>5 DEF c, i
  <2>13. /\ desktop'.dropped = R.dropped /\ desktop'.received = R.received
         /\ \A x \in desktop'.resources \union frames'.windows \union frames'.owner :
               \/ x \in D.resources \union frames.windows \union frames.owner
               \/ x = l /\ ~Retired(D, m)
    <3>1. /\ frames.windows \subseteq ImageLease /\ frames.owner \subseteq ImageLease
          /\ frames \in [latest : SUBSET ImageLease, owner : SUBSET ImageLease,
                         windows : SUBSET ImageLease]
      BY ConsumerType
    <3>2. CASE Retired(D, m) BY <2>1, <2>9, <3>2 DEF D
    <3>3. CASE ~Retired(D, m) /\ m.kind = "frame"
      <4>1. frames' = [frames EXCEPT !.latest = {l}, !.owner = {l}] /\ desktop' = R
        BY <2>1, <3>3 DEF KeepImage, D, R
      <4>2. frames'.owner = {l} /\ frames'.windows = frames.windows BY <3>1, <4>1
      <4> QED BY <2>9, <3>3, <4>1, <4>2
    <3>4. CASE ~Retired(D, m) /\ m.kind = "retained"
      <4>1. frames' = frames /\ desktop' = [R EXCEPT !.resources = @ \union {l}]
        BY <2>1, <3>4 DEF KeepImage, D, R
      <4>2. /\ desktop'.resources = D.resources \union {l} /\ desktop'.dropped = R.dropped
            /\ desktop'.received = R.received
        BY <2>9, <4>1 DEF DesktopRecord
      <4> QED BY <3>4, <4>1, <4>2
    <3>5. CASE ~Retired(D, m) /\ m.kind = "window"
      <4>1. frames' = [frames EXCEPT !.windows = @ \union {l}] /\ desktop' = R
        BY <2>1, <3>5 DEF KeepImage, D, R
      <4>2. frames'.owner = frames.owner /\ frames'.windows = frames.windows \union {l}
        BY <3>1, <4>1
      <4> QED BY <2>9, <3>5, <4>1, <4>2
    <3> QED BY <2>2, <3>2, <3>3, <3>4, <3>5 DEF Image
  <2>14. NoZombie'
    <3> SUFFICES ASSUME NEW x \in desktop'.resources \union frames'.windows \union frames'.owner,
                        x.d \in Drawable
                 PROVE  ~(Id(x) \preceq past'.cutoff[x.d])
      BY DEF NoZombie
    <3>1. past'.cutoff = past.cutoff OBVIOUS
    <3>2. CASE x \in D.resources \union frames.windows \union frames.owner
      BY <2>10, <3>1, <3>2 DEF NoZombie, D
    <3>3. CASE x = l /\ ~Retired(D, m) BY <2>2, <2>12, <3>1, <3>3
    <3> QED BY <2>13, <3>2, <3>3
  <2>15. \A d \in Drawable : /\ Remembered(desktop, d, past.cutoff[d])'
                             /\ (desktop.received[d] \preceq Got(d))'
    BY <2>11, <2>13 DEF Remembered
  <2> QED BY <2>14, <2>15 DEF RetireInv
<1> QED BY <1>1, <1>2

(* The sweep: each drop it carries out is remembered, and what it retires    *)
(* is gone.                                                                  *)
SweptStale(s) ==
    /\ \A d \in Drawable : \A x \in Pair : Remembered(desktop, d, x) => Remembered(s.D, d, x)
    /\ \A d \in Drawable : s.D.received[d] \preceq Got(d)
    /\ \A r \in s.retired : /\ Remembered(s.D, r[1], r[2])
                            /\ \A l \in s.D.resources : ~Gone(l, r[1], r[2])

LEMMA LifecycleIs ==
    ASSUME NEW s, NEW op
    PROVE  \/ Lifecycle(s, op) = s
           \/ /\ ~s.stop /\ op.kind = "drop"
              /\ Lifecycle(s, op) =
                   [s EXCEPT !.D = TakeDrop(s.D, op),
                             !.retired = @ \union {<<op.d, Later(s.D.dropped[op.d], op.anchor)>>}]
           \/ ~s.stop /\ Lifecycle(s, op) = [s EXCEPT !.D = TakeDiscard(s.D, op)]
           \/ Lifecycle(s, op) = [s EXCEPT !.stop = TRUE]
<1> DEFINE drop == [s EXCEPT !.D = TakeDrop(s.D, op),
                       !.retired = @ \union {<<op.d, Later(s.D.dropped[op.d], op.anchor)>>}]
           discard == [s EXCEPT !.D = TakeDiscard(s.D, op)]
           stop == [s EXCEPT !.stop = TRUE]
<1>1. Lifecycle(s, op) = CASE s.stop -> s
                           [] ~s.stop /\ op.kind = "drop" -> drop
                           [] ~s.stop /\ Detached(op) /\ Named(s.D, op) # {} -> discard
                           [] OTHER -> stop
  BY DEF Lifecycle
<1>2. op.kind = "drop" => ~Detached(op) BY DEF Detached
<1> HIDE DEF drop, discard, stop
<1>3. \/ Lifecycle(s, op) = s
      \/ ~s.stop /\ op.kind = "drop" /\ Lifecycle(s, op) = drop
      \/ ~s.stop /\ Lifecycle(s, op) = discard
      \/ Lifecycle(s, op) = stop
  BY <1>1, <1>2
<1> QED BY <1>3 DEF drop, discard, stop

LEMMA StageStale ==
    ASSUME FramesInv, NEW k \in 1..Len(desktop.pending), NEW s, SweptSound(s, k - 1),
           SweptStale(s)
    PROVE  SweptStale(Lifecycle(s, desktop.pending[k]))
<1> DEFINE q == desktop.pending
           op == q[k]
           D == s.D
<1>0. desktop \in DesktopRecord BY DesktopIn, ConsumerType
<1>1. q \in Seq(Op) /\ Len(q) \in Nat /\ op \in Op
  <2>1. q \in Seq(Op) BY <1>0 DEF DesktopRecord
  <2>2. k \in DOMAIN q BY <2>1
  <2> QED BY <2>1, <2>2
<1>2. /\ s \in [D : DesktopRecord, retired : SUBSET (Drawable \X Pair), stop : BOOLEAN]
      /\ ~s.stop => Len(D.pending) = Len(q) - (k - 1)
  BY DEF SweptSound
<1>3. D \in DesktopRecord BY <1>2
<1> HIDE DEF D, q
<1>4. /\ D.pending \in Seq(Op) /\ D.dropped \in [Drawable -> Pair]
      /\ D.received \in [Drawable -> Pair]
  BY <1>3 DEF DesktopRecord
<1>5. ~s.stop => D.pending # <<>> BY <1>1, <1>2, <1>4 DEF q
<1>6. /\ \A d \in Drawable : Got(d) \in Pair
      /\ \A r \in s.retired : r \in Drawable \X Pair
  BY <1>2, GotType
<1>7. /\ \A d \in Drawable : \A x \in Pair : Remembered(desktop, d, x) => Remembered(D, d, x)
      /\ \A d \in Drawable : D.received[d] \preceq Got(d)
      /\ \A r \in s.retired : /\ Remembered(D, r[1], r[2])
                              /\ \A l \in D.resources : ~Gone(l, r[1], r[2])
  BY DEF SweptStale, D
<1>8. CASE Lifecycle(s, op) = s BY <1>8 DEF op, q
<1>9. CASE Lifecycle(s, op) = [s EXCEPT !.stop = TRUE]
  <2>1. Lifecycle(s, op).D = D /\ Lifecycle(s, op).retired = s.retired BY <1>2, <1>9 DEF D
  <2> QED BY <1>7, <2>1 DEF SweptStale, op, q
<1>10. CASE ~s.stop /\ Lifecycle(s, op) = [s EXCEPT !.D = TakeDiscard(D, op)]
  <2> DEFINE E == TakeDiscard(D, op)
  <2>1. /\ E.dropped = D.dropped /\ E.received = D.received /\ E.resources \subseteq D.resources
    <3> DEFINE R == D.resources \ {op.lease}
               p == Tail(D.pending)
    <3>1. E = [D EXCEPT !.resources = R, !.pending = p] BY DEF TakeDiscard
    <3>2. R \subseteq D.resources OBVIOUS
    <3> HIDE DEF R, p
    <3> QED BY <1>3, <3>1, <3>2 DEF DesktopRecord
  <2> HIDE DEF E
  <2>2. Lifecycle(s, op).D = E /\ Lifecycle(s, op).retired = s.retired BY <1>2, <1>10 DEF E
  <2> QED BY <1>7, <2>1, <2>2 DEF SweptStale, Remembered, op, q
<1>11. CASE /\ ~s.stop /\ op.kind = "drop"
            /\ Lifecycle(s, op) =
                 [s EXCEPT !.D = TakeDrop(D, op),
                           !.retired = @ \union {<<op.d, Later(D.dropped[op.d], op.anchor)>>}]
  <2> DEFINE c == Later(D.dropped[op.d], op.anchor)
             seen == D.received[op.d] # Zero /\ c \preceq D.received[op.d]
             E == TakeDrop(D, op)
             t == <<op.d, c>>
             Q == s.retired \union {t}
  <2>1. seen \in BOOLEAN BY DEF \preceq
  <2>2. Lifecycle(s, op) = [s EXCEPT !.D = E, !.retired = Q] BY <1>11
  <2>3. c = Later(D.dropped[op.d], op.anchor) OBVIOUS
  <2>4. seen <=> D.received[op.d] # Zero /\ c \preceq D.received[op.d] OBVIOUS
  <2> HIDE DEF c, seen
  <2>5. /\ c \in Pair /\ op.d \in Drawable
        /\ E.resources = {l \in D.resources : ~Gone(l, op.d, c)}
        /\ D.dropped[op.d] \in Pair /\ D.dropped[op.d] \preceq c
        /\ E.dropped[op.d] = (IF seen THEN Zero ELSE c)
        /\ E.received[op.d] = (IF seen THEN Zero ELSE D.received[op.d])
        /\ \A d \in Drawable : d # op.d =>
              E.dropped[d] = D.dropped[d] /\ E.received[d] = D.received[d]
    BY <1>1, <1>3, <1>5, <1>11, <2>1, <2>3, <2>4, TakeDropIs
  <2> HIDE DEF E
  <2>6. Lifecycle(s, op).D = E /\ Lifecycle(s, op).retired = Q BY <1>2, <2>2
  <2>7. c \preceq E.dropped[op.d] \/ c \preceq Got(op.d)
    <3>1. CASE seen
      <4>1. c \preceq D.received[op.d] BY <2>4, <3>1
      <4>2. D.received[op.d] \preceq Got(op.d) /\ D.received[op.d] \in Pair /\ Got(op.d) \in Pair
        BY <1>4, <1>6, <1>7, <2>5
      <4> QED BY <2>5, <4>1, <4>2, PrecedesOrder
    <3>2. CASE ~seen BY <2>5, <3>2, PrecedesOrder
    <3> QED BY <2>1, <3>1, <3>2
  <2>8. ASSUME NEW d \in Drawable, NEW x \in Pair, Remembered(D, d, x) PROVE Remembered(E, d, x)
    <3>1. CASE d # op.d BY <2>5, <2>8, <3>1 DEF Remembered
    <3>2. CASE d = op.d /\ x \preceq Got(d) BY <3>2 DEF Remembered
    <3>3. CASE d = op.d /\ x \preceq D.dropped[d]
      <4>1. x \preceq c BY <2>5, <3>3, PrecedesOrder
      <4>2. E.dropped[d] \in Pair
        <5>1. Zero \in Pair BY DEF Zero, Pair
        <5> QED BY <2>1, <2>5, <3>3, <5>1
      <4>3. Got(d) \in Pair BY <1>6
      <4>4. x \preceq E.dropped[d] \/ x \preceq Got(d)
        BY <2>5, <2>7, <3>3, <4>1, <4>2, <4>3, PrecedesOrder
      <4> QED BY <4>4 DEF Remembered
    <3> QED BY <2>8, <3>1, <3>2, <3>3 DEF Remembered
  <2>9. ASSUME NEW d \in Drawable PROVE E.received[d] \preceq Got(d)
    <3>1. Zero \preceq Got(d) BY <1>6, PrecedesOrder
    <3>2. E.received[d] = D.received[d] \/ E.received[d] = Zero BY <2>1, <2>5
    <3> QED BY <1>7, <3>1, <3>2
  <2>10. ASSUME NEW r \in Q
         PROVE  Remembered(E, r[1], r[2]) /\ \A l \in E.resources : ~Gone(l, r[1], r[2])
    <3>1. CASE r \in s.retired
      <4>1. r[1] \in Drawable /\ r[2] \in Pair BY <1>6, <3>1
      <4> QED BY <1>7, <2>5, <2>8, <3>1, <4>1
    <3>2. CASE r = t
      <4>1. r[1] = op.d /\ r[2] = c BY <3>2
      <4> QED BY <2>5, <2>7, <4>1 DEF Remembered
    <3> QED BY <2>10, <3>1, <3>2
  <2> HIDE DEF Q
  <2> QED BY <1>7, <2>6, <2>8, <2>9, <2>10 DEF SweptStale, op, q
<1>12. \/ Lifecycle(s, op) = s
       \/ /\ ~s.stop /\ op.kind = "drop"
          /\ Lifecycle(s, op) =
               [s EXCEPT !.D = TakeDrop(D, op),
                         !.retired = @ \union {<<op.d, Later(D.dropped[op.d], op.anchor)>>}]
       \/ ~s.stop /\ Lifecycle(s, op) = [s EXCEPT !.D = TakeDiscard(D, op)]
       \/ Lifecycle(s, op) = [s EXCEPT !.stop = TRUE]
  <2> HIDE DEF op
  <2> QED BY LifecycleIs DEF D
<1> QED BY <1>8, <1>9, <1>10, <1>11, <1>12

LEMMA SweptRetire == ASSUME FramesInv, RetireInv PROVE SweptStale(Swept)
<1> DEFINE q == desktop.pending
           m == Len(q)
<1>1. desktop \in DesktopRecord BY DesktopIn, ConsumerType
<1>2. q \in Seq(Op) /\ m \in Nat /\ DOMAIN q = 1..m
  <2>1. q \in Seq(Op) BY <1>1 DEF DesktopRecord
  <2> QED BY <2>1
<1>3. PICK C : /\ C[0] = Start /\ C[m] = Swept
               /\ \A k \in 1..m : C[k] = Lifecycle(C[k - 1], q[k])
  <2> HIDE DEF m
  <2> QED BY <1>2, SweepStages
<1>4. \A k \in 0..m : SweptSound(C[k], k) BY <1>1, <1>3, StagesSound
<1>5. SweptStale(C[0])
  <2>1. C[0].D = desktop /\ C[0].retired = {} BY <1>3 DEF Start
  <2> QED BY <2>1 DEF SweptStale, RetireInv
<1>6. ASSUME NEW k \in 1..m, SweptStale(C[k - 1]) PROVE SweptStale(C[k])
  <2>1. C[k] = Lifecycle(C[k - 1], q[k]) BY <1>3
  <2>2. k - 1 \in 0..m BY <1>2
  <2>3. SweptSound(C[k - 1], k - 1) BY <1>4, <2>2
  <2>4. SweptStale(Lifecycle(C[k - 1], q[k])) BY <1>6, <2>3, StageStale
  <2> QED BY <2>1, <2>4
<1> DEFINE Bad == {k \in 0..m : ~SweptStale(C[k])}
<1>7. Bad = {}
  <2> SUFFICES ASSUME Bad # {} PROVE FALSE OBVIOUS
  <2> HIDE DEF m
  <2>0. Bad \in SUBSET Nat BY <1>2
  <2>1. PICK n \in Bad : \A k \in Bad : n <= k
    <3> HIDE DEF Bad
    <3> QED BY <2>0, LeastNat
  <2>2. n \in 0..m /\ ~SweptStale(C[n]) OBVIOUS
  <2>3. n # 0 BY <1>5, <2>2
  <2>4. n \in 1..m /\ n - 1 \in 0..m /\ ~(n <= n - 1) BY <1>2, <2>2, <2>3
  <2>5. n - 1 \notin Bad
    <3> HIDE DEF Bad
    <3> QED BY <2>1, <2>4
  <2>6. SweptStale(C[n - 1]) BY <2>4, <2>5
  <2> QED BY <1>6, <2>2, <2>4, <2>6
<1>8. m \in 0..m BY <1>2
<1> QED BY <1>3, <1>7, <1>8

LEMMA UpdateRetire == ASSUME FramesInv, RetireInv, Update PROVE RetireInv'
<1> DEFINE D == Swept.D
           R == Swept.retired
           F == RetiredFrames(R)
           S(d) == {r[2] : r \in {q \in R : q[1] = d}} \union {past.cutoff[d]}
           f == [d \in Drawable |-> Latest(S(d))]
<1>1. desktop \in DesktopRecord BY DesktopIn, ConsumerType
<1>2. /\ D \in DesktopRecord /\ D.resources \subseteq desktop.resources
      /\ R \subseteq Drawable \X Pair /\ IsFiniteSet(R)
  BY <1>1, SweptIs
<1>3. /\ desktop' \in DesktopRecord /\ desktop'.resources \subseteq D.resources
      /\ frames' = F /\ order' = order
      /\ \A d \in Drawable : /\ D.dropped[d] \preceq desktop'.dropped[d]
                             /\ desktop'.received[d] \in {Zero, D.received[d]}
  BY TakeUpdateIs DEF Update
<1>4. /\ F.windows \subseteq frames.windows /\ F.owner \subseteq frames.owner
      /\ \A l \in F.windows \union F.owner : ~\E r \in R : Gone(l, r[1], r[2])
  BY ConsumerType, RetiredFramesIs
<1>5. /\ \A d \in Drawable : \A x \in Pair : Remembered(desktop, d, x) => Remembered(D, d, x)
      /\ \A d \in Drawable : D.received[d] \preceq Got(d)
      /\ \A r \in R : /\ Remembered(D, r[1], r[2])
                      /\ \A l \in D.resources : ~Gone(l, r[1], r[2])
  BY SweptRetire DEF SweptStale
<1>6. past' = [past EXCEPT !.cutoff = [d \in Drawable |->
                  Latest({r[2] : r \in {q \in R : q[1] = d}} \union {@[d]})]]
  BY DEF Update
<1>7. /\ past \in [cutoff : [Drawable -> Pair], authority : {"cpu", "gpu"}]
      /\ \A d \in Drawable : Remembered(desktop, d, past.cutoff[d])
      /\ NoZombie
  BY DEF RetireInv
<1>8. past' = [past EXCEPT !.cutoff = f] BY <1>6
<1> HIDE DEF D, R, F
<1>9. ASSUME NEW d \in Drawable
      PROVE  /\ f[d] \in Pair
             /\ f[d] = past.cutoff[d] \/ \E r \in R : r[1] = d /\ r[2] = f[d]
  <2> DEFINE g == [r \in R |-> r[2]]
             K == {q \in R : q[1] = d}
             V == {g[r] : r \in K}
             c == past.cutoff[d]
             T == S(d)
  <2>1. IsFiniteSet(K) /\ K \subseteq R
    <3>1. K \subseteq R OBVIOUS
    <3> HIDE DEF K
    <3> QED BY <1>2, <3>1, FS_Subset
  <2>2. IsFiniteSet(V)
    <3> HIDE DEF K, g
    <3> QED BY <2>1, ImageFinite
  <2>3. T = V \union {c}
    <3> HIDE DEF K
    <3>1. \A r \in K : g[r] = r[2] BY <2>1
    <3> QED BY <3>1 DEF K
  <2>4. c \in Pair BY <1>7
  <2>5. V \subseteq Pair
    <3>1. \A r \in R : g[r] \in Pair BY <1>2
    <3> HIDE DEF K, g
    <3> QED BY <2>1, <3>1
  <2>6. \A v \in V : \E r \in R : r[1] = d /\ r[2] = v OBVIOUS
  <2>7. f[d] = Latest(T) OBVIOUS
  <2> HIDE DEF T, V, c, f
  <2>8. IsFiniteSet(V \union {c}) BY <2>2, FS_AddElement
  <2>9. IsFiniteSet(T) /\ T \in SUBSET Pair /\ T # {} BY <2>3, <2>4, <2>5, <2>8
  <2>10. f[d] \in T BY <2>7, <2>9, LatestOf
  <2>11. f[d] \in V \/ f[d] = c BY <2>3, <2>10
  <2> QED BY <2>4, <2>5, <2>6, <2>11 DEF c
<1> HIDE DEF f
<1>10. f \in [Drawable -> Pair]
  <2>1. f = [d \in Drawable |-> f[d]] BY DEF f
  <2> QED BY <1>9, <2>1
<1>11. past' \in [cutoff : [Drawable -> Pair], authority : {"cpu", "gpu"}] /\ past'.cutoff = f
  BY <1>7, <1>8, <1>10
<1>12. \A d \in Drawable : Got(d)' = Got(d) /\ Got(d) \in Pair BY <1>3, GotType DEF Got
<1>13. ASSUME NEW d \in Drawable PROVE Remembered(D, d, f[d])
  <2>1. CASE f[d] = past.cutoff[d] BY <1>5, <1>7, <1>9, <2>1
  <2>2. CASE \E r \in R : r[1] = d /\ r[2] = f[d]
    <3>1. PICK r \in R : r[1] = d /\ r[2] = f[d] BY <2>2
    <3> QED BY <1>5, <3>1
  <2> QED BY <1>9, <2>1, <2>2
<1>14. ASSUME NEW d \in Drawable
       PROVE  Remembered(desktop, d, past.cutoff[d])' /\ (desktop.received[d] \preceq Got(d))'
  <2>1. /\ D.dropped[d] \in Pair /\ desktop'.dropped[d] \in Pair
    BY <1>2, <1>3 DEF DesktopRecord
  <2>2. f[d] \preceq desktop'.dropped[d] \/ f[d] \preceq Got(d)
    BY <1>3, <1>9, <1>13, <2>1, PrecedesOrder DEF Remembered
  <2>3. Zero \preceq Got(d) BY <1>12, PrecedesOrder
  <2>4. desktop'.received[d] \preceq Got(d) BY <1>3, <1>5, <2>3
  <2> QED BY <1>11, <1>12, <2>2, <2>4 DEF Remembered
<1>15. NoZombie'
  <2> SUFFICES ASSUME NEW l \in desktop'.resources \union frames'.windows \union frames'.owner,
                      l.d \in Drawable, Id(l) \preceq f[l.d]
               PROVE  FALSE
    BY <1>11 DEF NoZombie
  <2>1. \/ l \in D.resources \/ l \in F.windows \union F.owner BY <1>3
  <2>2. l \in desktop.resources \union frames.windows \union frames.owner
    BY <1>2, <1>4, <2>1
  <2>3. CASE f[l.d] = past.cutoff[l.d] BY <1>7, <2>2, <2>3 DEF NoZombie
  <2>4. CASE \E r \in R : r[1] = l.d /\ r[2] = f[l.d]
    <3>1. PICK r \in R : r[1] = l.d /\ r[2] = f[l.d] BY <2>4
    <3>2. Gone(l, r[1], r[2]) BY <3>1 DEF Gone
    <3> QED BY <1>4, <1>5, <2>1, <3>1, <3>2
  <2> QED BY <1>9, <2>3, <2>4
<1> QED BY <1>11, <1>14, <1>15 DEF RetireInv

LEMMA UnixRetire == ASSUME FramesInv, RetireInv, UnixReceive PROVE RetireInv'
<1> DEFINE m == Head(unix)
<1>0. /\ unix # <<>> /\ unix' = Tail(unix) /\ mach' = mach
      /\ m.kind \in Image => ReceiveImage(m) /\ UNCHANGED shown
      /\ m.kind \notin Image =>
           /\ ReceiveOp(m)
           /\ m.kind = "seed" => past' = [past EXCEPT !.authority = "gpu"]
           /\ m.kind \in {"return", "reset"} => past' = [past EXCEPT !.authority = "cpu"]
           /\ m.kind \notin {"seed", "return", "reset"} =>
                past' = [past EXCEPT !.authority = past.authority]
  BY DEF UnixReceive
<1>a. m.kind \notin Image =>
        \E x \in {"cpu", "gpu"} : past' = [past EXCEPT !.authority = x]
  BY <1>0 DEF RetireInv
<1>1. /\ unix # <<>> /\ unix' = Tail(unix) /\ mach' = mach
      /\ m.kind \in Image \/ m.kind \notin Image
      /\ m.kind \in Image => ReceiveImage(m) /\ UNCHANGED shown
      /\ m.kind \notin Image => ReceiveOp(m)
  BY <1>0
<1>2. Takes(m) BY <1>1 DEF Takes
<1>3. m \in ImageMsg \union Op BY <1>2, TakenHead
<1> HIDE DEF m
<1>4. CASE m.kind \in Image
  <2>1. m \notin Op BY <1>4 DEF Op, RawOp, OpKinds, CpuKinds, Image
  <2>2. past' = past BY <1>1, <1>4 DEF shown
  <2> QED BY <1>1, <1>3, <1>4, <2>1, <2>2, ReceiveRetire
<1>5. CASE m.kind \notin Image
  <2>1. m \in Op BY <1>3, <1>5, ImageLeaseOf
  <2>1a. PICK a \in {"cpu", "gpu"} : past' = [past EXCEPT !.authority = a] BY <1>a, <1>5
  <2>2. ReceiveOp(m) BY <1>1, <1>5
  <2>3. past \in [cutoff : [Drawable -> Pair], authority : {"cpu", "gpu"}] BY DEF RetireInv
  <2>6. /\ past' \in [cutoff : [Drawable -> Pair], authority : {"cpu", "gpu"}]
        /\ past'.cutoff = past.cutoff
    BY <2>1a, <2>3
  <2>7. CASE OpFault(m) # {}
    <3>1. PICK reason \in OpFault(m) : Refuse(reason) BY <2>2, <2>7 DEF ReceiveOp
    <3>2. UNCHANGED <<desktop, order, frames>> BY <3>1 DEF Refuse
    <3>3. RetireStays BY <2>6, <3>2 DEF RetireStays
    <3> QED BY <3>3, RetireKept
  <2>8. CASE OpFault(m) = {}
    <3>1. desktop' = Pushed(m) /\ UNCHANGED <<order, frames>> BY <2>2, <2>8 DEF ReceiveOp
    <3>2. desktop \in DesktopRecord BY DesktopIn, ConsumerType
    <3>3. /\ desktop'.dropped = desktop.dropped /\ desktop'.received = desktop.received
          /\ desktop'.resources = desktop.resources
      BY <2>1, <3>1, <3>2, PushedIs
    <3>4. RetireStays BY <2>6, <3>1, <3>3 DEF RetireStays
    <3> QED BY <3>4, RetireKept
  <2> QED BY <2>7, <2>8
<1> QED BY <1>4, <1>5


(* Images from the Mach port.                                                *)
LEMMA MachRetire == ASSUME FramesInv, RetireInv, MachReceive PROVE RetireInv'
<1>1. mach # <<>> /\ ReceiveImage(Head(mach)) /\ UNCHANGED shown BY DEF MachReceive
<1>2. mach \in Seq(ImageMsg) BY DEF FramesInv, WireShape
<1>3. Head(mach) \in ImageMsg BY <1>1, <1>2, TailOf
<1>4. past' = past BY <1>1 DEF shown
<1> QED BY <1>1, <1>3, <1>4, ReceiveRetire

(* The guest changes nothing of the SDK.                                     *)
LEMMA QueueQuiet ==
    ASSUME NEW op, NEW seeded, Queue(op, seeded)
    PROVE  UNCHANGED consumer /\ UNCHANGED shown /\ UNCHANGED answer
BY DEF Queue

LEMMA GuestQuiet == ASSUME Guest PROVE UNCHANGED consumer /\ UNCHANGED shown
<1>1. CASE NewDrawable BY <1>1 DEF NewDrawable
<1>2. CASE Begin BY <1>2 DEF Begin
<1>3. CASE GiveUp BY <1>3 DEF GiveUp
<1>4. CASE \E image \in Images : PresentImage(image)
  <2>1. PICK image \in Images : PresentImage(image) BY <1>4
  <2> QED BY <2>1 DEF PresentImage
<1>5. CASE \E kind \in CpuKinds : CpuRecord(kind)
  <2>1. PICK kind \in CpuKinds : CpuRecord(kind) BY <1>5
  <2> QED BY <2>1, QueueQuiet DEF CpuRecord
<1>6. CASE CpuMemoryFails BY <1>6 DEF CpuMemoryFails
<1>7. CASE Paint BY <1>7, QueueQuiet DEF Paint
<1>8. CASE Blit BY <1>8, QueueQuiet DEF Blit
<1>9. CASE Discard BY <1>9, QueueQuiet DEF Discard
<1>10. CASE Readback BY <1>10, QueueQuiet DEF Readback
<1>11. CASE ReadbackEnds BY <1>11 DEF ReadbackEnds
<1>12. CASE FreeDrawable
  <2>1. PICK d \in Drawable :
          IF drawables[d].published = Zero
            THEN UNCHANGED <<slots, next_epoch, output, sending, consumer, wire, stream, answer,
                             shown>>
            ELSE Queue([Record("drop", 0, 0) EXCEPT !.d = d, !.anchor = drawables[d].published],
                       stream.seeded)
    BY <1>12 DEF FreeDrawable
  <2>2. CASE drawables[d].published = Zero BY <2>1, <2>2
  <2>3. CASE drawables[d].published # Zero BY <2>1, <2>3, QueueQuiet
  <2> QED BY <2>2, <2>3
<1>13. CASE DeviceReset BY <1>13, QueueQuiet DEF DeviceReset
<1> QED
  BY <1>1, <1>2, <1>3, <1>4, <1>5, <1>6, <1>7, <1>8, <1>9, <1>10, <1>11, <1>12, <1>13 DEF Guest

(* Only a receiver and the batch that is taken change what is retired.       *)
LEMMA RetireNext == ASSUME FramesInv, RetireInv, [Next]_vars PROVE RetireInv'
<1>1. CASE Guest
  <2>1. UNCHANGED <<desktop, order, frames, past>> BY <1>1, GuestQuiet DEF consumer, shown
  <2> QED BY <2>1, RetireSame
<1>2. CASE OutputThread \/ ReceiveBack \/ Hangup \/ UNCHANGED vars
  <2>1. CASE Pop BY <2>1, RetireSame DEF Pop, consumer, shown
  <2>2. CASE PublishSlot BY <2>2, RetireSame DEF PublishSlot, consumer, shown
  <2>3. CASE Send BY <2>3, RetireSame DEF Send, consumer, shown
  <2>4. CASE Settle
    <3>1. (PeerCloses \/ UNCHANGED consumer) /\ UNCHANGED shown BY <2>4 DEF Settle
    <3>2. UNCHANGED <<desktop, order, frames, past>> BY <3>1 DEF PeerCloses, consumer, shown
    <3> QED BY <3>2, RetireSame
  <2>5. CASE ReceiveBack BY <2>5, RetireSame DEF ReceiveBack, consumer, shown
  <2>6. CASE Hangup BY <2>6, RetireSame DEF Hangup, PeerCloses, shown
  <2>7. CASE UNCHANGED vars BY <2>7, RetireSame DEF vars, consumer, shown
  <2> QED BY <1>2, <2>1, <2>2, <2>3, <2>4, <2>5, <2>6, <2>7 DEF OutputThread
<1>3. CASE Sdk
  <2>0. ASSUME RetireStays PROVE RetireInv' BY <2>0, RetireKept
  <2>a. past \in [cutoff : [Drawable -> Pair], authority : {"cpu", "gpu"}] BY DEF RetireInv
  <2>1. CASE MachReceive BY <2>1, MachRetire
  <2>2. CASE UnixReceive BY <2>2, UnixRetire
  <2>3. CASE ReceiverSleeps BY <2>3, RetireSame DEF ReceiverSleeps, WaitForSpace, shown
  <2>4. CASE ReceiverWakes BY <2>4, RetireSame DEF ReceiverWakes, WakeReceiver, shown
  <2>5. CASE Update BY <2>5, UpdateRetire
  <2>6. CASE Finish
    <3>1. PICK t \in taking :
            /\ IF t.returned
                 THEN frames' = [frames EXCEPT !.latest = {}, !.windows = {}]
                 ELSE UNCHANGED frames
            /\ UNCHANGED <<desktop, order>> /\ UNCHANGED shown
      BY <2>6 DEF Finish, FinishUpdate
    <3>2. frames'.windows \subseteq frames.windows /\ frames'.owner = frames.owner
      BY <3>1, ConsumerType
    <3>3. RetireStays BY <2>a, <3>1, <3>2 DEF RetireStays, shown
    <3> QED BY <2>0, <3>3
  <2>7. CASE Answer BY <2>7, RetireSame DEF Answer, AnswerReadback, shown
  <2>8. CASE Frame
    <3>1. frames' = [frames EXCEPT !.latest = {}] /\ UNCHANGED <<desktop, order, past>>
      BY <2>8 DEF Frame, TakeFrame, shown
    <3>2. frames'.windows = frames.windows /\ frames'.owner = frames.owner
      BY <3>1, ConsumerType
    <3> QED BY <2>0, <2>a, <3>1, <3>2 DEF RetireStays
  <2>9. CASE Windows
    <3>1. frames' = [frames EXCEPT !.windows = {}] /\ UNCHANGED <<desktop, order, past>>
      BY <2>9 DEF Windows, TakeDrawables, shown
    <3>2. frames'.windows = {} /\ frames'.owner = frames.owner
      BY <3>1, ConsumerType
    <3> QED BY <2>0, <2>a, <3>1, <3>2 DEF RetireStays
  <2>10. CASE Drop BY <2>10, RetireSame DEF Drop, DropLease, shown
  <2>11. CASE CpuFrame
    <3>1. desktop' = [desktop EXCEPT !.anchor = 0] /\ UNCHANGED <<frames, order, past>>
      BY <2>11 DEF CpuFrame, AcceptCpuFrame, shown
    <3>2. desktop \in DesktopRecord BY DesktopIn, ConsumerType
    <3>3. /\ desktop'.dropped = desktop.dropped /\ desktop'.received = desktop.received
          /\ desktop'.resources = desktop.resources
      BY <3>1, <3>2 DEF DesktopRecord
    <3> QED BY <2>0, <2>a, <3>1, <3>3 DEF RetireStays
  <2>12. CASE Write BY <2>12, RetireSame DEF Write, WriterTake, shown
  <2> QED
    BY <1>3, <2>1, <2>2, <2>3, <2>4, <2>5, <2>6, <2>7, <2>8, <2>9, <2>10, <2>11, <2>12 DEF Sdk
<1> QED BY <1>1, <1>2, <1>3 DEF Next

-----------------------------------------------------------------------------
(* The readback's answer.                                                    *)

LEMMA ReplySame == ASSUME ReplyInv, UNCHANGED <<reply, answer>> PROVE ReplyInv'
BY DEF ReplyInv, AnswerIsOwn

(* A request begins with no descriptor, as the last one ended without.       *)
LEMMA AskedReply == ASSUME ReplyInv, Readback PROVE ReplyInv'
<1>1. answer' = answer BY QueueQuiet DEF Readback
<1>2. /\ ~reply.pending
      /\ reply' = [pending |-> TRUE, ready |-> FALSE, epoch |-> stream.epoch,
                   sequence |-> stream.sequence + 1, fd |-> reply.fd]
  BY DEF Readback, ReplyBegin
<1>3. reply'.fd = 0 BY <1>2 DEF ReplyInv
<1> QED BY <1>1, <1>3 DEF ReplyInv, AnswerIsOwn

(* What is handed over is the descriptor of the request that ends.           *)
LEMMA EndedReply == ASSUME FramesInv, ReplyInv, ReadbackEnds PROVE ReplyInv'
<1>1. PICK cancelled \in BOOLEAN :
        /\ ReplyFinish
        /\ answer' = [asked |-> reply.sequence, outcome |-> Outcome(cancelled, closed),
                      of |-> reply.fd]
  BY DEF ReadbackEnds
<1>2. reply \in Reply BY DEF FramesInv, ProducerShape
<1>3. reply'.fd = 0 BY <1>1, <1>2 DEF ReplyFinish, Reply
<1>4. reply.fd = 0 => Outcome(cancelled, closed) # "ok" BY DEF Outcome
<1>5. AnswerIsOwn' BY <1>1, <1>4 DEF AnswerIsOwn, ReplyInv
<1> QED BY <1>3, <1>5 DEF ReplyInv

(* An answer is kept only while the request it names waits.                  *)
LEMMA StoredReply ==
    ASSUME FramesInv, ReplyInv, NEW r \in ReplyMsg, ReplyReceive(r), answer' = answer
    PROVE  ReplyInv'
<1>1. reply \in Reply BY DEF FramesInv, ProducerShape
<1>2. CASE Receipt(r) = "stored"
  <2>1. reply.pending /\ Matches(r) BY <1>2 DEF Receipt
  <2> DEFINE fd == IF r.ok THEN r.sequence ELSE 0
  <2>2. reply' = [reply EXCEPT !.ready = TRUE, !.fd = fd] BY <1>2 DEF ReplyReceive
  <2>3. fd = 0 \/ fd = reply.sequence BY <2>1 DEF Matches
  <2>4. fd \in Nat BY <2>3, <1>1 DEF Reply
  <2> HIDE DEF fd
  <2>5. reply'.fd = fd /\ reply'.pending /\ reply'.sequence = reply.sequence
    BY <1>1, <2>1, <2>2 DEF Reply
  <2> QED BY <2>3, <2>5 DEF ReplyInv, AnswerIsOwn
<1>3. CASE Receipt(r) # "stored"
  <2>1. reply' = reply BY <1>3 DEF ReplyReceive
  <2> QED BY <2>1, ReplySame
<1> QED BY <1>2, <1>3

LEMMA BackReply == ASSUME FramesInv, ReplyInv, ReceiveBack PROVE ReplyInv'
<1> DEFINE m == Head(back)
<1>1. /\ back # <<>> /\ UNCHANGED answer
      /\ m.kind = "reply" => ReplyReceive(m)
      /\ m.kind # "reply" => UNCHANGED reply
  BY DEF ReceiveBack
<1>2. m \in BackMsg BY <1>1, TailOf DEF FramesInv, WireShape
<1>3. CASE m.kind = "reply"
  <2>1. m \in ReplyMsg BY <1>2, <1>3 DEF BackMsg, ReleaseMsg
  <2> HIDE DEF m
  <2> QED BY <1>1, <1>3, <2>1, StoredReply
<1>4. CASE m.kind # "reply" BY <1>1, <1>4, ReplySame
<1> QED BY <1>3, <1>4

LEMMA ReplyNext == ASSUME FramesInv, ReplyInv, [Next]_vars PROVE ReplyInv'
<1>1. CASE Guest
  <2>0. ASSUME UNCHANGED <<reply, answer>> PROVE ReplyInv' BY <2>0, ReplySame
  <2>1. CASE NewDrawable BY <2>0, <2>1 DEF NewDrawable
  <2>2. CASE Begin BY <2>0, <2>2 DEF Begin
  <2>3. CASE GiveUp BY <2>0, <2>3 DEF GiveUp
  <2>4. CASE \E image \in Images : PresentImage(image)
    <3>1. PICK image \in Images : PresentImage(image) BY <2>4
    <3> QED BY <2>0, <3>1 DEF PresentImage
  <2>5. CASE \E kind \in CpuKinds : CpuRecord(kind)
    <3>1. PICK kind \in CpuKinds : CpuRecord(kind) BY <2>5
    <3> QED BY <2>0, <3>1, QueueQuiet DEF CpuRecord
  <2>6. CASE CpuMemoryFails BY <2>0, <2>6 DEF CpuMemoryFails
  <2>7. CASE Paint BY <2>0, <2>7, QueueQuiet DEF Paint
  <2>8. CASE Blit BY <2>0, <2>8, QueueQuiet DEF Blit
  <2>9. CASE Discard BY <2>0, <2>9, QueueQuiet DEF Discard
  <2>10. CASE Readback BY <2>10, AskedReply
  <2>11. CASE ReadbackEnds BY <2>11, EndedReply
  <2>12. CASE FreeDrawable
    <3>1. PICK d \in Drawable :
            /\ IF drawables[d].published = Zero
                 THEN UNCHANGED <<slots, next_epoch, output, sending, consumer, wire, stream,
                                  answer, shown>>
                 ELSE Queue([Record("drop", 0, 0) EXCEPT !.d = d,
                                                         !.anchor = drawables[d].published],
                            stream.seeded)
            /\ UNCHANGED reply
      BY <2>12 DEF FreeDrawable
    <3>2. CASE drawables[d].published = Zero BY <2>0, <3>1, <3>2
    <3>3. CASE drawables[d].published # Zero BY <2>0, <3>1, <3>3, QueueQuiet
    <3> QED BY <3>2, <3>3
  <2>13. CASE DeviceReset BY <2>0, <2>13, QueueQuiet DEF DeviceReset
  <2> QED
    BY <1>1, <2>1, <2>2, <2>3, <2>4, <2>5, <2>6, <2>7, <2>8, <2>9, <2>10, <2>11, <2>12, <2>13
    DEF Guest
<1>2. CASE OutputThread
  BY <1>2, ReplySame DEF OutputThread, Pop, PublishSlot, Send, Settle
<1>3. CASE ReceiveBack BY <1>3, BackReply
<1>4. CASE Sdk
  <2>1. Untouched
    BY <1>4 DEF Sdk, MachReceive, UnixReceive, ReceiverSleeps, ReceiverWakes, Update, Finish,
                Answer, Frame, Windows, Drop, CpuFrame, Write
  <2> QED BY <2>1, ReplySame DEF Untouched
<1>5. CASE Hangup BY <1>5, ReplySame DEF Hangup, Untouched
<1>6. CASE UNCHANGED vars BY <1>6, ReplySame DEF vars
<1> QED BY <1>1, <1>2, <1>3, <1>4, <1>5, <1>6 DEF Next

-----------------------------------------------------------------------------
LEMMA InitStale == Init => RetireInv /\ ReplyInv
<1> SUFFICES ASSUME Init PROVE RetireInv /\ ReplyInv OBVIOUS
<1>1. /\ desktop.resources = {} /\ frames.windows = {} /\ frames.owner = {}
      /\ desktop.dropped = [d \in Drawable |-> Zero]
      /\ desktop.received = [d \in Drawable |-> Zero]
      /\ order = [epoch |-> 0, generations |-> [d \in Drawable |-> 0]]
  BY DEF Init, TransportInit
<1>2. /\ past = [cutoff |-> [d \in Drawable |-> Zero], authority |-> "cpu"]
      /\ answer.outcome = "none" /\ reply.fd = 0
  BY DEF Init, CpuInit, NoReply
<1>3. past \in [cutoff : [Drawable -> Pair], authority : {"cpu", "gpu"}]
  BY <1>2 DEF Pair, Zero
<1>4. \A d \in Drawable : Got(d) = Zero BY <1>1 DEF Got, Zero
<1>5. \A d \in Drawable : /\ Remembered(desktop, d, past.cutoff[d])
                          /\ desktop.received[d] \preceq Got(d)
  BY <1>1, <1>2, <1>4 DEF Remembered, Zero, \preceq
<1>6. NoZombie BY <1>1 DEF NoZombie
<1>7. RetireInv BY <1>3, <1>5, <1>6 DEF RetireInv
<1> QED BY <1>2, <1>7 DEF ReplyInv, AnswerIsOwn

LEMMA StaleNext ==
    FramesInv /\ RetireInv /\ ReplyInv /\ [Next]_vars => RetireInv' /\ ReplyInv'
BY RetireNext, ReplyNext

LEMMA StaleNever == RetireInv /\ ReplyInv => NothingStale
BY DEF RetireInv, ReplyInv, NothingStale

(* Retirement is final and an answer is never that of a cancelled request:   *)
(* whatever overtakes what on the two channels, no image at or before a      *)
(* cutoff that was carried out is kept or shown, and a readback that ends    *)
(* well is given the bytes of its own request.                               *)
THEOREM StaleCorrect == Spec => []NothingStale
<1>1. Init => FramesInv /\ RetireInv /\ ReplyInv BY InitInv, InitStale
<1>2. FramesInv /\ RetireInv /\ ReplyInv /\ [Next]_vars
        => (FramesInv /\ RetireInv /\ ReplyInv)'
  BY InvKept, StaleNext
<1> QED BY <1>1, <1>2, StaleNever, PTL DEF Spec
=============================================================================
