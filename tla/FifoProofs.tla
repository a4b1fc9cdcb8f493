------------------------------ MODULE FifoProofs ------------------------------
(***************************************************************************)
(* Safety of the queue path, for every value of the constants: what the    *)
(* path promises its user.  One invariant carries the next:                *)
(*                                                                         *)
(*   RingInOrder  host and frontend agree about the ring, so the slot that *)
(*                is read is that of the next submitted descriptor         *)
(*                (StatusTruthful);                                        *)
(*   DescInOrder  so the words the fetch stub holds are that descriptor's  *)
(*                (the refinement of JobQueue);                            *)
(*   NpuInTime    the NPU is done before the payload fetch is              *)
(*                (ExecNeverBusy);                                         *)
(*   JobFlow      so what travels from descriptor to payload, NPU and      *)
(*                store belongs to one job (StoredResultIsOwn).            *)
(*                                                                         *)
(* The ring is a circle: Onward and Lag move along it and measure on it    *)
(* without remainders, which the provers handle badly.                     *)
(***************************************************************************)
EXTENDS QueueProofs

(* The ring as a circle: the slot n places after slot s, and how far slot  *)
(* t is behind it, for distances up to a whole lap.                        *)
Onward(s, n) == IF s + n < EntryCount THEN s + n ELSE s + n - EntryCount
Lag(s, t) == IF s <= t THEN t - s ELSE t - s + EntryCount

(* The next slot, without remainders.                                      *)
LEMMA NextIsOnward == \A s \in Slots : NextSlot(s) = Onward(s, 1) /\ s % EntryCount = s
<1> SUFFICES ASSUME NEW s \in Slots
             PROVE  NextSlot(s) = Onward(s, 1) /\ s % EntryCount = s
  OBVIOUS
<1>0. EntryCount \in Nat \ {0} /\ s \in 0..EntryCount-1
  BY TypesAssumption DEF TypesAssumption, Slots
<1>r. \A q \in Int : \A r \in 0..EntryCount-1 : (EntryCount * q + r) % EntryCount = r
  BY <1>0
<1>1. s % EntryCount = s
  <2>1. s = EntryCount * 0 + s
    BY <1>0
  <2> QED
    BY <1>0, <1>r, <2>1
<1>2. CASE s + 1 < EntryCount
  <2>1. s + 1 = EntryCount * 0 + (s + 1) /\ s + 1 \in 0..EntryCount-1
    BY <1>0, <1>2
  <2>2. (s + 1) % EntryCount = s + 1
    BY <1>r, <2>1
  <2> QED
    BY <1>1, <1>2, <2>2 DEF NextSlot, Onward
<1>3. CASE s + 1 = EntryCount
  <2>1. s + 1 = EntryCount * 1 + 0 /\ 0 \in 0..EntryCount-1
    BY <1>0, <1>3
  <2>2. (s + 1) % EntryCount = 0
    BY <1>r, <2>1
  <2> QED
    BY <1>0, <1>1, <1>3, <2>2 DEF NextSlot, Onward
<1> QED
  BY <1>0, <1>2, <1>3

(* A counter register holds its count modulo CountMod.                     *)
LEMMA IncMod == \A n \in Nat : Inc(n % CountMod) = (n + 1) % CountMod
<1> SUFFICES ASSUME NEW n \in Nat PROVE Inc(n % CountMod) = (n + 1) % CountMod
  OBVIOUS
<1>0. CountMod \in Nat /\ CountMod > 1
  BY TypesAssumption DEF TypesAssumption
<1> DEFINE q == n \div CountMod
           r == n % CountMod
<1>1. n = CountMod * q + r /\ r \in 0..CountMod-1 /\ q \in Int
  BY <1>0
<1> HIDE DEF q
<1>2. CASE r + 1 < CountMod
  <2>1. r + 1 = CountMod * 0 + (r + 1) /\ r + 1 \in 0..CountMod-1
    BY <1>0, <1>1, <1>2
  <2>2. (r + 1) % CountMod = r + 1
    BY <2>1, Remainder
  <2>3. n + 1 = CountMod * q + (r + 1)
    BY <1>0, <1>1
  <2>4. (n + 1) % CountMod = r + 1
    BY <1>1, <2>1, <2>3, Remainder
  <2> QED
    BY <2>2, <2>4 DEF Inc
<1>3. CASE r + 1 = CountMod
  <2>1. r + 1 = CountMod * 1 + 0 /\ 0 \in 0..CountMod-1
    BY <1>0, <1>1, <1>3
  <2>2. (r + 1) % CountMod = 0
    BY <2>1, Remainder
  <2>3. n + 1 = CountMod * (q + 1) + 0
    BY <1>0, <1>1, <1>3
  <2>4. (n + 1) % CountMod = 0
    BY <1>1, <2>1, <2>3, Remainder
  <2> QED
    BY <2>2, <2>4 DEF Inc
<1> QED
  BY <1>0, <1>1, <1>2, <1>3

(* The library's handle h, the queue registers r and the ring m agree with *)
(* a frontend whose tail is t and that has retired d descriptors: the      *)
(* slots from t on hold the descriptors d + 1, d + 2, ... up to the last   *)
(* one pushed, HEAD is behind the last one submitted, and the tail the     *)
(* library knows is not further behind than the ring has room for.         *)
InRing(t, d, h, r, m) ==
  /\ h.pc \notin {"reset_head", "reset_tail", "reset_doorbell"}
  /\ d <= h.exposed /\ h.exposed <= h.pushed
  /\ Lag(h.cached_tail, t) + h.pushed - d <= EntryCount - 1
  /\ h.pc = "pushing" => Lag(h.cached_tail, t) + h.pushed - d < EntryCount - 1
  /\ h.pc # "forward" => r.cmdq_tail = h.cached_tail
  /\ r.cmdq_head = Onward(t, h.exposed - d)
  /\ h.cached_head = Onward(t, h.pushed - d)
  /\ \A i \in Slots : i < h.pushed - d => m[Onward(t, i)] = [lo |-> d+i+1, hi |-> d+i+1]
  /\ h.pc = "pushing" => m[h.cached_head].lo = h.pushed + 1

(* Retiring a descriptor keeps the agreement.                              *)
LEMMA RetiredInRing ==
  ASSUME NEW t \in Slots, NEW d \in Nat, NEW h, NEW r, NEW m, InRing(t, d, h, r, m),
         h.pushed \in Nat, h.exposed \in Nat, h.cached_tail \in Slots, d < h.exposed
  PROVE  InRing(Onward(t, 1), d + 1, h, r, m)
<1>0. EntryCount \in Nat \ {0} /\ Slots = 0..EntryCount-1
  BY TypesAssumption DEF TypesAssumption, Slots
<1> DEFINE lag == Lag(h.cached_tail, t)
<1>1. /\ d < h.pushed /\ h.exposed <= h.pushed
      /\ lag + h.pushed - d <= EntryCount - 1
  BY DEF InRing
<1>l. lag \in Slots
  BY <1>0 DEF Lag
<1>2. lag + 1 < EntryCount
  <2> HIDE DEF lag
  <2> QED
    BY <1>0, <1>1, <1>l
<1>n. Lag(h.cached_tail, Onward(t, 1)) = lag + 1
  BY <1>0, <1>2 DEF Lag, Onward
<1>3. h.pushed - d \in 1..EntryCount-1 /\ h.exposed - d \in 1..EntryCount-1
  <2> HIDE DEF lag
  <2> QED
    BY <1>0, <1>1, <1>l
<1>4. \A n \in 1..EntryCount : Onward(Onward(t, 1), n - 1) = Onward(t, n)
  BY <1>0 DEF Onward
<1>5. r.cmdq_head = Onward(Onward(t, 1), h.exposed - (d + 1))
  BY <1>0, <1>3, <1>4 DEF InRing
<1>6. h.cached_head = Onward(Onward(t, 1), h.pushed - (d + 1))
  <2>1. h.cached_head = Onward(t, h.pushed - d)
    BY DEF InRing
  <2>2. Onward(Onward(t, 1), h.pushed - d - 1) = Onward(t, h.pushed - d)
    BY <1>0, <1>3, <1>4
  <2>3. h.pushed - d - 1 = h.pushed - (d + 1)
    OBVIOUS
  <2> QED
    BY <2>1, <2>2, <2>3
<1>7. ASSUME NEW i \in Slots, i < h.pushed - (d + 1)
      PROVE  m[Onward(Onward(t, 1), i)] = [lo |-> d+1+i+1, hi |-> d+1+i+1]
  <2>1. i + 1 \in Slots /\ i + 1 < h.pushed - d
    BY <1>0, <1>3, <1>7
  <2>2. m[Onward(t, i + 1)] = [lo |-> d+(i+1)+1, hi |-> d+(i+1)+1]
    BY <2>1 DEF InRing
  <2>3. Onward(Onward(t, 1), i) = Onward(t, i + 1)
    BY <1>0, <2>1, <1>4
  <2>4. d+(i+1)+1 = d+1+i+1
    BY <1>0
  <2> QED
    BY <2>2, <2>3, <2>4
<1>8. /\ Lag(h.cached_tail, Onward(t, 1)) + h.pushed - (d + 1)
           = Lag(h.cached_tail, t) + h.pushed - d
  <2> HIDE DEF lag
  <2>1. Lag(h.cached_tail, t) = lag
    BY DEF lag
  <2> QED
    BY <1>0, <1>l, <1>n, <2>1
<1>9. d + 1 <= h.exposed
  OBVIOUS
<1> QED
  BY <1>5, <1>6, <1>7, <1>8, <1>9 DEF InRing

-----------------------------------------------------------------------------
(* One slot further, and the slot that is a whole lap ahead.               *)
LEMMA OnwardNext ==
  ASSUME NEW s \in Slots, NEW n \in Slots
  PROVE  /\ Onward(Onward(s, n), 1) = Onward(s, n + 1)
         /\ \A z \in Slots : Lag(z, s) + n = EntryCount - 1 => Onward(s, n + 1) = z
<1>0. EntryCount \in Nat \ {0} /\ s \in 0..EntryCount-1 /\ n \in 0..EntryCount-1
  BY TypesAssumption DEF TypesAssumption, Slots
<1>1. Onward(Onward(s, n), 1) = Onward(s, n + 1)
  BY <1>0 DEF Onward
<1>2. ASSUME NEW z \in Slots, Lag(z, s) + n = EntryCount - 1 PROVE Onward(s, n + 1) = z
  <2>0. z \in 0..EntryCount-1
    BY DEF Slots
  <2>1. CASE z <= s
    BY <1>0, <1>2, <2>0, <2>1 DEF Onward, Lag
  <2>2. CASE ~(z <= s)
    BY <1>0, <1>2, <2>0, <2>2 DEF Onward, Lag
  <2> QED
    BY <2>1, <2>2
<1> QED
  BY <1>1, <1>2

(* A step of the software keeps the agreement, unless it is a reset or a   *)
(* disable: push finds the ring full in time although the TAIL it compares *)
(* with is old, and rewrites no slot that has not been retired.            *)
LEMMA SoftInRing ==
  ASSUME HostTypeOK, RegsTypeOK, FeTypeOK, NEW d \in Nat,
         InRing(fe.cmdq_tail_shadow, d, host, regs, ring), SoftStep,
         host'.disables = 0, host'.resets = 0
  PROVE  InRing(fe.cmdq_tail_shadow, d, host', regs', ring')
<1> DEFINE t == fe.cmdq_tail_shadow
<1>0. EntryCount \in Nat \ {0} /\ Slots = 0..EntryCount-1
  BY TypesAssumption DEF TypesAssumption, Slots
<1>t. /\ t \in Slots /\ host.cached_tail \in Slots /\ host.cached_head \in Slots
      /\ host.pushed \in Nat /\ host.exposed \in Nat
      /\ host.disables \in Nat /\ host.resets \in Nat
      /\ ring \in [Slots -> Slot]
  BY HostAssumption DEF HostTypeOK, FeTypeOK, FeRegs, HostAssumption, Ids
<1>i. /\ host.pc \notin {"reset_head", "reset_tail", "reset_doorbell"}
      /\ d <= host.exposed /\ host.exposed <= host.pushed
      /\ Lag(host.cached_tail, t) + host.pushed - d <= EntryCount - 1
      /\ host.pc = "pushing" => Lag(host.cached_tail, t) + host.pushed - d < EntryCount - 1
      /\ host.pc # "forward" => regs.cmdq_tail = host.cached_tail
      /\ regs.cmdq_head = Onward(t, host.exposed - d)
      /\ host.cached_head = Onward(t, host.pushed - d)
      /\ \A i \in Slots : i < host.pushed - d =>
           ring[Onward(t, i)] = [lo |-> d+i+1, hi |-> d+i+1]
      /\ host.pc = "pushing" => ring[host.cached_head].lo = host.pushed + 1
  BY DEF InRing
<1> HIDE DEF t
<1>l. Lag(host.cached_tail, t) \in Slots
  BY <1>0, <1>t DEF Lag
<1>n. host.pushed - d \in 0..EntryCount-1 /\ host.exposed - d \in 0..EntryCount-1
  <2>1. /\ d <= host.exposed /\ host.exposed <= host.pushed
        /\ Lag(host.cached_tail, t) + host.pushed - d <= EntryCount - 1
    BY <1>i
  <2>2. /\ EntryCount \in Nat /\ Lag(host.cached_tail, t) \in Nat
        /\ host.pushed \in Nat /\ host.exposed \in Nat
    BY <1>0, <1>t, <1>l
  <2> QED
    BY <2>1, <2>2
<1>o. \A i \in Slots : Onward(t, i) \in Slots
  BY <1>0, <1>t DEF Onward
<1>d. \A i, j \in Slots : Onward(t, i) = Onward(t, j) => i = j
  BY <1>0, <1>t DEF Onward
<1>g. SUFFICES InRing(t, d, host', regs', ring')
  BY DEF t
<1>1. CASE SoftPush
  <2>1. NextSlot(host.cached_head) = Onward(host.cached_head, 1)
    BY <1>t, NextIsOnward
  <2>2. Onward(host.cached_head, 1) # host.cached_tail
    BY <1>1, <2>1 DEF SoftPush
  <2>3. Lag(host.cached_tail, t) + host.pushed - d < EntryCount - 1
    <3>1. CASE Lag(host.cached_tail, t) + host.pushed - d = EntryCount - 1
      <4> DEFINE n == host.pushed - d
      <4>1. host.cached_head = Onward(t, n) /\ n \in Slots
        BY <1>0, <1>i, <1>n
      <4>2. Lag(host.cached_tail, t) + n = EntryCount - 1
        BY <1>0, <1>t, <1>l, <3>1
      <4> HIDE DEF n
      <4>3. Onward(Onward(t, n), 1) = host.cached_tail
        BY <1>t, <4>1, <4>2, OnwardNext
      <4> QED
        BY <2>2, <4>1, <4>3
    <3> DEFINE n == host.pushed - d
    <3>2. Lag(host.cached_tail, t) + n <= EntryCount - 1 /\ n \in Int
      BY <1>0, <1>t, <1>i, <1>l
    <3>3. Lag(host.cached_tail, t) + host.pushed - d = Lag(host.cached_tail, t) + n
      BY <1>0, <1>t, <1>l
    <3> HIDE DEF n
    <3> QED
      BY <1>0, <1>l, <3>1, <3>2, <3>3
  <2>4. \A i \in Slots : i < host.pushed - d => ring'[Onward(t, i)] = ring[Onward(t, i)]
    BY <1>t, <1>i, <1>n, <1>o, <1>d, <1>0, <1>1 DEF SoftPush
  <2>5. ring'[host.cached_head].lo = host.pushed + 1
    BY <1>t, <1>1 DEF SoftPush, Slot
  <2> QED
    BY <1>i, <1>1, <2>3, <2>4, <2>5 DEF SoftPush, HostIs, SameRegs, QueueRegs, InRing
<1>2. CASE SoftPushed
  <2>1. host.cached_head = Onward(t, host.pushed - d)
    BY <1>i
  <2>2. NextSlot(host.cached_head) = Onward(t, (host.pushed + 1) - d)
    <3>1. NextSlot(host.cached_head) = Onward(host.cached_head, 1)
      BY <1>t, NextIsOnward
    <3>2. host.pushed - d \in Slots /\ (host.pushed + 1) - d = (host.pushed - d) + 1
      BY <1>0, <1>t, <1>n
    <3> QED
      BY <1>t, <2>1, <3>1, <3>2, OnwardNext
  <2>3. ring'[host.cached_head] = [lo |-> host.pushed + 1, hi |-> host.pushed + 1]
    <3>1. ring[host.cached_head].lo = host.pushed + 1 /\ ring[host.cached_head] \in Slot
      BY <1>t, <1>i, <1>2 DEF SoftPushed
    <3>2. ring'[host.cached_head] = [ring[host.cached_head] EXCEPT !.hi = host.pushed + 1]
      BY <1>t, <1>2 DEF SoftPushed
    <3> QED
      BY <3>1, <3>2 DEF Slot
  <2>4. \A i \in Slots : i < host.pushed - d => ring'[Onward(t, i)] = ring[Onward(t, i)]
    BY <1>t, <1>i, <1>n, <1>o, <1>d, <1>0, <1>2 DEF SoftPushed
  <2>5. ASSUME NEW i \in Slots, i < (host.pushed + 1) - d
        PROVE  ring'[Onward(t, i)] = [lo |-> d+i+1, hi |-> d+i+1]
    <3>1. CASE i < host.pushed - d
      BY <1>i, <2>4, <3>1
    <3>2. CASE i = host.pushed - d
      <4>1. d + i + 1 = host.pushed + 1
        BY <1>t, <3>2
      <4> QED
        BY <2>1, <2>3, <3>2, <4>1
    <3>3. i < host.pushed - d \/ i = host.pushed - d
      BY <1>0, <1>t, <2>5
    <3> QED
      BY <3>1, <3>2, <3>3
  <2>6. /\ host'.pc = "idle" /\ host'.cached_head = Onward(t, (host.pushed + 1) - d)
        /\ host'.cached_tail = host.cached_tail /\ host'.pushed = host.pushed + 1
        /\ host'.exposed = host.exposed
        /\ regs'.cmdq_head = regs.cmdq_head /\ regs'.cmdq_tail = regs.cmdq_tail
    BY <1>2, <2>2 DEF SoftPushed, HostIs, SameRegs, QueueRegs
  <2>7. /\ Lag(host.cached_tail, t) + (host.pushed + 1) - d <= EntryCount - 1
        /\ host.exposed <= host.pushed + 1
    BY <1>0, <1>t, <1>i, <1>l, <1>2 DEF SoftPushed
  <2>8. regs.cmdq_tail = host.cached_tail
    BY <1>i, <1>2 DEF SoftPushed
  <2> QED
    <3>1. \A i \in Slots : i < host'.pushed - d =>
            ring'[Onward(t, i)] = [lo |-> d+i+1, hi |-> d+i+1]
      BY <2>5, <2>6
    <3>2. /\ d <= host'.exposed /\ host'.exposed <= host'.pushed
          /\ Lag(host'.cached_tail, t) + host'.pushed - d <= EntryCount - 1
          /\ regs'.cmdq_tail = host'.cached_tail
          /\ regs'.cmdq_head = Onward(t, host'.exposed - d)
          /\ host'.cached_head = Onward(t, host'.pushed - d)
      BY <1>i, <2>6, <2>7, <2>8
    <3> QED
      BY <2>6, <3>1, <3>2 DEF InRing
<1>3. CASE SoftSubmit
  <2>1. /\ host'.pc = "doorbell" /\ host'.cached_head = host.cached_head
        /\ host'.cached_tail = host.cached_tail /\ host'.pushed = host.pushed
        /\ host'.exposed = host.pushed /\ ring' = ring
        /\ regs'.cmdq_head = host.cached_head /\ regs'.cmdq_tail = regs.cmdq_tail
        /\ host.pc = "idle"
    BY <1>3 DEF SoftSubmit, HostIs, QueueRegs
  <2>2. d <= host.pushed /\ host.pushed <= host.pushed
    BY <1>t, <1>i
  <2> QED
    BY <1>i, <2>1, <2>2 DEF InRing
<1>4. CASE SoftDoorbell
  BY <1>i, <1>4 DEF SoftDoorbell, HostIs, SameRegs, QueueRegs, InRing
<1>5. CASE SoftSync
  <2>1. /\ host'.pc = "idle" /\ host'.cached_head = regs.cmdq_head
        /\ host'.cached_tail = host.cached_tail /\ host'.pushed = host.exposed
        /\ host'.exposed = host.exposed /\ ring' = ring
        /\ regs'.cmdq_head = regs.cmdq_head /\ regs'.cmdq_tail = host.cached_tail
    BY <1>5, <1>i DEF SoftSync, HostIs, SameRegs, QueueRegs
  <2>2. Lag(host.cached_tail, t) + host.exposed - d <= EntryCount - 1
    BY <1>0, <1>t, <1>i, <1>l
  <2>3. \A i \in Slots : i < host.exposed - d => i < host.pushed - d
    BY <1>0, <1>t, <1>i
  <2> QED
    BY <1>t, <1>i, <2>1, <2>2, <2>3 DEF InRing
<1>6. CASE SoftReset
  BY <1>t, <1>i, <1>6 DEF SoftReset
<1>7. CASE SoftReadShadow
  <2>1. Lag(t, t) = 0
    BY <1>0, <1>t DEF Lag
  <2>2. Lag(t, t) + host.pushed - d <= EntryCount - 1
    BY <1>0, <1>t, <1>n, <2>1
  <2> QED
    BY <1>i, <1>7, <2>2 DEF SoftReadShadow, HostIs, SameRegs, QueueRegs, InRing, t
<1>8. CASE SoftForward
  BY <1>i, <1>8 DEF SoftForward, HostIs, QueueRegs, InRing
<1>9. CASE SoftEnable
  BY <1>i, <1>9 DEF SoftEnable, SameHost, QueueRegs, InRing
<1>10. CASE SoftDisable
  BY <1>t, <1>10 DEF SoftDisable
<1>11. CASE SoftDirect
  BY <1>i, <1>11 DEF SoftDirect, SameHost, SameRegs, QueueRegs, InRing
<1> QED
  BY <1>1, <1>2, <1>3, <1>4, <1>5, <1>6, <1>7, <1>8, <1>9, <1>10, <1>11 DEF SoftStep

-----------------------------------------------------------------------------
(* While the queue is neither disabled nor reset, the ring is a FIFO: host *)
(* and frontend agree about it, the descriptor asked for is the one at the *)
(* tail and is a submitted one, and the counters count what was retired.   *)
RingInOrder ==
  host.disables = 0 /\ host.resets = 0 =>
    /\ InRing(fe.cmdq_tail_shadow, Len(hist), host, regs, ring)
    /\ ~enable => /\ fe.cmdq_tail_shadow = 0 /\ regs.cmdq_tail = 0 /\ hist = <<>>
                  /\ host.cached_tail = 0 /\ host.pc # "forward"
                  /\ ~fe.fetch_valid /\ ~fe.fetch_inflight
    /\ fe.fetch_valid \/ fe.fetch_inflight =>
         fe.fetch_slot = fe.cmdq_tail_shadow /\ Len(hist) < host.exposed
    /\ fe.processed_count = Len(hist) % CountMod
    /\ fe.cmdq_status.processed = Len(hist) % CountMod
    /\ host.pc # "doorbell" /\ fe.cmdq_status.empty => Len(hist) = host.exposed

(* A count of nothing.                                                     *)
LEMMA ZeroMod == 0 % CountMod = 0
<1>1. 0 = CountMod * 0 + 0 /\ 0 \in 0..CountMod-1
  BY TypesAssumption DEF TypesAssumption
<1> QED
  BY <1>1, Remainder

(* The ring is empty at reset.                                             *)
LEMMA RingInOrderInit == Init => RingInOrder
<1> SUFFICES ASSUME Init PROVE RingInOrder
  OBVIOUS
<1>0. EntryCount \in Nat \ {0} /\ Slots = 0..EntryCount-1
  BY TypesAssumption DEF TypesAssumption, Slots
<1>1. InRing(fe.cmdq_tail_shadow, Len(hist), host, regs, ring)
  <2>1. Len(hist) = 0
    BY DEF Init
  <2>2. Onward(0, 0 - 0) = 0 /\ Lag(0, 0) = 0
    BY <1>0 DEF Onward, Lag
  <2> QED
    BY <1>0, <2>1, <2>2 DEF Init, FeInit, HostInit, RegsInit, InRing
<1> QED
  BY <1>1, ZeroMod DEF Init, FeInit, HostInit, RegsInit, RingInOrder, enable

(* What the software does while the queue is still off, and how far the    *)
(* last submitted descriptor can move.                                     *)
LEMMA SoftBeforeEnable ==
  ASSUME HostTypeOK, SoftStep, host'.disables = 0, host'.resets = 0,
         host.pc \notin {"reset_head", "reset_tail", "reset_doorbell"}, host.exposed <= host.pushed
  PROVE  /\ host.exposed <= host'.exposed
         /\ host'.pc # "doorbell" => host'.exposed = host.exposed
         /\ /\ ~enable /\ regs.cmdq_tail = 0 /\ host.cached_tail = 0
            /\ host.pc # "forward"
            => regs'.cmdq_tail = 0 /\ host'.cached_tail = 0 /\ host'.pc # "forward"
<1>t. /\ host.pushed \in Nat /\ host.exposed \in Nat
      /\ host.disables \in Nat /\ host.resets \in Nat
  BY HostAssumption DEF HostTypeOK, HostAssumption, Ids
<1>1. ~SoftReset /\ ~SoftDisable
  BY <1>t DEF SoftReset, SoftDisable
<1> QED
  BY <1>t, <1>1 DEF SoftStep, SoftPush, SoftPushed, SoftSubmit, SoftDoorbell, SoftSync,
     SoftReadShadow, SoftForward, SoftEnable, SoftDirect, SameRegs, SameHost, HostIs,
     QueueRegs, enable

(* RingInOrder is inductive relative to TypeOK and Handshake.              *)
LEMMA RingInOrderStep == TypeOK /\ Handshake /\ RingInOrder /\ [Next]_vars => RingInOrder'
<1> SUFFICES ASSUME TypeOK, Handshake, RingInOrder, [Next]_vars PROVE RingInOrder'
  OBVIOUS
<1>1. CASE UNCHANGED vars
  BY <1>1 DEF vars, RingInOrder, InRing, enable
<1>2. CASE Next
  <2> DEFINE t == fe.cmdq_tail_shadow
             d == Len(hist)
  <2> SUFFICES ASSUME host'.disables = 0, host'.resets = 0
               PROVE  /\ InRing(t', d', host', regs', ring')
                      /\ ~enable' => /\ t' = 0 /\ regs'.cmdq_tail = 0 /\ hist' = <<>>
                                     /\ host'.cached_tail = 0 /\ host'.pc # "forward"
                                     /\ ~fe'.fetch_valid /\ ~fe'.fetch_inflight
                      /\ fe'.fetch_valid \/ fe'.fetch_inflight =>
                           fe'.fetch_slot = t' /\ d' < host'.exposed
                      /\ fe'.processed_count = d' % CountMod
                      /\ fe'.cmdq_status.processed = d' % CountMod
                      /\ host'.pc # "doorbell" /\ fe'.cmdq_status.empty => d' = host'.exposed
    BY DEF RingInOrder
  <2>p. PICK arready \in BOOLEAN : ReadEdge(arready)
    BY <1>2, NextReadEdge
  <2>h. host.disables = 0 /\ host.resets = 0 /\ (enable => enable')
    BY <2>p, EnableStays DEF TypeOK, ReadEdge
  <2>i. /\ InRing(t, d, host, regs, ring)
        /\ ~enable => /\ t = 0 /\ regs.cmdq_tail = 0 /\ hist = <<>>
                      /\ host.cached_tail = 0 /\ host.pc # "forward"
                      /\ ~fe.fetch_valid /\ ~fe.fetch_inflight
        /\ fe.fetch_valid \/ fe.fetch_inflight => fe.fetch_slot = t /\ d < host.exposed
        /\ fe.processed_count = d % CountMod
    BY <2>h DEF RingInOrder
  <2>t. /\ HostTypeOK /\ RegsTypeOK /\ FeTypeOK /\ hist \in Seq(Ids)
        /\ enable \in BOOLEAN /\ fe.fetch_valid \in BOOLEAN /\ fe.fetch_inflight \in BOOLEAN
        /\ fx.desc_done \in BOOLEAN /\ fx.fetch_ready \in BOOLEAN
        /\ t \in Slots /\ d \in Nat /\ host.exposed \in 0..Jobs /\ Jobs \in Nat
        /\ host.pushed \in 0..Jobs /\ host.cached_tail \in Slots
    BY TypesAssumption DEF TypeOK, HostTypeOK, RegsTypeOK, RegFile, enable, FeTypeOK, FeRegs,
       FxTypeOK, FxRegs, TypesAssumption, Ids
  <2>f. /\ FeStep(enable, regs.cmdq_head, regs.cmdq_tail, fx.fetch_ready, fx.desc_done)
        /\ SoftStep /\ HistClock
    BY <2>p DEF ReadEdge
  <2>s. InRing(t, d, host', regs', ring')
    BY <2>t, <2>i, <2>f, SoftInRing
  <2>r. /\ host.pc \notin {"reset_head", "reset_tail", "reset_doorbell"}
        /\ d <= host.exposed /\ host.exposed <= host.pushed
        /\ regs.cmdq_head = Onward(t, host.exposed - d)
        /\ host.exposed - d \in 0..EntryCount-1
    <3>1. Lag(host.cached_tail, t) \in Nat
      BY <2>t, TypesAssumption DEF Lag, Slots, TypesAssumption
    <3>2. Lag(host.cached_tail, t) + host.pushed - d <= EntryCount - 1
      BY <2>i DEF InRing
    <3>3. /\ host.pc \notin {"reset_head", "reset_tail", "reset_doorbell"}
          /\ d <= host.exposed /\ host.exposed <= host.pushed
          /\ regs.cmdq_head = Onward(t, host.exposed - d)
      BY <2>i DEF InRing
    <3> HIDE DEF t, d
    <3> QED
      BY <2>t, <3>1, <3>2, <3>3, TypesAssumption DEF TypesAssumption
  <2>b. /\ host.exposed <= host'.exposed
        /\ host'.pc # "doorbell" => host'.exposed = host.exposed
        /\ /\ ~enable /\ regs.cmdq_tail = 0 /\ host.cached_tail = 0
           /\ host.pc # "forward"
           => regs'.cmdq_tail = 0 /\ host'.cached_tail = 0 /\ host'.pc # "forward"
    BY <2>t, <2>f, <2>r, SoftBeforeEnable
  <2>x. host'.exposed \in Nat
    BY <2>p, <1>2, NextTyped DEF TypeOK, HostTypeOK, Ids
  <2>e. regs.cmdq_head = t <=> d = host.exposed
    BY <2>t, <2>r, TypesAssumption DEF Onward, Slots, TypesAssumption
  <2>1. CASE ~enable
    <3>1. FeClears(regs.cmdq_head, regs.cmdq_tail) /\ hist' = hist
      BY <2>1, <2>f DEF FeStep, HistClock
    <3>2. t' = t /\ d' = d /\ d = 0
      BY <2>1, <2>i, <3>1 DEF FeClears
    <3>3. fe'.cmdq_status.empty = (regs.cmdq_head = t)
      BY <2>1, <2>i, <3>1 DEF FeClears
    <3> QED
      BY <2>1, <2>i, <2>s, <2>b, <2>e, <3>1, <3>2, <3>3, ZeroMod DEF FeClears
  <2>2. CASE enable /\ fe.fetch_inflight /\ fx.desc_done
    <3>1. ~fe.fetch_valid /\ d < host.exposed
      BY <2>2, <2>i DEF Handshake, FeExclusive
    <3>2. FeMovesTail(fx.desc_done) /\ FeReports(regs.cmdq_head, fx.desc_done)
      BY <2>2, <2>f, <3>1 DEF FeStep, FeIssues, FeTakes, FeHolds
    <3>3. hist' = Append(hist, JobOf(fx.desc_data))
      <4>1. d <= Jobs
        BY <2>t, <3>1
      <4> QED
        BY <2>2, <2>f, <4>1 DEF HistClock, FeRetires
    <3>4. d' = d + 1
      BY <2>t, <3>3
    <3>5. t' = Onward(t, 1)
      BY <2>t, <3>2, NextIsOnward DEF FeMovesTail
    <3>6. InRing(t', d', host', regs', ring')
      <4>1. host'.pushed \in Nat /\ host'.cached_tail \in Slots
        BY <1>2, NextTyped DEF TypeOK, HostTypeOK, Ids
      <4>2. d < host'.exposed
        BY <2>t, <2>b, <2>x, <3>1
      <4> HIDE DEF t, d
      <4>3. InRing(Onward(t, 1), d + 1, host', regs', ring')
        BY <2>t, <2>s, <2>x, <4>1, <4>2, RetiredInRing
      <4> QED
        BY <3>4, <3>5, <4>3
    <3>7. /\ fe'.processed_count = d' % CountMod
          /\ fe'.cmdq_status.processed = d' % CountMod
      BY <2>2, <2>t, <2>i, <3>2, <3>4, IncMod DEF FeMovesTail, FeReports, FeRetires
    <3>8. /\ fe'.fetch_valid = FALSE /\ fe'.fetch_inflight = FALSE
          /\ fe'.cmdq_status.empty = FALSE
      BY <2>2, <2>t, <3>1, <3>2 DEF FeMovesTail, FeReports
    <3> QED
      BY <2>2, <2>h, <3>6, <3>7, <3>8
  <2>3. CASE enable /\ ~(fe.fetch_inflight /\ fx.desc_done)
    <3>1. /\ FeReports(regs.cmdq_head, fx.desc_done)
          /\ FeIssues(regs.cmdq_head) \/ FeTakes(fx.fetch_ready)
               \/ FeHolds(fx.fetch_ready, fx.desc_done)
      BY <2>3, <2>f DEF FeStep, FeMovesTail
    <3>2. hist' = hist
      BY <2>3, <2>f DEF HistClock, FeRetires
    <3>3. /\ t' = t /\ fe'.processed_count = fe.processed_count
          /\ fe'.cmdq_status.processed = fe.processed_count
          /\ fe'.cmdq_status.empty => ~fe.fetch_valid /\ ~fe.fetch_inflight /\ regs.cmdq_head = t
      BY <2>3, <3>1 DEF FeIssues, FeTakes, FeHolds, FeReports, FeRetires
    <3>4. fe'.fetch_valid \/ fe'.fetch_inflight => fe'.fetch_slot = t /\ d < host.exposed
      <4>1. CASE FeIssues(regs.cmdq_head)
        <5>1. t % EntryCount = t
          BY <2>t, NextIsOnward
        <5>2. d < host.exposed
          BY <2>t, <2>r, <2>e, <4>1 DEF FeIssues
        <5> QED
          BY <4>1, <5>1, <5>2 DEF FeIssues
      <4>2. CASE FeTakes(fx.fetch_ready)
        BY <2>i, <4>2 DEF FeTakes
      <4>3. CASE FeHolds(fx.fetch_ready, fx.desc_done)
        BY <2>i, <4>3 DEF FeHolds
      <4> QED
        BY <3>1, <4>1, <4>2, <4>3
    <3>5. d < host.exposed => d < host'.exposed
      BY <2>t, <2>b, <2>x
    <3> QED
      BY <2>3, <2>h, <2>i, <2>s, <2>b, <2>e, <3>2, <3>3, <3>4, <3>5
  <2> QED
    BY <2>t, <2>1, <2>2, <2>3
<1> QED
  BY <1>1, <1>2

(* CMDQ_STATUS, which software polls, tells the truth about the descriptors*)
(* retired, for any ring size, counter width and memory port, with any     *)
(* errors on the bus, as long as the queue was never disabled or reset.    *)
THEOREM StatusIsTruthful ==
  Spec => [](host.disables = 0 /\ host.resets = 0 => StatusTruthful)
<1>1. Init => TypeOK /\ Handshake /\ RingInOrder
  BY InitTyped, HandshakeInit, RingInOrderInit
<1>2. (TypeOK /\ Handshake /\ RingInOrder) /\ [Next]_vars
        => (TypeOK /\ Handshake /\ RingInOrder)'
  BY NextTyped, HandshakeStep, RingInOrderStep
<1>3. RingInOrder => (host.disables = 0 /\ host.resets = 0 => StatusTruthful)
  BY DEF RingInOrder, StatusTruthful
<1> QED
  BY <1>1, <1>2, <1>3, PTL DEF Spec

-----------------------------------------------------------------------------
(* As long as no beat came back with an error, what the fetch stub holds   *)
(* of a descriptor, and the beat on the bus, are words of the next one.    *)
DescInOrder ==
  host.disables = 0 /\ host.resets = 0 /\ rd.errors = 0 =>
    /\ rd.rvalid => ~rd.rerror
    /\ rd.rvalid /\ arb.owner_desc => rd.rdata = MemWord("desc", Len(hist) + 1, rd.beat)
    /\ fx.active => \A b \in 0..7 :
         b < fx.beat_count => fx.desc_data[b] = MemWord("desc", Len(hist) + 1, b)
    /\ fx.desc_done => fx.desc_data = DescOf(Len(hist) + 1) /\ ~fx.desc_error

(* Nothing was fetched at reset.                                           *)
LEMMA DescInOrderInit == Init => DescInOrder
  BY DEF Init, FxInit, PortInit, DescInOrder

(* A burst that reads the slot at the tail reads the next descriptor.      *)
LEMMA TailSlotRead ==
  ASSUME TypeOK, Handshake, ReadOwned, RingInOrder, host.disables = 0, host.resets = 0,
         rd.busy, arb.owner_desc, NEW b
  PROVE  Fetched(rd.addr, b) = MemWord("desc", Len(hist) + 1, b)
<1>1. /\ fx.active /\ rd.addr = [buf |-> "desc", at |-> fe.fetch_slot]
  BY DEF ReadOwned, BurstOwner
<1>2. fe.fetch_slot = fe.cmdq_tail_shadow /\ Len(hist) < host.exposed
  BY <1>1 DEF Handshake, RingInOrder
<1>t. /\ fe.cmdq_tail_shadow \in Slots /\ Len(hist) \in Nat
      /\ host.exposed \in Nat /\ host.pushed \in Nat
  BY DEF TypeOK, FeTypeOK, FeRegs, HostTypeOK, Ids
<1>3. host.exposed <= host.pushed
  BY DEF RingInOrder, InRing
<1>4. 0 < host.pushed - Len(hist) /\ 0 \in Slots /\ Onward(fe.cmdq_tail_shadow, 0) = fe.cmdq_tail_shadow
  BY <1>2, <1>3, <1>t, TypesAssumption DEF TypesAssumption, Slots, Onward
<1>5. ring[fe.cmdq_tail_shadow] = [lo |-> Len(hist) + 1, hi |-> Len(hist) + 1]
  <2>1. ring[Onward(fe.cmdq_tail_shadow, 0)] = [lo |-> Len(hist)+0+1, hi |-> Len(hist)+0+1]
    BY <1>4 DEF RingInOrder, InRing
  <2>2. Len(hist)+0+1 = Len(hist)+1
    BY <1>t
  <2> QED
    BY <1>4, <2>1, <2>2
<1> QED
  BY <1>1, <1>2, <1>5 DEF Fetched, SlotWord

(* DescInOrder is inductive relative to the invariants before it.          *)
LEMMA DescInOrderStep ==
  TypeOK /\ Handshake /\ ReadOwned /\ RingInOrder /\ DescInOrder /\ [Next]_vars
    => DescInOrder'
<1> SUFFICES ASSUME TypeOK, Handshake, ReadOwned, RingInOrder, DescInOrder, [Next]_vars
             PROVE  DescInOrder'
  OBVIOUS
<1>1. CASE UNCHANGED vars
  BY <1>1 DEF vars, DescInOrder
<1>2. CASE Next
  <2> DEFINE d == Len(hist)
             w(b) == MemWord("desc", d + 1, b)
             w1(b) == MemWord("desc", d' + 1, b)
  <2> SUFFICES ASSUME host'.disables = 0, host'.resets = 0, rd'.errors = 0
               PROVE  /\ rd'.rvalid => ~rd'.rerror
                      /\ rd'.rvalid /\ arb'.owner_desc => rd'.rdata = w1(rd'.beat)
                      /\ fx'.active => \A b \in 0..7 :
                           b < fx'.beat_count => fx'.desc_data[b] = w1(b)
                      /\ fx'.desc_done => fx'.desc_data = DescOf(d' + 1) /\ ~fx'.desc_error
    BY DEF DescInOrder
  <2>p. PICK arready \in BOOLEAN : ReadEdge(arready)
    BY <1>2, NextReadEdge
  <2>t. /\ rd.busy \in BOOLEAN /\ rd.rvalid \in BOOLEAN /\ rd.beat \in 0..7
        /\ rd.errors \in Nat /\ rd.addr \in Address /\ enable \in BOOLEAN
        /\ arb.owner_desc \in BOOLEAN /\ fx.active \in BOOLEAN /\ Rlast \in BOOLEAN
        /\ fx.desc_data \in [0..7 -> Word] /\ fx.beat_count \in 0..15
        /\ fe.fetch_valid \in BOOLEAN /\ fx.arvalid \in BOOLEAN
    BY PortAssumption DEF TypeOK, PortTypeOK, PortAssumption, ArbTypeOK, FxTypeOK, FxRegs,
       RegsTypeOK, RegFile, enable, Rlast, Descriptor, DescBeats, FeTypeOK, FeRegs
  <2>rd. RdStep(PortArvalid, PortAraddr, arready, PortRready)
    BY <2>p DEF ReadEdge
  <2>h. host.disables = 0 /\ host.resets = 0 /\ rd.errors = 0
    <3>1. host.disables = 0 /\ host.resets = 0
      BY <2>p, EnableStays DEF TypeOK, ReadEdge
    <3>2. rd.errors = 0
      BY <2>t, <2>rd DEF RdStep, RdShows
    <3> QED
      BY <3>1, <3>2
  <2>m. ReadMove(arready)
    BY <2>p, <2>h, ReadMoves
  <2>i. /\ rd.rvalid => ~rd.rerror
        /\ rd.rvalid /\ arb.owner_desc => rd.rdata = w(rd.beat)
        /\ fx.active => \A b \in 0..7 : b < fx.beat_count => fx.desc_data[b] = w(b)
    BY <2>h DEF DescInOrder
  <2>o. /\ rd.rvalid => rd.busy
        /\ fx.active <=> rd.busy /\ arb.owner_desc
        /\ rd.busy /\ arb.owner_desc => rd.beat = fx.beat_count /\ rd.addr.buf = "desc"
        /\ ~enable => ~rd.busy
    BY <2>h, <2>t DEF ReadOwned, BurstOwner
  <2>f. /\ FxStep(enable, fe.fetch_valid, fe.fetch_slot, DescArready(arready),
                  DescRvalid(rd.rvalid), rd.rdata, rd.rerror, Rlast)
        /\ HistClock
    BY <2>p DEF ReadEdge
  <2>d. rd.busy /\ arb.owner_desc => hist' = hist
    BY <2>f, <2>o DEF HistClock, FeRetires, Handshake
  <2>s. ASSUME NEW b, RdShows(b)
        PROVE  /\ rd'.rerror = FALSE
               /\ rd.busy /\ arb.owner_desc => rd'.rdata = w(b)
    <3>1. rd'.rdata = Fetched(rd.addr, b) /\ rd'.rerror = FALSE
      BY <2>s, <2>h DEF RdShows
    <3> QED
      BY <2>h, <3>1, TailSlotRead
  <2>1. rd'.rvalid => ~rd'.rerror
    BY <2>rd, <2>i, <2>s, <2>t, <2>m, <2>o DEF RdStep, ReadMove, Opened
  <2>2. rd'.rvalid /\ arb'.owner_desc => rd'.rdata = w1(rd'.beat)
    <3> SUFFICES ASSUME rd'.rvalid, arb'.owner_desc PROVE rd'.rdata = w1(rd'.beat)
      OBVIOUS
    <3>1. rd.busy /\ arb.owner_desc
      BY <2>m, <2>o DEF ReadMove, Opened, BeatTaken, NothingTaken
    <3>2. d' = d
      BY <2>d, <3>1
    <3>3. rd'.rdata = w(rd'.beat)
      <4>1. \/ RdShows(rd.beat)
            \/ RdShows(rd.beat + 1)
            \/ rd' = rd
        <5>1. ~arready
          BY <2>p, <3>1 DEF ReadEdge
        <5>2. rd'.rvalid => ~(rd.rvalid /\ Rlast)
          BY <2>h, <2>m, <2>t, <3>1, <2>o DEF ReadMove, Opened, BeatTaken, NothingTaken, DescRvalid,
             ReadOwned, BurstOwner
        <5> QED
          BY <2>rd, <3>1, <5>1, <5>2 DEF RdStep
      <4>2. ASSUME NEW b, RdShows(b) PROVE rd'.rdata = w(rd'.beat)
        BY <4>2, <2>s, <3>1 DEF RdShows
      <4>3. CASE rd' = rd
        BY <2>i, <3>1, <4>3
      <4> QED
        BY <4>1, <4>2, <4>3
    <3> QED
      BY <3>2, <3>3
  <2>3. CASE ~enable
    <3>1. fx'.active = FALSE /\ fx'.desc_done = FALSE
      BY <2>3, <2>f DEF FxStep, FxStops, FxPulsesAre
    <3> QED
      BY <2>1, <2>2, <3>1
  <2>4. CASE enable /\ FxAsks(fe.fetch_valid, fe.fetch_slot, DescArready(arready))
    BY <2>1, <2>2, <2>4 DEF FxAsks, FxPulsesAre
  <2>5. CASE enable /\ FxOpens(fe.fetch_valid, fe.fetch_slot, DescArready(arready))
    <3>1. fx'.desc_done = FALSE /\ fx'.beat_count = 0
      BY <2>5 DEF FxOpens, FxPulsesAre, Handshake
    <3> QED
      BY <2>1, <2>2, <3>1
  <2>6. CASE enable /\ FxReceives(DescRvalid(rd.rvalid), rd.rdata, rd.rerror, Rlast)
    <3>1. rd.busy /\ arb.owner_desc /\ rd.rvalid /\ fx.active
      BY <2>6, <2>o DEF FxReceives, DescRvalid
    <3>2. hist' = hist
      BY <2>d, <3>1
    <3>3. /\ fx'.desc_data = [fx.desc_data EXCEPT ![rd.beat] = w(rd.beat)]
          /\ fx'.beat_count = rd.beat + 1 /\ fx'.desc_error = rd.rerror
          /\ fx'.desc_done = Rlast /\ fx.beat_count = rd.beat
      <4>1. fx.beat_count = rd.beat /\ rd.rdata = w(rd.beat)
        BY <2>i, <2>o, <3>1
      <4>2. fx.beat_count < DescBeats /\ (fx.beat_count + 1) % 16 = rd.beat + 1
        BY <2>t, <4>1 DEF DescBeats
      <4> HIDE DEF w
      <4> QED
        BY <2>6, <4>1, <4>2 DEF FxReceives, FxPulsesAre
    <3>4. \A b \in 0..7 : b < rd.beat + 1 => fx'.desc_data[b] = w(b)
      <4>1. \A b \in 0..7 : b < rd.beat => fx.desc_data[b] = w(b)
        BY <2>i, <3>1, <3>3
      <4> HIDE DEF w
      <4> QED
        BY <2>t, <3>3, <4>1
    <3>5. fx'.desc_done => fx'.desc_data = DescOf(d + 1)
      <4> SUFFICES ASSUME fx'.desc_done PROVE fx'.desc_data = DescOf(d + 1)
        OBVIOUS
      <4>1. rd.beat = 7
        <5>1. BurstLen(rd.addr) = 8 /\ Rlast
          BY <2>o, <3>1, <3>3 DEF BurstLen, DescBeats
        <5> QED
          BY <5>1, <2>t DEF Rlast
      <4>2. \A b \in 0..7 : fx'.desc_data[b] = w(b)
        BY <3>4, <4>1
      <4>3. fx'.desc_data = [b \in 0..7 |-> fx'.desc_data[b]]
        <5> HIDE DEF w
        <5> QED
          BY <2>t, <3>3
      <4>4. DescOf(d + 1) = [b \in 0..7 |-> w(b)]
        BY DEF DescOf, DescBeats
      <4> HIDE DEF w, d
      <4> QED
        BY <4>2, <4>3, <4>4
    <3>6. fx'.desc_done => ~fx'.desc_error
      BY <2>i, <3>1, <3>3
    <3> QED
      BY <2>1, <2>2, <3>2, <3>3, <3>4, <3>5, <3>6
  <2>7. CASE enable /\ FxWaits(fe.fetch_valid, DescArready(arready), DescRvalid(rd.rvalid))
    <3>1. /\ fx'.active = fx.active /\ fx'.desc_done = FALSE
          /\ fx'.beat_count = fx.beat_count /\ fx'.desc_data = fx.desc_data
      BY <2>7 DEF FxWaits, FxPulsesAre
    <3>2. fx.active => hist' = hist
      BY <2>d, <2>o
    <3> QED
      BY <2>1, <2>2, <2>i, <3>1, <3>2
  <2> QED
    BY <2>f, <2>3, <2>4, <2>5, <2>6, <2>7 DEF FxStep
<1> QED
  BY <1>1, <1>2

-----------------------------------------------------------------------------
(* The queue path implements the abstract bounded FIFO of JobQueue.  No    *)
(* faults: software neither resets nor disables the queue (bounds that the *)
(* type invariant turns into facts about the counts), no read errors.      *)
NoFaults == MaxResets = 0 /\ MaxDisables = 0 /\ MaxErrors = 0

(* With the three bounds at zero the conditions always hold.               *)
LEMMA NoFaultsYet ==
  ASSUME TypeOK, NoFaults
  PROVE  host.disables = 0 /\ host.resets = 0 /\ rd.errors = 0
BY DEF TypeOK, NoFaults, HostTypeOK, PortTypeOK

(* The empty ring is the empty queue.                                      *)
LEMMA ImplementsInit == Init => Queue!QInit
BY DEF Init, HostInit, Queue!QInit

(* Every step is a step of the queue, or changes nothing it sees.          *)
LEMMA ImplementsStep ==
  ASSUME NoFaults, TypeOK, TypeOK', Handshake, ReadOwned, RingInOrder, DescInOrder, [Next]_vars
  PROVE  [Queue!QNext]_(Queue!qvars)
<1>1. CASE UNCHANGED vars
  BY <1>1 DEF vars, Queue!qvars
<1>2. CASE Next
  <2>p. PICK arready \in BOOLEAN : ReadEdge(arready)
    BY <1>2, NextReadEdge
  <2>h. host.disables = 0 /\ host.resets = 0 /\ rd.errors = 0
    BY NoFaultsYet
  <2>h1. host'.disables = 0 /\ host'.resets = 0
    BY DEF TypeOK, NoFaults, HostTypeOK
  <2>t. /\ host.pushed \in Nat /\ host.exposed \in Nat /\ host.cached_tail \in Slots
        /\ hist \in Seq(Ids) /\ Len(hist) \in Nat /\ fe.cmdq_tail_shadow \in Slots
        /\ host.exposed <= Jobs /\ Jobs \in Nat
        /\ EntryCount \in Nat \ {0} /\ Slots = 0..EntryCount-1
    BY TypesAssumption DEF TypeOK, HostTypeOK, FeTypeOK, FeRegs, TypesAssumption, Slots, Ids
  <2>i. InRing(fe.cmdq_tail_shadow, Len(hist), host, regs, ring)
    BY <2>h DEF RingInOrder
  <2>1. \/ Queue!Push \/ Queue!Submit \/ Queue!Forget
        \/ UNCHANGED <<host.pushed, host.exposed>>
    <3>f. SoftStep
      BY <2>p DEF ReadEdge
    <3>1. ~SoftReset /\ ~SoftDisable
      BY <2>h, <2>h1, <2>i DEF SoftReset, SoftDisable, InRing
    <3>2. CASE SoftPushed
      <4> DEFINE lag == Lag(host.cached_tail, fe.cmdq_tail_shadow)
                 n == host.pushed - Len(hist)
      <4>1. lag \in Nat /\ n \in Int
        BY <2>t DEF Lag
      <4>2. lag + n < EntryCount - 1
        BY <2>i, <3>2 DEF InRing, SoftPushed
      <4>3. n < EntryCount - 1
        <5> HIDE DEF lag, n
        <5> QED
          BY <2>t, <4>1, <4>2
      <4> QED
        BY <3>2, <4>3 DEF SoftPushed, HostIs, Queue!Push
    <3>3. CASE SoftSubmit
      BY <3>3 DEF SoftSubmit, HostIs, Queue!Submit
    <3>4. CASE SoftSync
      BY <3>4 DEF SoftSync, HostIs, Queue!Forget
    <3>5. CASE SoftPush \/ SoftDoorbell \/ SoftReadShadow \/ SoftForward
      BY <3>5 DEF SoftPush, SoftDoorbell, SoftReadShadow, SoftForward, HostIs
    <3>6. CASE SoftEnable \/ SoftDirect
      BY <3>6 DEF SoftEnable, SoftDirect, SameHost
    <3> QED
      BY <3>f, <3>1, <3>2, <3>3, <3>4, <3>5, <3>6 DEF SoftStep
  <2>2. Queue!Consume \/ UNCHANGED hist
    <3>f. HistClock
      BY <2>p DEF ReadEdge
    <3>1. CASE FeRetires(fx.desc_done)
      <4>1. fx.desc_data = DescOf(Len(hist) + 1)
        BY <2>h, <3>1 DEF DescInOrder, FeRetires
      <4>2. JobOf(fx.desc_data) = Len(hist) + 1
        BY <4>1 DEF JobOf, DescOf, DescBeats, MemWord
      <4>3. Len(hist) < host.exposed
        BY <2>h, <3>1 DEF RingInOrder, FeRetires
      <4> QED
        BY <3>f, <4>2, <4>3 DEF HistClock, Queue!Consume
    <3>2. CASE ~FeRetires(fx.desc_done)
      BY <3>f, <3>2 DEF HistClock
    <3> QED
      BY <3>1, <3>2
  <2> QED
    BY <2>1, <2>2 DEF Queue!QNext, Queue!qvars
<1> QED
  BY <1>1, <1>2

(* The ring is a bounded FIFO for every ring size, any number of jobs of   *)
(* any kind and any memory port that answers without errors: descriptors   *)
(* are retired whole, once, in the order they were pushed and only after   *)
(* they were submitted, while the host refills slots the hardware has      *)
(* retired and other masters use the memory port.                          *)
THEOREM QueueImplemented == NoFaults /\ Spec => ImplementsQueue
<1> DEFINE Inv == NoFaults /\ TypeOK /\ Handshake /\ ReadOwned /\ RingInOrder /\ DescInOrder
<1>1. NoFaults /\ Init => Inv /\ Queue!QInit
  BY InitTyped, HandshakeInit, ReadOwnedInit, RingInOrderInit, DescInOrderInit, ImplementsInit
<1>2. Inv /\ [Next]_vars => Inv'
  BY NextTyped, HandshakeStep, ReadOwnedStep, RingInOrderStep, DescInOrderStep DEF NoFaults
<1>3. Inv /\ Inv' /\ [Next]_vars => [Queue!QNext]_(Queue!qvars)
  BY ImplementsStep
<1> HIDE DEF Inv
<1> QED
  BY <1>1, <1>2, <1>3, PTL DEF Spec, ImplementsQueue, Queue!QSpec

-----------------------------------------------------------------------------
(* An edge of the execute path: the read path, the execute stub, the NPU.  *)
ExecEdge(arready) ==
  /\ ReadEdge(arready)
  /\ ExStep(enable, pf.payload_valid, pf.job, npu.busy, npu.done)
  /\ NpuStep(MuxStart(regs.npu_start_pulse), MuxModel, MuxInputs, MuxWeights)

(* Every step of Next is an edge of the execute path.                      *)
LEMMA NextExecEdge ==
  ASSUME TypeOK, Next
  PROVE  \E arready \in BOOLEAN : ExecEdge(arready)
<1>p. PICK arready \in ReadySet("AR", PortArvalid /\ ~rd.busy),
           awready \in ReadySet("AW", st.awvalid /\ ~wr.busy),
           wready \in ReadySet("W", st.wvalid /\ wr.busy /\ wr.beat < OutBeats) :
        /\ PortClock(arready, awready, wready) /\ AccelClock(arready, awready, wready)
        /\ SoftwareClock
  BY DEF Next, Edge
<1>t. /\ ExTypeOK /\ NpuTypeOK /\ enable \in BOOLEAN /\ pf.payload_valid \in BOOLEAN
      /\ npu.busy \in BOOLEAN /\ npu.done \in BOOLEAN
  BY DEF TypeOK, NpuTypeOK, RegsTypeOK, RegFile, enable, PfTypeOK, PfRegs
<1>1. ReadEdge(arready)
  BY <1>p, ReadEdges
<1>2. ExStep(enable, pf.payload_valid, pf.job, npu.busy, npu.done)
  BY <1>p, <1>t, ExSteps DEF AccelClock
<1>3. NpuStep(MuxStart(regs.npu_start_pulse), MuxModel, MuxInputs, MuxWeights)
  BY <1>p, <1>t, NpuSteps DEF AccelClock
<1> QED
  BY <1>1, <1>2, <1>3 DEF ExecEdge, ReadySet

-----------------------------------------------------------------------------
(* ExecNeverBusy is a race: the edges the NPU still needs are never more   *)
(* than the edges the payload fetch still needs to offer the next job.     *)
NpuLeft ==
  IF ex.npu_start_pulse THEN NpuLatency + 3
  ELSE IF npu.busy THEN npu.countdown + 2
  ELSE IF npu.done THEN 1 ELSE 0

PfLeft ==
  IF pf.payload_valid THEN 0 ELSE
  CASE pf.state = "WEIGHT_R"  -> WeightBeats - pf.beat_index
    [] pf.state = "WEIGHT_AR" -> WeightBeats + 1
    [] pf.state = "INPUT_R"   -> WeightBeats + 1 + (InputBeats - pf.beat_index)
    [] pf.state = "INPUT_AR"  -> WeightBeats + 2 + InputBeats
    [] pf.state = "IDLE"      -> WeightBeats + 3 + InputBeats

NpuInTime ==
  host.disables = 0 /\ direct.starts = 0 =>
    /\ ~regs.npu_start_pulse
    /\ pf.payload_valid => pf.state = "IDLE"
    /\ ex.npu_start_pulse => ~npu.busy /\ ~npu.done
    /\ ~(npu.busy /\ npu.done)
    /\ ex.inflight <=> (ex.npu_start_pulse \/ npu.busy \/ npu.done)
    /\ NpuLeft <= PfLeft
    /\ ~enable => ~ex.inflight

(* The NPU is idle at reset.                                               *)
LEMMA NpuInTimeInit == Init => NpuInTime
  BY DEF Init, ExecInit, ExReset, PfInit, PfReset, RegsInit, NpuInTime, NpuLeft, PfLeft,
     WeightBeats, InputBeats

(* The payload fetch gains at most one edge on the NPU at each edge.       *)
LEMMA PfLeftStep ==
  ASSUME TypeOK, ReadOwned, host.disables = 0, NEW arready \in BOOLEAN, ReadEdge(arready),
         enable, pf.payload_valid => pf.state = "IDLE"
  PROVE  /\ pf'.payload_valid => pf'.state = "IDLE"
         /\ pf.payload_valid => PfLeft = 0 /\ PfLeft' >= NpuLatency + 3
         /\ ~pf.payload_valid => PfLeft' >= PfLeft - 1
         /\ PfLeft' >= 0
<1>t. /\ pf.state \in PfStates /\ pf.beat_index \in 0..7 /\ pf.payload_valid \in BOOLEAN
      /\ Rlast \in BOOLEAN
  BY DEF TypeOK, PfTypeOK, PfRegs, Rlast
<1> DEFINE dv == disp.npu_dispatch_pulse
           na == NpuArready(arready)
           nr == NpuRvalid(rd.rvalid)
<1>s. PfStep(enable, dv, disp.npu_job, na, nr, rd.rdata, rd.rerror, Rlast)
  BY DEF ReadEdge
<1>o. pf.state \in {"INPUT_R", "WEIGHT_R"} =>
        /\ rd.beat = pf.beat_index
        /\ pf.state = "INPUT_R" => rd.addr.buf = "input"
        /\ pf.state = "WEIGHT_R" => rd.addr.buf = "weight"
  BY DEF ReadOwned, BurstOwner, PfAraddr
<1>l. /\ pf.state = "INPUT_R"  => (Rlast <=> pf.beat_index = 1)
      /\ pf.state = "WEIGHT_R" => (Rlast <=> pf.beat_index = 5)
  BY <1>o DEF Rlast, BurstLen, InputBeats, WeightBeats
<1>b. /\ pf.state = "INPUT_R"  => pf.beat_index < 2
      /\ pf.state = "WEIGHT_R" => pf.beat_index < 6
  BY <1>o DEF TypeOK, PortTypeOK, BurstLen, InputBeats, WeightBeats
<1> HIDE DEF dv, na, nr
<1>1. CASE PfAccepts(dv, disp.npu_job)
  BY <1>1 DEF PfAccepts, PfLeft, NpuLatency, WeightBeats, InputBeats
<1>2. CASE PfIdles(dv)
  BY <1>2 DEF PfIdles, PfLeft, NpuLatency, WeightBeats, InputBeats
<1>3. CASE PfOpens(dv, na)
  BY <1>3, <1>t DEF PfOpens, PfLeft, WeightBeats, InputBeats
<1>4. CASE PfTakesInput(dv, nr, rd.rdata, rd.rerror, Rlast)
  <2>1. /\ pf'.payload_valid = FALSE /\ pf.payload_valid = FALSE
        /\ \/ pf.beat_index = 1 /\ pf'.state = "WEIGHT_AR"
           \/ pf.beat_index = 0 /\ pf'.state = "INPUT_R" /\ pf'.beat_index = 1
    BY <1>4, <1>t, <1>l, <1>b DEF PfTakesInput
  <2> QED
    BY <1>4, <2>1 DEF PfTakesInput, PfLeft, WeightBeats, InputBeats
<1>5. CASE PfTakesWeight(dv, nr, rd.rdata, rd.rerror, Rlast)
  <2>1. /\ pf.payload_valid = FALSE
        /\ \/ /\ pf.beat_index = 5 /\ pf'.state = "IDLE" /\ pf'.payload_valid = TRUE
           \/ /\ pf.beat_index \in 0..4 /\ pf'.state = "WEIGHT_R"
              /\ pf'.beat_index = pf.beat_index + 1 /\ pf'.payload_valid = FALSE
    BY <1>5, <1>t, <1>l, <1>b DEF PfTakesWeight
  <2> QED
    BY <1>5, <2>1 DEF PfTakesWeight, PfLeft, WeightBeats, InputBeats
<1>6. CASE PfWaits(dv, na, nr)
  <2>1. pf'.payload_valid = FALSE /\ pf.payload_valid = FALSE
    BY <1>6, <1>t DEF PfWaits
  <2>2. PfLeft' = PfLeft
    BY <1>6, <2>1 DEF PfWaits, PfLeft
  <2>3. PfLeft \in Nat
    BY <1>t, <1>b, <2>1 DEF PfLeft, PfStates, WeightBeats, InputBeats
  <2> QED
    BY <2>1, <2>2, <2>3
<1> QED
  BY <1>s, <1>1, <1>2, <1>3, <1>4, <1>5, <1>6 DEF PfStep

(* NpuInTime is inductive relative to TypeOK and ReadOwned.                *)
LEMMA NpuInTimeStep == TypeOK /\ ReadOwned /\ NpuInTime /\ [Next]_vars => NpuInTime'
<1> SUFFICES ASSUME TypeOK, ReadOwned, NpuInTime, [Next]_vars PROVE NpuInTime'
  OBVIOUS
<1>1. CASE UNCHANGED vars
  BY <1>1 DEF vars, NpuInTime, NpuLeft, PfLeft, enable
<1>2. CASE Next
  <2> SUFFICES ASSUME host'.disables = 0, direct'.starts = 0
               PROVE  /\ ~regs'.npu_start_pulse
                      /\ pf'.payload_valid => pf'.state = "IDLE"
                      /\ ex'.npu_start_pulse => ~npu'.busy /\ ~npu'.done
                      /\ ~(npu'.busy /\ npu'.done)
                      /\ ex'.inflight <=> (ex'.npu_start_pulse \/ npu'.busy \/ npu'.done)
                      /\ NpuLeft' <= PfLeft'
                      /\ ~enable' => ~ex'.inflight
    BY DEF NpuInTime
  <2>p. PICK arready \in BOOLEAN : ExecEdge(arready)
    BY <1>2, NextExecEdge
  <2>f. /\ ReadEdge(arready) /\ SoftStep
        /\ ExStep(enable, pf.payload_valid, pf.job, npu.busy, npu.done)
        /\ NpuStep(MuxStart(regs.npu_start_pulse), MuxModel, MuxInputs, MuxWeights)
    BY <2>p DEF ExecEdge, ReadEdge
  <2>h. host.disables = 0 /\ (enable => enable')
    BY <2>f, EnableStays DEF TypeOK
  <2>d. direct.starts = 0 /\ regs'.npu_start_pulse = FALSE
    <3>1. direct.starts \in Nat
      BY HostAssumption DEF TypeOK, HostTypeOK, HostAssumption
    <3> QED
      BY <2>f, <3>1 DEF SoftStep, SoftPush, SoftPushed, SoftSubmit, SoftDoorbell, SoftSync,
         SoftReset, SoftReadShadow, SoftForward, SoftEnable, SoftDisable, SoftDirect,
         SameRegs, SameStarts, QueueRegs
  <2>i. /\ ~regs.npu_start_pulse
        /\ pf.payload_valid => pf.state = "IDLE"
        /\ ex.npu_start_pulse => ~npu.busy /\ ~npu.done
        /\ ~(npu.busy /\ npu.done)
        /\ ex.inflight <=> (ex.npu_start_pulse \/ npu.busy \/ npu.done)
        /\ NpuLeft <= PfLeft
        /\ ~enable => ~ex.inflight
    BY <2>h, <2>d DEF NpuInTime
  <2>t. /\ enable \in BOOLEAN /\ npu.busy \in BOOLEAN /\ npu.done \in BOOLEAN
        /\ npu.countdown \in 0..4 /\ ex.npu_start_pulse \in BOOLEAN
        /\ ex.inflight \in BOOLEAN /\ pf.payload_valid \in BOOLEAN
    BY DEF TypeOK, RegsTypeOK, RegFile, enable, NpuTypeOK, NpuLatency, ExTypeOK, ExRegs,
       PfTypeOK, PfRegs
  <2>m. MuxStart(regs.npu_start_pulse) <=> ex.npu_start_pulse
    BY <2>i DEF MuxStart
  <2>1. CASE ~enable
    <3>1. ~ex.inflight /\ ~ex.npu_start_pulse /\ ~npu.busy /\ ~npu.done
      BY <2>1, <2>i
    <3>2. npu'.busy = FALSE /\ npu'.done = FALSE
      BY <2>f, <2>t, <2>m, <3>1 DEF NpuStep, NpuStarts, NpuCounts, NpuFinishes, NpuWaits
    <3>3. ex'.npu_start_pulse = FALSE /\ ex'.inflight = FALSE
      BY <2>1, <2>f DEF ExStep
    <3>4. pf'.payload_valid = FALSE /\ pf'.state = "IDLE"
      <4>1. pf' = PfReset
        BY <2>1, <2>f DEF ReadEdge, PfStep
      <4> QED
        BY <4>1 DEF PfReset
    <3>5. NpuLeft' = 0 /\ PfLeft' = 11
      BY <3>2, <3>3, <3>4 DEF NpuLeft, PfLeft, WeightBeats, InputBeats
    <3> QED
      BY <2>d, <3>2, <3>3, <3>4, <3>5
  <2>2. CASE enable
    <3>e. enable'
      BY <2>2, <2>h
    <3>p. /\ pf'.payload_valid => pf'.state = "IDLE"
          /\ pf.payload_valid => PfLeft = 0 /\ PfLeft' >= 7
          /\ ~pf.payload_valid => PfLeft' >= PfLeft - 1
          /\ PfLeft' >= 0
      BY <2>2, <2>h, <2>f, <2>i, PfLeftStep DEF NpuLatency
    <3>l. PfLeft \in Int /\ PfLeft' \in Int
      <4>1. PfTypeOK /\ PfTypeOK'
        BY <1>2, NextTyped DEF TypeOK
      <4> QED
        BY <4>1 DEF PfTypeOK, PfRegs, PfStates, PfLeft, WeightBeats, InputBeats
    <3>1. CASE pf.payload_valid
      <4>1. ~ex.npu_start_pulse /\ ~npu.busy /\ ~npu.done /\ ~ex.inflight
        <5>1. NpuLeft <= 0
          BY <2>i, <3>1, <3>p
        <5> QED
          BY <2>i, <2>t, <5>1 DEF NpuLeft, NpuLatency
      <4>2. npu'.busy = FALSE /\ npu'.done = FALSE
        BY <2>f, <2>t, <2>m, <4>1 DEF NpuStep, NpuStarts, NpuCounts, NpuFinishes, NpuWaits
      <4>3. ex'.npu_start_pulse = TRUE /\ ex'.inflight = TRUE
        BY <2>2, <2>f, <3>1, <4>1 DEF ExStep, ExStarts, ExRejects, ExGoesOn
      <4>4. NpuLeft' = 7
        BY <4>3 DEF NpuLeft, NpuLatency
      <4> QED
        BY <2>d, <3>e, <3>p, <3>1, <4>2, <4>3, <4>4
    <3>2. CASE ~pf.payload_valid
      <4>1. /\ ex'.npu_start_pulse = FALSE
            /\ ex'.inflight = (ex.inflight /\ ~npu.done)
        BY <2>2, <2>f, <3>2 DEF ExStep, ExStarts, ExRejects, ExGoesOn
      <4>2. \/ /\ ex.npu_start_pulse /\ npu'.busy = TRUE /\ npu'.done = FALSE
               /\ npu'.countdown = NpuLatency
            \/ /\ npu.busy /\ npu.countdown # 0 /\ npu'.busy = TRUE /\ npu'.done = FALSE
               /\ npu'.countdown = npu.countdown - 1
            \/ npu.busy /\ npu.countdown = 0 /\ npu'.busy = FALSE /\ npu'.done = TRUE
            \/ /\ ~npu.busy /\ ~ex.npu_start_pulse
               /\ npu'.busy = FALSE /\ npu'.done = FALSE
        BY <2>f, <2>t, <2>m DEF NpuStep, NpuStarts, NpuCounts, NpuFinishes, NpuWaits
      <4>3. NpuLeft \in Int /\ NpuLeft' \in Int /\ (NpuLeft' <= NpuLeft - 1 \/ NpuLeft' = 0)
        BY <2>i, <2>t, <4>1, <4>2 DEF NpuLeft, NpuLatency
      <4> QED
        BY <2>d, <2>i, <2>t, <3>e, <3>l, <3>p, <3>2, <4>1, <4>2, <4>3
    <3> QED
      BY <2>t, <3>1, <3>2
  <2> QED
    BY <2>t, <2>1, <2>2
<1> QED
  BY <1>1, <1>2

(* The next job's descriptor and payload take longer to read than an       *)
(* inference takes: for every memory port, however fast, and every stream  *)
(* of jobs, as long as the queue has the NPU to itself and is not disabled.*)
THEOREM ExecIsNeverBusy ==
  Spec => [](host.disables = 0 /\ direct.starts = 0 => ExecNeverBusy)
<1>1. Init => TypeOK /\ Handshake /\ ReadOwned /\ NpuInTime
  BY InitTyped, HandshakeInit, ReadOwnedInit, NpuInTimeInit
<1>2. (TypeOK /\ Handshake /\ ReadOwned /\ NpuInTime) /\ [Next]_vars
        => (TypeOK /\ Handshake /\ ReadOwned /\ NpuInTime)'
  BY NextTyped, HandshakeStep, ReadOwnedStep, NpuInTimeStep
<1>3. TypeOK /\ NpuInTime => (host.disables = 0 /\ direct.starts = 0 => ExecNeverBusy)
  <2> SUFFICES ASSUME TypeOK, NpuInTime, host.disables = 0, direct.starts = 0,
                      pf.payload_valid
               PROVE  ~ex.inflight /\ ~npu.busy
    BY DEF ExecNeverBusy
  <2>1. PfLeft = 0 /\ NpuLeft <= PfLeft
    BY DEF NpuInTime, PfLeft
  <2>2. npu.countdown \in 0..4
    BY DEF TypeOK, NpuTypeOK, NpuLatency
  <2>3. ~ex.npu_start_pulse /\ ~npu.busy /\ ~npu.done
    BY <2>1, <2>2 DEF NpuLeft, NpuLatency
  <2> QED
    BY <2>3 DEF NpuInTime
<1> QED
  BY <1>1, <1>2, <1>3, PTL DEF Spec

-----------------------------------------------------------------------------
(* A step of the result store, as far as the burst it writes is concerned. *)
StKeeps == st'.output = st.output /\ st'.result = st.result

StTakes(request, output, result) ==
  /\ st.state = "IDLE" /\ request /\ st'.state = "AW"
  /\ st'.output = output /\ st'.result = result
  /\ st'.awvalid = TRUE /\ st'.wvalid = FALSE

StRests(request) ==
  /\ st.state = "IDLE" /\ ~request /\ st'.state = "IDLE" /\ StKeeps
  /\ st'.awvalid = FALSE /\ st'.wvalid = FALSE

StOpens(awready) ==
  /\ st.state = "AW" /\ st.awvalid /\ awready /\ st'.state = "W" /\ StKeeps
  /\ st'.awvalid = FALSE /\ st'.wvalid = TRUE /\ st'.wword = 0 /\ st'.beat_index = 0

StSends(wready) ==
  /\ st.state = "W" /\ st.wvalid /\ wready /\ st.beat_index # OutBeats-1
  /\ st'.state = "W" /\ StKeeps /\ st'.awvalid = st.awvalid /\ st'.wvalid = st.wvalid
  /\ st'.beat_index = (st.beat_index + 1) % 8
  /\ st'.wword = (IF st.beat_index + 1 < OutBeats THEN st.beat_index + 1 ELSE OutBeats-1)

StCloses(wready) ==
  /\ st.state = "W" /\ st.wvalid /\ wready /\ st.beat_index = OutBeats-1
  /\ st'.state = "B" /\ StKeeps /\ st'.awvalid = st.awvalid /\ st'.wvalid = FALSE

StEnds(bvalid) ==
  /\ st.state = "B" /\ bvalid /\ st.bready
  /\ st'.state = "IDLE" /\ StKeeps /\ st'.awvalid = st.awvalid /\ st'.wvalid = st.wvalid

StStalls(awready, wready, bvalid) ==
  /\ \/ st.state = "AW" /\ ~(st.awvalid /\ awready)
     \/ st.state = "W" /\ ~(st.wvalid /\ wready)
     \/ st.state = "B" /\ ~(bvalid /\ st.bready)
  /\ st'.state = st.state /\ StKeeps /\ st'.awvalid = st.awvalid /\ st'.wvalid = st.wvalid
  /\ st'.beat_index = st.beat_index /\ st'.wword = st.wword

StStep(en, request, output, result, awready, wready, bvalid) ==
  \/ ~en /\ st'.state = "IDLE" /\ st'.awvalid = FALSE /\ st'.wvalid = FALSE
  \/ en /\ StTakes(request, output, result)
  \/ en /\ StRests(request)
  \/ en /\ StOpens(awready)
  \/ en /\ StSends(wready)
  \/ en /\ StCloses(wready)
  \/ en /\ StEnds(bvalid)
  \/ en /\ StStalls(awready, wready, bvalid)

(* Every step of StClock is one of them.                                   *)
LEMMA StSteps ==
  ASSUME StTypeOK, NEW en, NEW request, NEW output, NEW result,
         NEW awready, NEW wready, NEW bvalid, NEW berror,
         StClock(en, request, output, result, awready, wready, bvalid, berror)
  PROVE  StStep(en, request, output, result, awready, wready, bvalid)
<1> DEFINE Fields == {"state", "beat_index", "output", "result", "awvalid", "wvalid",
                      "wword", "wlast", "bready", "store_count", "error_sticky"}
           edge == StEveryEdge(request)
<1>t. DOMAIN st = Fields
  BY Zenon DEF StTypeOK, StRegs
<1>e. /\ DOMAIN edge = Fields
      /\ edge.state = st.state /\ edge.output = st.output /\ edge.result = st.result
      /\ edge.awvalid = st.awvalid /\ edge.wvalid = st.wvalid
      /\ edge.beat_index = st.beat_index /\ edge.wword = st.wword
  BY <1>t, Zenon DEF StEveryEdge
<1>1. CASE ~en /\ st' = StReset
  <2>1. st'.state = "IDLE" /\ st'.awvalid = FALSE /\ st'.wvalid = FALSE
    BY <1>1 DEF StReset
  <2> QED
    BY <1>1, <2>1 DEF StStep
<1>2. CASE en /\ StAccept(request, output, result)
  <2> DEFINE count == Inc(st.store_count)
  <2>1. st' = [st EXCEPT !.state = "AW", !.beat_index = 0, !.output = output,
                         !.result = result, !.awvalid = TRUE, !.wvalid = FALSE,
                         !.wlast = FALSE, !.bready = FALSE, !.store_count = count]
    BY <1>2 DEF StAccept
  <2> HIDE DEF count
  <2>2. /\ st'.state = "AW" /\ st'.output = output /\ st'.result = result
        /\ st'.awvalid = TRUE /\ st'.wvalid = FALSE
    BY <1>t, <2>1, Zenon
  <2> QED
    BY <1>2, <2>2 DEF StAccept, StTakes, StStep
<1>3. CASE en /\ StIdle(request)
  <2>1. st' = [st EXCEPT !.awvalid = FALSE, !.wvalid = FALSE, !.wlast = FALSE,
                         !.bready = FALSE, !.beat_index = 0]
    BY <1>3 DEF StIdle
  <2>2. /\ st'.state = st.state /\ st'.output = st.output /\ st'.result = st.result
        /\ st'.awvalid = FALSE /\ st'.wvalid = FALSE
    BY <1>t, <2>1, Zenon
  <2> QED
    BY <1>3, <2>2 DEF StIdle, StRests, StKeeps, StStep
<1>4. CASE en /\ StAddressTaken(request, awready)
  <2>1. st' = [edge EXCEPT !.state = "W", !.awvalid = FALSE, !.wvalid = TRUE,
                           !.wword = 0, !.wlast = FALSE, !.beat_index = 0]
    BY <1>4 DEF StAddressTaken
  <2> HIDE DEF edge
  <2>2. /\ st'.state = "W" /\ st'.output = st.output /\ st'.result = st.result
        /\ st'.awvalid = FALSE /\ st'.wvalid = TRUE /\ st'.wword = 0 /\ st'.beat_index = 0
    BY <1>e, <2>1, Zenon
  <2> QED
    BY <1>4, <2>2 DEF StAddressTaken, StOpens, StKeeps, StStep
<1>5. CASE en /\ StBeat(request, wready)
  <2> DEFINE i == (edge.beat_index + 1) % 8
             w == IF st.beat_index + 1 < OutBeats THEN st.beat_index + 1 ELSE OutBeats-1
             last == st.beat_index = OutBeats-2
  <2>1. st' = [edge EXCEPT !.beat_index = i, !.wword = w, !.wlast = last]
    BY <1>5 DEF StBeat
  <2>2. i = (st.beat_index + 1) % 8
    BY <1>e
  <2> HIDE DEF edge, i, w, last
  <2>3. /\ st'.state = st.state /\ st'.output = st.output /\ st'.result = st.result
        /\ st'.awvalid = st.awvalid /\ st'.wvalid = st.wvalid
        /\ st'.beat_index = i /\ st'.wword = w
    BY <1>e, <2>1, Zenon
  <2> QED
    BY <1>5, <2>2, <2>3 DEF StBeat, StSendsBeat, StSends, StKeeps, StStep, w
<1>6. CASE en /\ StLastBeat(request, wready)
  <2>1. st' = [edge EXCEPT !.state = "B", !.wvalid = FALSE, !.wlast = FALSE, !.bready = TRUE]
    BY <1>6 DEF StLastBeat
  <2> HIDE DEF edge
  <2>2. /\ st'.state = "B" /\ st'.output = st.output /\ st'.result = st.result
        /\ st'.awvalid = st.awvalid /\ st'.wvalid = FALSE
    BY <1>e, <2>1, Zenon
  <2> QED
    BY <1>6, <2>2 DEF StLastBeat, StSendsBeat, StCloses, StKeeps, StStep
<1>7. CASE en /\ StResponse(request, bvalid, berror)
  <2> DEFINE sticky == edge.error_sticky \/ berror
  <2>1. st' = [edge EXCEPT !.state = "IDLE", !.bready = FALSE, !.error_sticky = sticky]
    BY <1>7 DEF StResponse
  <2> HIDE DEF edge, sticky
  <2>2. /\ st'.state = "IDLE" /\ st'.output = st.output /\ st'.result = st.result
        /\ st'.awvalid = st.awvalid /\ st'.wvalid = st.wvalid
    BY <1>e, <2>1, Zenon
  <2> QED
    BY <1>7, <2>2 DEF StResponse, StEnds, StKeeps, StStep
<1>8. CASE en /\ StWait(request, awready, wready, bvalid)
  <2>1. st' = edge
    BY <1>8 DEF StWait
  <2> HIDE DEF edge
  <2> QED
    BY <1>e, <1>8, <2>1 DEF StWait, StStalls, StKeeps, StStep
<1> QED
  BY <1>1, <1>2, <1>3, <1>4, <1>5, <1>6, <1>7, <1>8 DEF StClock

(* A step of the write half of the port.                                   *)
WrStep(awvalid, addr, awready, wvalid, wready, result, word, bready) ==
  \/ /\ awvalid /\ awready /\ outmem' = outmem
     /\ wr'.busy = TRUE /\ wr'.addr = addr /\ wr'.beat = 0 /\ wr'.bvalid = wr.bvalid
  \/ /\ wvalid /\ wready
     /\ outmem' = [outmem EXCEPT ![wr.addr.id][wr.beat] = [result |-> result, word |-> word]]
     /\ wr'.busy = wr.busy /\ wr'.addr = wr.addr /\ wr'.beat = wr.beat + 1
     /\ wr'.bvalid = wr.bvalid
  \/ /\ wr.busy /\ wr.beat = OutBeats /\ ~wr.bvalid /\ outmem' = outmem
     /\ wr'.busy = wr.busy /\ wr'.addr = wr.addr /\ wr'.beat = wr.beat /\ wr'.bvalid = TRUE
  \/ /\ wr.bvalid /\ bready /\ outmem' = outmem
     /\ wr'.busy = FALSE /\ wr'.bvalid = FALSE
  \/ /\ ~(awvalid /\ awready) /\ ~(wvalid /\ wready) /\ ~(wr.bvalid /\ bready)
     /\ wr' = wr /\ outmem' = outmem

(* Every step of WrClock is one of them.                                   *)
LEMMA WrSteps ==
  ASSUME PortTypeOK, NEW awvalid, NEW addr, NEW awready, NEW wvalid, NEW wready,
         NEW result, NEW word, NEW bready,
         WrClock(awvalid, addr, awready, wvalid, wready, result, word, bready)
  PROVE  WrStep(awvalid, addr, awready, wvalid, wready, result, word, bready)
<1>t. DOMAIN wr = {"busy", "addr", "beat", "bvalid", "berror"}
  BY Zenon DEF PortTypeOK
<1>1. CASE WrAccept(awvalid, addr, awready)
  <2>1. wr' = [wr EXCEPT !.busy = TRUE, !.addr = addr, !.beat = 0]
    BY <1>1 DEF WrAccept
  <2>2. wr'.busy = TRUE /\ wr'.addr = addr /\ wr'.beat = 0 /\ wr'.bvalid = wr.bvalid
    BY <1>t, <2>1, Zenon
  <2> QED
    BY <1>1, <2>2 DEF WrAccept, WrStep
<1>2. CASE WrWord(wvalid, wready, result, word)
  <2> DEFINE n == wr.beat + 1
  <2>1. wr' = [wr EXCEPT !.beat = n]
    BY <1>2 DEF WrWord
  <2> HIDE DEF n
  <2>2. /\ wr'.busy = wr.busy /\ wr'.addr = wr.addr /\ wr'.beat = n
        /\ wr'.bvalid = wr.bvalid
    BY <1>t, <2>1, Zenon
  <2> QED
    BY <1>2, <2>2 DEF WrWord, WrStep, n
<1>3. CASE WrRespond
  <2>1. \/ wr' = [wr EXCEPT !.bvalid = TRUE, !.berror = FALSE]
        \/ wr' = [wr EXCEPT !.bvalid = TRUE, !.berror = TRUE]
    BY <1>3 DEF WrRespond
  <2>2. /\ wr'.busy = wr.busy /\ wr'.addr = wr.addr /\ wr'.beat = wr.beat
        /\ wr'.bvalid = TRUE
    BY <1>t, <2>1, Zenon
  <2> QED
    BY <1>3, <2>2 DEF WrRespond, WrStep
<1>4. CASE WrDone(bready)
  <2>1. wr' = [wr EXCEPT !.busy = FALSE, !.bvalid = FALSE]
    BY <1>4 DEF WrDone
  <2>2. wr'.busy = FALSE /\ wr'.bvalid = FALSE
    BY <1>t, <2>1, Zenon
  <2> QED
    BY <1>4, <2>2 DEF WrDone, WrStep
<1>5. CASE WrHold(awvalid, awready, wvalid, wready, bready)
  BY <1>5 DEF WrHold, WrStep
<1> QED
  BY <1>1, <1>2, <1>3, <1>4, <1>5 DEF WrClock

(* What the decoder and the dispatcher do with a job.                      *)
DecStep ==
  /\ dec'.decode_valid => fx.desc_done /\ enable
  /\ dec'.decode_valid => dec'.desc = fx.desc_data

DispStep ==
  disp'.npu_dispatch_pulse =>
    enable /\ dec.decode_valid /\ disp'.npu_job = JobIn(dec.desc)

(* An edge of the whole path a job takes.                                  *)
JobEdge(arready, awready, wready) ==
  /\ awready => st.awvalid /\ ~wr.busy
  /\ wready => st.wvalid /\ wr.busy /\ wr.beat < OutBeats
  /\ ExecEdge(arready)
  /\ DecStep /\ DispStep
  /\ StStep(enable, ex.store_request_pulse, ex.last_output, npu.result, awready, wready,
            wr.bvalid)
  /\ WrStep(st.awvalid, st.output, awready, st.wvalid, wready, st.result, st.wword, st.bready)

(* Every step of Next is an edge of a job's path.                          *)
LEMMA NextJobEdge ==
  ASSUME TypeOK, Next
  PROVE  \E arready, awready, wready \in BOOLEAN : JobEdge(arready, awready, wready)
<1>p. PICK arready \in ReadySet("AR", PortArvalid /\ ~rd.busy),
           awready \in ReadySet("AW", st.awvalid /\ ~wr.busy),
           wready \in ReadySet("W", st.wvalid /\ wr.busy /\ wr.beat < OutBeats) :
        /\ PortClock(arready, awready, wready) /\ AccelClock(arready, awready, wready)
        /\ SoftwareClock
  BY DEF Next, Edge
<1>t. /\ ExTypeOK /\ NpuTypeOK /\ StTypeOK /\ PortTypeOK /\ dec \in DecRegs
      /\ disp \in DispRegs /\ enable \in BOOLEAN
      /\ pf.payload_valid \in BOOLEAN /\ npu.busy \in BOOLEAN /\ npu.done \in BOOLEAN
  BY DEF TypeOK, NpuTypeOK, RegsTypeOK, RegFile, enable, PfTypeOK, PfRegs, DecTypeOK
<1>1. ExecEdge(arready)
  <2>1. ReadEdge(arready)
    BY <1>p, ReadEdges
  <2>2. ExStep(enable, pf.payload_valid, pf.job, npu.busy, npu.done)
    BY <1>p, <1>t, ExSteps DEF AccelClock
  <2>3. NpuStep(MuxStart(regs.npu_start_pulse), MuxModel, MuxInputs, MuxWeights)
    BY <1>p, <1>t, NpuSteps DEF AccelClock
  <2> QED
    BY <2>1, <2>2, <2>3 DEF ExecEdge
<1>2. DecStep
  <2>1. DecodeClock(enable, fx.desc_done, fx.desc_error, fx.desc_data)
    BY <1>p DEF AccelClock
  <2> QED
    BY <1>t, <2>1 DEF DecodeClock, DecQuiet, DecGood, DecBad, DecRegs, DecStep
<1>3. DispStep
  <2>1. DispatchClock(enable)
    BY <1>p DEF AccelClock
  <2> QED
    BY <1>t, <2>1, NpuDispatch DEF DispStep
<1>4. StStep(enable, ex.store_request_pulse, ex.last_output, npu.result, awready, wready,
             wr.bvalid)
  BY <1>p, <1>t, StSteps DEF AccelClock
<1>5. WrStep(st.awvalid, st.output, awready, st.wvalid, wready, st.result, st.wword, st.bready)
  BY <1>p, <1>t, WrSteps DEF PortClock
<1>6. /\ arready \in BOOLEAN /\ awready \in BOOLEAN /\ wready \in BOOLEAN
      /\ awready => st.awvalid /\ ~wr.busy
      /\ wready => st.wvalid /\ wr.busy /\ wr.beat < OutBeats
  BY DEF ReadySet
<1> QED
  BY <1>1, <1>2, <1>3, <1>4, <1>5, <1>6 DEF JobEdge

-----------------------------------------------------------------------------
(* The conditions under which a result can be told to be its job's: the    *)
(* queue has the NPU to itself, nothing is disabled or reset, no read beat *)
(* is errored and every model is a built-in one.                           *)
Undisturbed ==
  /\ host.disables = 0 /\ host.resets = 0 /\ rd.errors = 0 /\ direct.starts = 0
  /\ RuntimeJobs = {}

InputsOf(k) == [b \in 0..InputBeats-1 |-> MemWord("input", k, b)]

(* What travels along the path belongs to one job k, at each stage.        *)
IsDescriptor(d) == \E k \in 1..Jobs : d = DescOf(k)
IsJob(j)        == \E k \in 1..Jobs : j = JobIn(DescOf(k))
IsLaunch(model, inputs, output) ==
  \E k \in 1..Jobs : /\ model = MemWord("desc", k, 1) /\ inputs = InputsOf(k)
                     /\ output = MemWord("desc", k, 5)
IsOutcome(result, output) ==
  \E k \in 1..Jobs : result = ResultOf(k) /\ output = MemWord("desc", k, 5)

(* From the bus to the payload: the words the payload fetch holds are      *)
(* those of the job it took up, and no dispatch comes while one of its     *)
(* bursts could still change what the execute stub is about to be offered. *)
PayloadOfJob ==
  /\ rd.rvalid /\ ~arb.owner_desc =>
       rd.rdata = MemWord(rd.addr.buf, rd.addr.at, rd.beat)
  /\ dec.decode_valid => IsDescriptor(dec.desc)
  /\ disp.npu_dispatch_pulse => IsJob(disp.npu_job)
  /\ pf.state # "IDLE" \/ pf.payload_valid => IsJob(pf.job)
  /\ pf.state = "INPUT_R" =>
       \A b \in 0..InputBeats-1 : b < pf.beat_index =>
         pf.inputs[b] = MemWord("input", pf.job.input.id, b)
  /\ pf.state \in {"WEIGHT_AR", "WEIGHT_R"} \/ pf.payload_valid =>
       pf.inputs = InputsOf(pf.job.input.id)
  /\ pf.state = "WEIGHT_R" =>
       /\ ~fx.desc_done
       /\ pf.beat_index >= 1 => ~dec.decode_valid
       /\ pf.beat_index >= 2 => ~disp.npu_dispatch_pulse
  /\ pf.payload_valid => ~disp.npu_dispatch_pulse

(* From the start of the NPU to its result.                                *)
ResultOfJob ==
  /\ ex.npu_start_pulse => IsLaunch(ex.npu_model, pf.inputs, ex.last_output)
  /\ npu.busy => IsLaunch(npu.model, npu.inputs, ex.last_output)
  /\ npu.done \/ ex.store_request_pulse => IsOutcome(npu.result, ex.last_output)

(* From the result to memory: the burst the port is writing is the store   *)
(* stub's, and both are at the same word of it.                            *)
StoreOfJob ==
  /\ st.state # "IDLE" => IsOutcome(st.result, st.output)
  /\ st.awvalid => st.state = "AW"
  /\ st.wvalid => st.state = "W"
  /\ ~enable => st.state = "IDLE"
  /\ wr.busy => wr.addr = st.output /\ st.state \in {"W", "B"}
  /\ wr.bvalid => wr.busy
  /\ st.state = "W" => /\ wr.busy /\ ~wr.bvalid
                       /\ wr.beat = st.beat_index /\ st.wword = st.beat_index
  /\ StoredResultIsOwn

JobFlow == Undisturbed => PayloadOfJob /\ ResultOfJob /\ StoreOfJob

(* No job is under way at reset.                                           *)
LEMMA JobFlowInit == Init => JobFlow
  BY DEF Init, FxInit, DecInit, PfInit, PfReset, ExecInit, ExReset, StInit, StReset,
     PortInit, JobFlow, PayloadOfJob, ResultOfJob, StoreOfJob, StoredResultIsOwn

(* What is undisturbed after a step was undisturbed before it.             *)
LEMMA UndisturbedBefore ==
  ASSUME TypeOK, NEW arready \in BOOLEAN, ReadEdge(arready), Undisturbed'
  PROVE  Undisturbed /\ (enable => enable')
<1>1. /\ host.disables = 0 /\ host.resets = 0 /\ (enable => enable')
  BY EnableStays DEF TypeOK, ReadEdge, Undisturbed
<1>2. rd.errors = 0
  <2>1. rd.errors \in Nat
    BY PortAssumption DEF TypeOK, PortTypeOK, PortAssumption
  <2> QED
    BY <2>1 DEF ReadEdge, RdStep, RdShows, Undisturbed
<1>3. direct.starts = 0
  <2>1. direct.starts \in Nat
    BY HostAssumption DEF TypeOK, HostTypeOK, HostAssumption
  <2> QED
    BY <2>1 DEF ReadEdge, SoftStep, SoftPush, SoftPushed, SoftSubmit, SoftDoorbell,
       SoftSync, SoftReset, SoftReadShadow, SoftForward, SoftEnable, SoftDisable,
       SoftDirect, SameRegs, SameStarts, QueueRegs, Undisturbed
<1> QED
  BY <1>1, <1>2, <1>3 DEF Undisturbed

(* The identity of a job survives decoding.                                *)
LEMMA JobFields ==
  ASSUME NEW j, IsJob(j)
  PROVE  \E k \in 1..Jobs : /\ j.model = MemWord("desc", k, 1) /\ j.input.id = k
                            /\ j.output = MemWord("desc", k, 5)
  BY DEF IsJob, JobIn, DescOf, DescBeats, MemWord

(* The store side of a step.                                               *)
LEMMA StoreOfJobStep ==
  ASSUME TypeOK, NpuInTime, Undisturbed, ResultOfJob, StoreOfJob, enable => enable',
         NEW arready, NEW awready, NEW wready, JobEdge(arready, awready, wready)
  PROVE  StoreOfJob'
<1> DEFINE request == ex.store_request_pulse
<1>t. /\ st.state \in {"IDLE", "AW", "W", "B"} /\ st.wword \in 0..5
      /\ wr.beat \in 0..6 /\ wr.busy \in BOOLEAN /\ wr.bvalid \in BOOLEAN
      /\ outmem \in [Ids -> [0..OutBeats-1 -> [result : Result, word : 0..OutBeats]]]
      /\ OutBeats = 6
  BY DEF TypeOK, StTypeOK, StRegs, PortTypeOK, OutBeats
<1>r. /\ awready => st.awvalid /\ ~wr.busy
      /\ wready => st.wvalid /\ wr.busy /\ wr.beat < OutBeats
  BY DEF JobEdge
<1>s. StStep(enable, request, ex.last_output, npu.result, awready, wready, wr.bvalid)
  BY DEF JobEdge
<1>w. WrStep(st.awvalid, st.output, awready, st.wvalid, wready, st.result, st.wword, st.bready)
  BY DEF JobEdge
<1>i. /\ st.state # "IDLE" => IsOutcome(st.result, st.output)
      /\ st.awvalid => st.state = "AW"
      /\ st.wvalid => st.state = "W"
      /\ ~enable => st.state = "IDLE"
      /\ wr.busy => wr.addr = st.output /\ st.state \in {"W", "B"}
      /\ wr.bvalid => wr.busy
      /\ st.state = "W" => /\ wr.busy /\ ~wr.bvalid
                           /\ wr.beat = st.beat_index /\ st.wword = st.beat_index
  BY DEF StoreOfJob
<1>o. request => IsOutcome(npu.result, ex.last_output)
  BY DEF ResultOfJob
<1>1. st'.state # "IDLE" => IsOutcome(st'.result, st'.output)
  BY <1>s, <1>i, <1>o DEF StStep, StTakes, StRests, StOpens, StSends, StCloses, StEnds,
     StStalls, StKeeps
<1>2. /\ st'.awvalid => st'.state = "AW"
      /\ st'.wvalid => st'.state = "W"
      /\ ~enable' => st'.state = "IDLE"
  BY <1>s, <1>i DEF StStep, StTakes, StRests, StOpens, StSends, StCloses, StEnds, StStalls
<1>3. wr'.busy => wr'.addr = st'.output /\ st'.state \in {"W", "B"}
  BY <1>s, <1>w, <1>i, <1>r, <1>t
     DEF StStep, StTakes, StRests, StOpens, StSends, StCloses, StEnds, StStalls, StKeeps, WrStep
<1>4. wr'.bvalid => wr'.busy
  BY <1>w, <1>i, <1>r DEF WrStep
<1>5. st'.state = "W" => /\ wr'.busy /\ ~wr'.bvalid
                         /\ wr'.beat = st'.beat_index /\ st'.wword = st'.beat_index
  BY <1>s, <1>w, <1>i, <1>r, <1>t
     DEF StStep, StTakes, StRests, StOpens, StSends, StCloses, StEnds, StStalls, WrStep
<1>6. StoredResultIsOwn'
  <2>1. CASE outmem' = outmem
    BY <2>1 DEF StoreOfJob, StoredResultIsOwn
  <2>2. CASE /\ st.wvalid /\ wready
             /\ outmem' = [outmem EXCEPT ![wr.addr.id][wr.beat] =
                             [result |-> st.result, word |-> st.wword]]
    <3>1. PICK k \in 1..Jobs : st.result = ResultOf(k) /\ st.output = MemWord("desc", k, 5)
      BY <2>2, <1>i DEF IsOutcome
    <3>2. wr.addr.id = k /\ wr.beat = st.wword
      BY <2>2, <1>i, <3>1 DEF MemWord
    <3>3. outmem' = [outmem EXCEPT ![k][wr.beat] = [result |-> ResultOf(k), word |-> wr.beat]]
      BY <2>2, <3>1, <3>2
    <3> SUFFICES ASSUME NEW id \in Ids, NEW w \in 0..OutBeats-1, outmem'[id][w] # NoWord
                 PROVE  id # 0 /\ outmem'[id][w] = [result |-> ResultOf(id), word |-> w]
      BY DEF StoredResultIsOwn, ResultOf, NoWord, ZeroResult
    <3>4. CASE id = k /\ w = wr.beat
      BY <3>3, <3>4, <1>t
    <3>5. CASE ~(id = k /\ w = wr.beat)
      <4>1. outmem'[id][w] = outmem[id][w]
        BY <3>3, <3>5, <1>t
      <4> QED
        BY <4>1 DEF StoreOfJob, StoredResultIsOwn
    <3> QED
      BY <3>4, <3>5
  <2> QED
    BY <1>w, <2>1, <2>2 DEF WrStep
<1> QED
  BY <1>1, <1>2, <1>3, <1>4, <1>5, <1>6 DEF StoreOfJob

-----------------------------------------------------------------------------
(* The execute side of a step.                                             *)
LEMMA ResultOfJobStep ==
  ASSUME TypeOK, ReadOwned, NpuInTime, Undisturbed, PayloadOfJob, ResultOfJob,
         NEW arready \in BOOLEAN, NEW awready, NEW wready, JobEdge(arready, awready, wready)
  PROVE  ResultOfJob'
<1>t. /\ ex.npu_start_pulse \in BOOLEAN /\ ex.inflight \in BOOLEAN
      /\ npu.busy \in BOOLEAN /\ npu.done \in BOOLEAN /\ pf.payload_valid \in BOOLEAN
      /\ npu.countdown \in 0..4
  BY DEF TypeOK, ExTypeOK, ExRegs, NpuTypeOK, PfTypeOK, PfRegs, NpuLatency
<1>n. /\ ~regs.npu_start_pulse
      /\ pf.payload_valid => pf.state = "IDLE"
      /\ ex.npu_start_pulse => ~npu.busy /\ ~npu.done
      /\ ~(npu.busy /\ npu.done)
      /\ ex.inflight <=> (ex.npu_start_pulse \/ npu.busy \/ npu.done)
      /\ ~enable => ~ex.inflight
  BY DEF NpuInTime, Undisturbed
<1>b. pf.payload_valid => ~ex.inflight /\ ~npu.busy
  <2>1. pf.payload_valid => NpuLeft <= 0
    BY DEF NpuInTime, Undisturbed, PfLeft
  <2> QED
    BY <1>t, <1>n, <2>1 DEF NpuLeft, NpuLatency
<1>e. ExStep(enable, pf.payload_valid, pf.job, npu.busy, npu.done)
  BY DEF JobEdge, ExecEdge
<1>u. NpuStep(ex.npu_start_pulse, MuxModel, MuxInputs, MuxWeights)
  <2>1. MuxStart(regs.npu_start_pulse) = ex.npu_start_pulse
    BY <1>n, <1>t DEF MuxStart
  <2> QED
    BY <2>1 DEF JobEdge, ExecEdge
<1>p. PfStep(enable, disp.npu_dispatch_pulse, disp.npu_job, NpuArready(arready),
             NpuRvalid(rd.rvalid), rd.rdata, rd.rerror, Rlast)
  BY DEF JobEdge, ExecEdge, ReadEdge
<1>i. /\ ex.npu_start_pulse => IsLaunch(ex.npu_model, pf.inputs, ex.last_output)
      /\ npu.busy => IsLaunch(npu.model, npu.inputs, ex.last_output)
      /\ npu.done \/ ex.store_request_pulse => IsOutcome(npu.result, ex.last_output)
      /\ pf.payload_valid => /\ IsJob(pf.job) /\ ~disp.npu_dispatch_pulse
                             /\ pf.inputs = InputsOf(pf.job.input.id)
  BY DEF ResultOfJob, PayloadOfJob
<1>l. enable /\ ~pf.payload_valid => ex'.last_output = ex.last_output /\ ~ex'.npu_start_pulse
  BY <1>e DEF ExStep, ExStarts, ExRejects, ExGoesOn
<1>1. ex'.npu_start_pulse => IsLaunch(ex'.npu_model, pf'.inputs, ex'.last_output)
  <2> SUFFICES ASSUME ex'.npu_start_pulse
               PROVE  IsLaunch(ex'.npu_model, pf'.inputs, ex'.last_output)
    OBVIOUS
  <2>1. /\ enable /\ pf.payload_valid
        /\ ex'.npu_model = pf.job.model /\ ex'.last_output = pf.job.output
    BY <1>e DEF ExStep, ExStarts, ExRejects, ExGoesOn
  <2>2. pf'.inputs = pf.inputs
    BY <1>p, <1>n, <1>i, <2>1
       DEF PfStep, PfAccepts, PfIdles, PfOpens, PfTakesInput, PfTakesWeight, PfWaits
  <2>3. PICK k \in 1..Jobs : /\ pf.job.model = MemWord("desc", k, 1) /\ pf.job.input.id = k
                             /\ pf.job.output = MemWord("desc", k, 5)
    BY <1>i, <2>1, JobFields
  <2> QED
    BY <1>i, <2>1, <2>2, <2>3 DEF IsLaunch
<1>2. npu'.busy => IsLaunch(npu'.model, npu'.inputs, ex'.last_output)
  <2> SUFFICES ASSUME npu'.busy PROVE IsLaunch(npu'.model, npu'.inputs, ex'.last_output)
    OBVIOUS
  <2>1. ex.npu_start_pulse \/ npu.busy
    BY <1>u, <1>t DEF NpuStep, NpuStarts, NpuCounts, NpuFinishes, NpuWaits
  <2>2. ex'.last_output = ex.last_output
    BY <1>l, <1>b, <1>n, <2>1
  <2>3. CASE ex.npu_start_pulse
    <3>1. npu'.model = ex.npu_model /\ npu'.inputs = pf.inputs
      BY <1>u, <1>n, <2>3 DEF NpuStep, NpuStarts, NpuCounts, NpuFinishes, NpuWaits,
         MuxModel, MuxInputs
    <3> QED
      BY <1>i, <2>2, <2>3, <3>1
  <2>4. CASE npu.busy
    <3>1. npu'.model = npu.model /\ npu'.inputs = npu.inputs
      BY <1>u, <1>n, <2>4 DEF NpuStep, NpuStarts, NpuCounts, NpuFinishes, NpuWaits
    <3> QED
      BY <1>i, <2>2, <2>4, <3>1
  <2> QED
    BY <2>1, <2>3, <2>4
<1>3. npu'.done => IsOutcome(npu'.result, ex'.last_output)
  <2> SUFFICES ASSUME npu'.done PROVE IsOutcome(npu'.result, ex'.last_output)
    OBVIOUS
  <2>1. /\ npu.busy
        /\ npu'.result = [model |-> npu.model, inputs |-> npu.inputs,
                          weights |-> IF IsRuntime(npu.model) THEN MuxWeights ELSE Builtin]
    BY <1>u DEF NpuStep, NpuStarts, NpuCounts, NpuFinishes, NpuWaits
  <2>2. ex'.last_output = ex.last_output
    BY <1>l, <1>b, <1>n, <2>1
  <2>3. ~IsRuntime(npu.model)
    BY DEF IsRuntime, Undisturbed
  <2>4. PICK k \in 1..Jobs : /\ npu.model = MemWord("desc", k, 1)
                             /\ npu.inputs = InputsOf(k)
                             /\ ex.last_output = MemWord("desc", k, 5)
    BY <1>i, <2>1 DEF IsLaunch
  <2>5. npu'.result = ResultOf(k)
    BY <2>1, <2>3, <2>4 DEF ResultOf, InputsOf
  <2> QED
    BY <2>2, <2>4, <2>5 DEF IsOutcome
<1>4. ex'.store_request_pulse => IsOutcome(npu'.result, ex'.last_output)
  <2> SUFFICES ASSUME ex'.store_request_pulse
               PROVE  IsOutcome(npu'.result, ex'.last_output)
    OBVIOUS
  <2>1. enable /\ ex.inflight /\ npu.done
    BY <1>e DEF ExStep, ExStarts, ExRejects, ExGoesOn
  <2>2. ex'.last_output = ex.last_output
    BY <1>l, <1>b, <2>1
  <2>3. npu'.result = npu.result
    BY <1>u, <1>n, <2>1 DEF NpuStep, NpuStarts, NpuCounts, NpuFinishes, NpuWaits
  <2> QED
    BY <1>i, <2>1, <2>2, <2>3
<1> QED
  BY <1>1, <1>2, <1>3, <1>4 DEF ResultOfJob

(* The read side of a step.                                                *)
LEMMA PayloadOfJobStep ==
  ASSUME TypeOK, Handshake, ReadOwned, RingInOrder, DescInOrder, NpuInTime, Undisturbed,
         Undisturbed', PayloadOfJob, NEW arready \in BOOLEAN, NEW awready, NEW wready,
         JobEdge(arready, awready, wready)
  PROVE  PayloadOfJob'
<1> DEFINE dv == disp.npu_dispatch_pulse
           nr == NpuRvalid(rd.rvalid)
<1>t. /\ pf.state \in PfStates /\ pf.beat_index \in 0..7 /\ pf.payload_valid \in BOOLEAN
      /\ rd.beat \in 0..7 /\ rd.busy \in BOOLEAN /\ rd.rvalid \in BOOLEAN
      /\ rd.addr \in Address /\ arb.owner_desc \in BOOLEAN /\ Rlast \in BOOLEAN
      /\ pf.inputs \in [0..InputBeats-1 -> Word] /\ InputBeats = 2 /\ WeightBeats = 6
      /\ fx.desc_done \in BOOLEAN
  BY DEF TypeOK, PfTypeOK, PfRegs, PortTypeOK, ArbTypeOK, Rlast, Inputs, InputBeats,
     WeightBeats, FxTypeOK, FxRegs
<1>re. ReadEdge(arready)
  BY DEF JobEdge, ExecEdge
<1>p. PfStep(enable, dv, disp.npu_job, NpuArready(arready), nr, rd.rdata, rd.rerror, Rlast)
  BY <1>re DEF ReadEdge
<1>x. FxStep(enable, fe.fetch_valid, fe.fetch_slot, DescArready(arready),
             DescRvalid(rd.rvalid), rd.rdata, rd.rerror, Rlast)
  BY <1>re DEF ReadEdge
<1>rd. RdStep(PortArvalid, PortAraddr, arready, PortRready)
  BY <1>re DEF ReadEdge
<1>m. ReadMove(arready)
  BY <1>re, ReadMoves DEF Undisturbed
<1>d. DecStep /\ DispStep
  BY DEF JobEdge
<1>o. /\ rd.rvalid => rd.busy
      /\ rd.busy /\ ~arb.owner_desc =>
           /\ pf.state = (IF rd.addr.buf = "input" THEN "INPUT_R" ELSE "WEIGHT_R")
           /\ pf.rready /\ rd.addr = PfAraddr /\ rd.beat = pf.beat_index
      /\ pf.state \in {"INPUT_R", "WEIGHT_R"} => rd.busy /\ ~arb.owner_desc
      /\ pf.arvalid => pf.state \in {"INPUT_AR", "WEIGHT_AR"}
      /\ ~enable => pf.state = "IDLE" /\ ~rd.busy
  BY DEF ReadOwned, BurstOwner, Undisturbed
<1>i. /\ rd.rvalid /\ ~arb.owner_desc =>
           rd.rdata = MemWord(rd.addr.buf, rd.addr.at, rd.beat)
      /\ dec.decode_valid => IsDescriptor(dec.desc)
      /\ dv => IsJob(disp.npu_job)
      /\ pf.state # "IDLE" \/ pf.payload_valid => IsJob(pf.job)
      /\ pf.state = "INPUT_R" =>
           \A b \in 0..InputBeats-1 : b < pf.beat_index =>
             pf.inputs[b] = MemWord("input", pf.job.input.id, b)
      /\ pf.state \in {"WEIGHT_AR", "WEIGHT_R"} \/ pf.payload_valid =>
           pf.inputs = InputsOf(pf.job.input.id)
      /\ pf.state = "WEIGHT_R" =>
           /\ ~fx.desc_done
           /\ pf.beat_index >= 1 => ~dec.decode_valid
           /\ pf.beat_index >= 2 => ~dv
  BY DEF PayloadOfJob
<1>len. /\ pf.state = "INPUT_R" => (Rlast <=> pf.beat_index = 1) /\ pf.beat_index < 2
        /\ pf.state = "WEIGHT_R" => (Rlast <=> pf.beat_index = 5) /\ pf.beat_index < 6
  <2>1. /\ pf.state = "INPUT_R" => BurstLen(rd.addr) = 2
        /\ pf.state = "WEIGHT_R" => BurstLen(rd.addr) = 6
    BY <1>o, <1>t DEF BurstLen, PfAraddr
  <2>2. rd.beat < BurstLen(rd.addr)
    BY DEF TypeOK, PortTypeOK
  <2> QED
    BY <1>o, <1>t, <2>1, <2>2 DEF Rlast
<1>1. rd'.rvalid /\ ~arb'.owner_desc =>
        rd'.rdata = MemWord(rd'.addr.buf, rd'.addr.at, rd'.beat)
  <2> SUFFICES ASSUME rd'.rvalid, ~arb'.owner_desc
               PROVE  rd'.rdata = MemWord(rd'.addr.buf, rd'.addr.at, rd'.beat)
    OBVIOUS
  <2>1. rd.busy /\ ~arb.owner_desc /\ rd'.addr = rd.addr
    BY <1>m, <1>o, <1>t DEF ReadMove, Opened, BeatTaken, NothingTaken
  <2>2. rd.addr.buf \in {"input", "weight"}
    BY <1>o, <2>1 DEF PfAraddr
  <2>3. ASSUME NEW b, RdShows(b) PROVE rd'.rdata = MemWord(rd'.addr.buf, rd'.addr.at, rd'.beat)
    <3>1. rd'.rdata = Fetched(rd.addr, b) /\ rd'.beat = b
      <4>1. rd.errors = 0 /\ rd'.errors = 0
        BY DEF Undisturbed
      <4> QED
        BY <2>3, <4>1 DEF RdShows
    <3> QED
      BY <2>1, <2>2, <3>1 DEF Fetched
  <2>4. CASE rd' = rd
    BY <1>i, <1>m, <1>t, <2>1, <2>4
  <2>5. CASE \E b : RdShows(b)
    BY <2>3, <2>5
  <2> QED
    BY <1>rd, <1>o, <1>re, <2>1, <2>4, <2>5 DEF RdStep, ReadEdge
<1>2. dec'.decode_valid => IsDescriptor(dec'.desc)
  <2> SUFFICES ASSUME dec'.decode_valid PROVE IsDescriptor(dec'.desc)
    OBVIOUS
  <2>1. fx.desc_done /\ dec'.desc = fx.desc_data
    BY <1>d DEF DecStep
  <2>2. fx.desc_data = DescOf(Len(hist) + 1)
    BY <2>1 DEF DescInOrder, Undisturbed
  <2>3. Len(hist) + 1 \in 1..Jobs
    <3>1. fe.fetch_inflight
      BY <2>1 DEF Handshake
    <3>2. Len(hist) < host.exposed /\ host.exposed <= host.pushed
      BY <3>1 DEF RingInOrder, InRing, Undisturbed
    <3>3. Len(hist) \in Nat /\ host.exposed \in Nat /\ host.pushed \in 0..Jobs /\ Jobs \in Nat
      BY TypesAssumption DEF TypeOK, HostTypeOK, Ids, TypesAssumption
    <3> QED
      BY <3>2, <3>3
  <2> QED
    BY <2>1, <2>2, <2>3 DEF IsDescriptor
<1>3. disp'.npu_dispatch_pulse => IsJob(disp'.npu_job)
  BY <1>d, <1>i DEF DispStep, IsDescriptor, IsJob
<1>4. pf'.state # "IDLE" \/ pf'.payload_valid => IsJob(pf'.job)
  BY <1>p, <1>i DEF PfStep, PfReset, PfAccepts, PfIdles, PfOpens, PfTakesInput,
     PfTakesWeight, PfWaits
<1>5. pf'.state = "INPUT_R" =>
        \A b \in 0..InputBeats-1 : b < pf'.beat_index =>
          pf'.inputs[b] = MemWord("input", pf'.job.input.id, b)
  <2> SUFFICES ASSUME pf'.state = "INPUT_R", NEW b \in 0..InputBeats-1, b < pf'.beat_index
               PROVE  pf'.inputs[b] = MemWord("input", pf'.job.input.id, b)
    OBVIOUS
  <2>1. CASE pf.state = "INPUT_R" /\ pf'.inputs = pf.inputs /\ pf'.job = pf.job
             /\ pf'.beat_index = pf.beat_index
    BY <1>i, <2>1
  <2>2. CASE enable /\ PfTakesInput(dv, nr, rd.rdata, rd.rerror, Rlast)
    <3>1. /\ pf'.inputs = [pf.inputs EXCEPT ![pf.beat_index] = rd.rdata]
          /\ pf'.job = pf.job /\ pf'.beat_index = pf.beat_index + 1
      BY <2>2, <1>len, <1>t DEF PfTakesInput
    <3>2. rd.rdata = MemWord("input", pf.job.input.id, pf.beat_index)
      BY <2>2, <1>i, <1>o, <1>t DEF PfTakesInput, NpuRvalid, PfAraddr
    <3> QED
      BY <2>2, <1>i, <1>t, <3>1, <3>2 DEF PfTakesInput
  <2>3. CASE pf.state = "INPUT_AR" /\ pf'.beat_index = 0
    BY <1>t, <2>3
  <2>4. CASE ~enable /\ pf' = PfReset
    BY <2>4 DEF PfReset
  <2> QED
    BY <1>p, <1>t, <2>1, <2>2, <2>3, <2>4
       DEF PfStep, PfAccepts, PfIdles, PfOpens, PfTakesInput, PfTakesWeight, PfWaits
<1>6. pf'.state \in {"WEIGHT_AR", "WEIGHT_R"} \/ pf'.payload_valid =>
        pf'.inputs = InputsOf(pf'.job.input.id)
  <2> SUFFICES ASSUME pf'.state \in {"WEIGHT_AR", "WEIGHT_R"} \/ pf'.payload_valid
               PROVE  pf'.inputs = InputsOf(pf'.job.input.id)
    OBVIOUS
  <2>1. CASE pf.state \in {"WEIGHT_AR", "WEIGHT_R"} /\ pf'.inputs = pf.inputs
             /\ pf'.job = pf.job
    BY <1>i, <2>1
  <2>2. CASE enable /\ PfTakesInput(dv, nr, rd.rdata, rd.rerror, Rlast)
    <3>0. Rlast /\ pf.beat_index = 1 /\ nr
      BY <2>2, <1>len DEF PfTakesInput
    <3>1. /\ pf'.inputs = [pf.inputs EXCEPT ![1] = rd.rdata] /\ pf'.job = pf.job
      BY <2>2, <3>0, <1>t DEF PfTakesInput
    <3>2. rd.rdata = MemWord("input", pf.job.input.id, 1)
      BY <2>2, <3>0, <1>i, <1>o, <1>t DEF PfTakesInput, NpuRvalid, PfAraddr
    <3>3. pf.inputs[0] = MemWord("input", pf.job.input.id, 0)
      BY <2>2, <3>0, <1>i, <1>t DEF PfTakesInput
    <3> QED
      BY <1>t, <3>1, <3>2, <3>3 DEF InputsOf
  <2>3. CASE ~enable /\ pf' = PfReset
    BY <2>3 DEF PfReset
  <2> QED
    BY <1>p, <1>t, <2>1, <2>2, <2>3
       DEF PfStep, PfAccepts, PfIdles, PfOpens, PfTakesInput, PfTakesWeight, PfWaits
<1>7. pf'.state = "WEIGHT_R" =>
        /\ ~fx'.desc_done
        /\ pf'.beat_index >= 1 => ~dec'.decode_valid
        /\ pf'.beat_index >= 2 => ~disp'.npu_dispatch_pulse
  <2> SUFFICES ASSUME pf'.state = "WEIGHT_R"
               PROVE  /\ ~fx'.desc_done
                      /\ pf'.beat_index >= 1 => ~dec'.decode_valid
                      /\ pf'.beat_index >= 2 => ~disp'.npu_dispatch_pulse
    OBVIOUS
  <2>1. \/ pf.state = "WEIGHT_AR" /\ NpuArready(arready) /\ pf'.beat_index = 0
        \/ /\ pf.state = "WEIGHT_R"
           /\ pf'.beat_index = pf.beat_index \/ pf'.beat_index = pf.beat_index + 1
    BY <1>p, <1>t, <1>len
       DEF PfStep, PfReset, PfAccepts, PfIdles, PfOpens, PfTakesInput, PfTakesWeight, PfWaits
  <2>2. ~DescRvalid(rd.rvalid)
    BY <1>m, <1>o, <1>t, <2>1 DEF ReadMove, DescRvalid, ReadOwned, BurstOwner
  <2>3. ~fx'.desc_done
    BY <1>x, <2>2 DEF FxStep, FxStops, FxAsks, FxOpens, FxReceives, FxWaits, FxPulsesAre
  <2>4. pf'.beat_index >= 1 => ~dec'.decode_valid
    BY <1>d, <1>i, <2>1 DEF DecStep
  <2>5. pf'.beat_index >= 2 => ~disp'.npu_dispatch_pulse
    BY <1>d, <1>i, <1>t, <2>1 DEF DispStep
  <2> QED
    BY <2>3, <2>4, <2>5
<1>8. pf'.payload_valid => ~disp'.npu_dispatch_pulse
  <2> SUFFICES ASSUME pf'.payload_valid PROVE ~disp'.npu_dispatch_pulse
    OBVIOUS
  <2>1. PfTakesWeight(dv, nr, rd.rdata, rd.rerror, Rlast)
    BY <1>p DEF PfStep, PfReset, PfAccepts, PfIdles, PfOpens, PfTakesInput, PfWaits
  <2>2. pf.state = "WEIGHT_R" /\ pf'.payload_valid = Rlast
    BY <2>1 DEF PfTakesWeight
  <2> QED
    BY <1>d, <1>i, <1>t, <1>len, <2>2 DEF DispStep
<1> QED
  BY <1>1, <1>2, <1>3, <1>4, <1>5, <1>6, <1>7, <1>8 DEF PayloadOfJob

(* JobFlow is inductive relative to the invariants before it.              *)
LEMMA JobFlowStep ==
  /\ TypeOK /\ Handshake /\ ReadOwned /\ RingInOrder /\ DescInOrder /\ NpuInTime
  /\ JobFlow /\ [Next]_vars
  => JobFlow'
<1> SUFFICES ASSUME TypeOK, Handshake, ReadOwned, RingInOrder, DescInOrder, NpuInTime,
                    JobFlow, [Next]_vars
             PROVE  JobFlow'
  OBVIOUS
<1>1. CASE UNCHANGED vars
  BY <1>1 DEF vars, JobFlow, Undisturbed, PayloadOfJob, ResultOfJob, StoreOfJob,
     StoredResultIsOwn, enable
<1>2. CASE Next
  <2> SUFFICES ASSUME Undisturbed' PROVE PayloadOfJob' /\ ResultOfJob' /\ StoreOfJob'
    BY DEF JobFlow
  <2>1. PICK arready \in BOOLEAN, awready \in BOOLEAN, wready \in BOOLEAN :
          JobEdge(arready, awready, wready)
    BY <1>2, NextJobEdge
  <2>2. Undisturbed /\ (enable => enable')
    BY <2>1, UndisturbedBefore DEF JobEdge, ExecEdge
  <2>3. PayloadOfJob /\ ResultOfJob /\ StoreOfJob
    BY <2>2 DEF JobFlow
  <2> QED
    BY <2>1, <2>2, <2>3, PayloadOfJobStep, ResultOfJobStep, StoreOfJobStep
<1> QED
  BY <1>1, <1>2

(* What lies at a job's output offset is that job's result, for every ring *)
(* size, number and mix of jobs and memory port: a queue that has the NPU  *)
(* to itself and is neither disabled nor reset, reading without errors,    *)
(* never mixes up two jobs between descriptor, payload, NPU and store.     *)
THEOREM StoredResultsAreOwn == Spec => [](Undisturbed => StoredResultIsOwn)
<1> DEFINE IInv == /\ TypeOK /\ Handshake /\ ReadOwned /\ RingInOrder /\ DescInOrder
                   /\ NpuInTime /\ JobFlow
<1>1. Init => IInv
  BY InitTyped, HandshakeInit, ReadOwnedInit, RingInOrderInit, DescInOrderInit,
     NpuInTimeInit, JobFlowInit
<1>2. IInv /\ [Next]_vars => IInv'
  BY NextTyped, HandshakeStep, ReadOwnedStep, RingInOrderStep, DescInOrderStep,
     NpuInTimeStep, JobFlowStep
<1>3. IInv => (Undisturbed => StoredResultIsOwn)
  BY DEF JobFlow, StoreOfJob
<1> QED
  BY <1>1, <1>2, <1>3, PTL DEF Spec
=============================================================================
