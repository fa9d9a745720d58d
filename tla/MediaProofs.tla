---------------------------- MODULE MediaProofs ----------------------------
(***************************************************************************)
(* Proofs about two resources that the media of a call use.                *)
(*                                                                         *)
(* The port allocator, for any range and any clients: its types, that      *)
(* track_used is exact, and, for a range of even ports, that every port is *)
(* inside the range, is one client's, and is tracked exactly while it is:  *)
(* whatever clients release again, and whenever.                           *)
(*                                                                         *)
(* The media bugs of a session, for any threads, kinds and number of bugs: *)
(* that the list is one, that a bug is closed once, and that none is       *)
(* dropped, up to the pass of prune that uses a last of an earlier pass.   *)
(* The list is reasoned about through the order it keeps: a bug is added   *)
(* at the head, with a number above all others, and removals keep the      *)
(* order, so that every loop over the list falls from bug to bug.          *)
(***************************************************************************)
EXTENDS PortAllocator, MediaBug, FiniteSetTheorems, WellFoundedInduction, TLAPS

-----------------------------------------------------------------------------
(* Ports: the range *)

LEMMA LengthPositive == Length \in Nat \ {0}
<1>1. First \in Nat /\ Last \in Nat /\ First <= Last + 1
  BY RangeAssumption DEF First, Last
<1>2. ~Every => First <= Last
  BY RangeAssumption DEF First, Last
<1> QED BY <1>1, <1>2 DEF Length

LEMMA SlotsFinite == IsFiniteSet(Slots)
BY LengthPositive, FS_Interval DEF Slots

\* With SPF_EVEN alone, as RTP asks, slots and ports correspond, the ports
\* are even and inside the range that was asked for.
LEMMA EvenPorts ==
    ASSUME Flags = {"even"}
    PROVE  /\ \A i \in Slots : PortOf(i) % 2 = 0 /\ First <= PortOf(i) /\ Start <= PortOf(i) /\ PortOf(i) <= End
           /\ \A i \in Slots : SlotOf(PortOf(i)) = i
<1>1. ~Every /\ Flags # {"odd"}
  <2>1. "odd" \notin Flags OBVIOUS
  <2> QED BY <2>1 DEF Every
<1>2. PICK n \in Nat : First = 2 * n
  <2>1. First \in Nat /\ First % 2 = 0 BY RangeAssumption DEF First
  <2> QED BY <2>1
<1>3. PICK m \in Nat : Last = 2 * m
  <2>1. Last \in Nat /\ Last % 2 = 0 BY RangeAssumption DEF Last
  <2> QED BY <2>1
<1>4. Start <= First /\ Last <= End
  BY RangeAssumption, <1>1 DEF First, Last
<1>5. First \div 2 = n BY <1>2
<1>6. Length = m - n + 1
  BY <1>1, <1>2, <1>3 DEF Length
<1>7. ASSUME NEW i \in Slots
      PROVE  /\ PortOf(i) % 2 = 0 /\ First <= PortOf(i) /\ Start <= PortOf(i) /\ PortOf(i) <= End
             /\ SlotOf(PortOf(i)) = i
  <2>1. PortOf(i) = 2 * (i + n) /\ i \in Nat /\ i <= m - n
    BY <1>1, <1>5, <1>6 DEF PortOf, Slots
  <2>2. SlotOf(PortOf(i)) = (2 * (i + n) - 2 * n) \div 2
    BY <1>1, <1>2, <2>1 DEF SlotOf
  <2>3. SlotOf(PortOf(i)) = i BY <2>1, <2>2
  <2>4. PortOf(i) % 2 = 0 BY <2>1
  <2> QED BY <1>2, <1>3, <1>4, <2>1, <2>3, <2>4, RangeAssumption
<1> QED BY <1>7

-----------------------------------------------------------------------------
(* Ports: what one turn of the loop does to the slots *)

\* Walking over slots changes none that is handed out and hands none out.
LEMMA CooledKeeps ==
    ASSUME TypeOK, NEW i \in Slots
    PROVE  /\ Cooled(i) \in [Slots -> Rest .. 1]
           /\ \A j \in Slots : Cooled(i)[j] = 1 <=> track[j] = 1
BY DEF Cooled, TypeOK, Rest

\* The slot of a port that may be released is one of the allocator's.
LEMMA SlotOfPort ==
    ASSUME NEW p \in Ports, p >= First
    PROVE  SlotOf(p) \in Slots
<1>1. PICK i \in Slots : p = PortOf(i) BY DEF Ports
<1>2. First \in Nat BY RangeAssumption DEF First
<1>3. i \in Nat /\ i < Length BY LengthPositive DEF Slots
<1>4. CASE Every
  BY <1>1, <1>2, <1>3, <1>4 DEF PortOf, SlotOf, Slots
<1>5. CASE ~Every
  <2>1. p = 2 * (i + First \div 2) BY <1>1, <1>5 DEF PortOf
  <2>2. SlotOf(p) = (2 * (i + First \div 2) - First) \div 2
    BY <1>5, <2>1 DEF SlotOf
  <2>3. PICK n \in Nat : n = First \div 2 /\ (First = 2 * n \/ First = 2 * n + 1)
    BY <1>2
  <2>4. First \div 2 = n BY <2>3
  <2>5. p \in Nat /\ p = 2 * (i + n) BY <2>1, <2>4, <1>3
  <2>6. SlotOf(p) \in Int /\ 0 <= SlotOf(p) /\ SlotOf(p) <= i
    BY <1>2, <1>3, <2>2, <2>3, <2>4, <2>5
  <2> QED BY <2>6, <1>3, LengthPositive DEF Slots
<1> QED BY <1>4, <1>5

-----------------------------------------------------------------------------
(* Ports: types and the count *)

CountInv == TypeOK /\ UsedIsExact

\* A turn hands out at most the slot it stops at.
LEMMA TurnCounts ==
    ASSUME CountInv, NEW c \in Clients, NEW i \in Slots,
           Grant(c, i) \/ Refuse(c, i) \/ Pass(c, i)
    PROVE  CountInv'
<1> USE LengthPositive DEF CountInv
<1>f. IsFiniteSet(HandedOut)
  BY SlotsFinite, FS_Subset DEF HandedOut
<1>k. /\ Cooled(i) \in [Slots -> Rest .. 1]
      /\ \A j \in Slots : Cooled(i)[j] = 1 <=> track[j] = 1
  BY CooledKeeps
<1>1. CASE Grant(c, i)
  <2>1. PICK j \in Slots :
          /\ StopsAt(i, j)
          /\ track' = [Cooled(i) EXCEPT ![j] = 1]
          /\ mine' = [mine EXCEPT ![c] = @ \cup {PortOf(j)}]
          /\ past' = [past EXCEPT ![c] = @ \cup (mine[c] \cap {PortOf(j)})]
          /\ robbed' = [robbed EXCEPT ![c] = @ \ {PortOf(j)}]
    BY <1>1 DEF Grant
  <2>2. track[j] = 0 BY <2>1 DEF StopsAt
  <2>3. HandedOut' = HandedOut \cup {j} /\ j \notin HandedOut
    BY <1>k, <2>1, <2>2 DEF HandedOut
  <2>4. Cardinality(HandedOut') = Cardinality(HandedOut) + 1
    BY <1>f, <2>3, FS_AddElement
  <2>5. UsedIsExact' BY <1>1, <2>4 DEF Grant, UsedIsExact
  <2>6. track' \in [Slots -> Rest .. 1] BY <1>k, <2>1 DEF Rest
  <2>7. PortOf(j) \in Ports BY DEF Ports
  <2>8. mine' \in [Clients -> SUBSET Ports] BY <2>1, <2>7 DEF TypeOK
  <2>9. used' \in 0 .. Length BY <1>1 DEF Grant, TypeOK
  <2>10. past' \in [Clients -> SUBSET Ports] BY <2>1, <2>7 DEF TypeOK
  <2>11. robbed' \in [Clients -> SUBSET Ports] BY <2>1 DEF TypeOK
  <2> QED BY <1>1, <2>5, <2>6, <2>8, <2>9, <2>10, <2>11 DEF Grant, TypeOK
<1>2. CASE Refuse(c, i)
  <2>1. PICK j \in Slots : StopsAt(i, j) /\ track' = [Cooled(i) EXCEPT ![j] = Rest]
    BY <1>2 DEF Refuse
  <2>2. track[j] = 0 BY <2>1 DEF StopsAt
  <2>3. HandedOut' = HandedOut BY <1>k, <2>1, <2>2 DEF HandedOut, Rest
  <2>4. track' \in [Slots -> Rest .. 1] BY <1>k, <2>1 DEF Rest
  <2> QED BY <1>2, <2>3, <2>4 DEF Refuse, TypeOK, UsedIsExact
<1>3. CASE Pass(c, i)
  <2>1. HandedOut' = HandedOut BY <1>3, <1>k DEF Pass, HandedOut
  <2> QED BY <1>3, <1>k, <2>1 DEF Pass, TypeOK, UsedIsExact
<1> QED BY <1>1, <1>2, <1>3

\* free_port takes back at most the slot of the port.
LEMMA FreeCounts ==
    ASSUME CountInv, NEW p \in Ports, FreePort(p)
    PROVE  track' \in [Slots -> Rest .. 1] /\ used' \in 0 .. Length /\ UsedIsExact'
<1> USE LengthPositive DEF CountInv
<1> DEFINE i == SlotOf(p)
<1>1. CASE p >= First /\ track[i] > 0
  <2>1. i \in Slots BY <1>1, SlotOfPort
  <2> HIDE DEF i
  <2>2. track[i] = 1 BY <1>1, <2>1 DEF TypeOK, Rest
  <2>3. track' = [track EXCEPT ![i] = Rest] /\ used' = used - 1
    BY <1>1 DEF FreePort, i
  <2>4. HandedOut' = HandedOut \ {i} /\ i \in HandedOut
    BY <2>1, <2>2, <2>3 DEF HandedOut, TypeOK, Rest
  <2>5. IsFiniteSet(HandedOut) BY SlotsFinite, FS_Subset DEF HandedOut
  <2>6. Cardinality(HandedOut') = Cardinality(HandedOut) - 1
    BY <2>4, <2>5, FS_RemoveElement
  <2>7. Cardinality(HandedOut') \in Nat
    BY <2>4, <2>5, FS_RemoveElement, FS_CardinalityType
  <2>8. track' \in [Slots -> Rest .. 1] BY <2>1, <2>3 DEF TypeOK, Rest
  <2> QED BY <2>3, <2>6, <2>7, <2>8 DEF UsedIsExact, TypeOK
<1>2. CASE ~(p >= First /\ track[i] > 0)
  BY <1>2 DEF FreePort, TypeOK, UsedIsExact, HandedOut
<1> QED BY <1>1, <1>2

LEMMA CountInvariant == Spec => []CountInv
<1> USE LengthPositive
<1>1. Init => CountInv
  <2> SUFFICES ASSUME Init PROVE CountInv OBVIOUS
  <2>1. HandedOut = {} BY DEF Init, HandedOut
  <2> QED BY <2>1, FS_EmptySet DEF Init, CountInv, TypeOK, UsedIsExact, Rest
<1>2. CountInv /\ [Next]_vars => CountInv'
  <2> SUFFICES ASSUME CountInv, [Next]_vars PROVE CountInv' OBVIOUS
  <2>1. ASSUME NEW c \in Clients, Request(c) \/ Full(c) PROVE CountInv'
    BY <2>1 DEF Request, Full, CountInv, TypeOK, UsedIsExact, HandedOut
  <2>2. ASSUME NEW c \in Clients, Turn(c) PROVE CountInv'
    BY <2>2, TurnCounts DEF Turn
  <2>3. ASSUME NEW c \in Clients, NEW p \in Ports, Release(c, p) PROVE CountInv'
    <3>1. mine' \in [Clients -> SUBSET Ports] /\ past' \in [Clients -> SUBSET Ports]
      <4>1. mine' \in [Clients -> SUBSET Ports] BY <2>3 DEF Release, CountInv, TypeOK
      <4>2. past' = [past EXCEPT ![c] = @ \cup {p}] BY <2>3 DEF Release
      <4> QED BY <4>1, <4>2 DEF CountInv, TypeOK
    <3>2. robbed' \in [Clients -> SUBSET Ports] BY <2>3 DEF Release, Robbing, CountInv, TypeOK
    <3> QED BY <2>3, <3>1, <3>2, FreeCounts DEF Release, CountInv, TypeOK
  <2>4. ASSUME NEW c \in Clients, NEW p \in Ports, ReleaseAgain(c, p) PROVE CountInv'
    <3>1. past' \in [Clients -> SUBSET Ports]
      BY <2>4 DEF ReleaseAgain, CountInv, TypeOK
    <3>2. robbed' \in [Clients -> SUBSET Ports] BY <2>4 DEF ReleaseAgain, Robbing, CountInv, TypeOK
    <3> QED BY <2>4, <3>1, <3>2, FreeCounts DEF ReleaseAgain, CountInv, TypeOK
  <2>5. ASSUME NEW r \in Robust, NEW p \in Ports, Bind(r, p) \/ Unbind(r, p) PROVE CountInv'
    <3>1. r \in {"udp", "tcp"} BY FlagsAssumption
    <3>2. bound' \in [{"udp", "tcp"} -> SUBSET Ports]
      BY <2>5, <3>1 DEF Bind, Unbind, CountInv, TypeOK
    <3> QED BY <2>5, <3>2 DEF Bind, Unbind, CountInv, TypeOK, UsedIsExact, HandedOut
  <2>6. CASE UNCHANGED vars
    BY <2>6 DEF vars, CountInv, TypeOK, UsedIsExact, HandedOut
  <2> QED BY <2>1, <2>2, <2>3, <2>4, <2>5, <2>6 DEF Next
<1> QED BY <1>1, <1>2, PTL DEF Spec

\* The values of track, the count and the ports of clients keep their types.
THEOREM TypeCorrect == Spec => []TypeOK
BY CountInvariant, PTL DEF CountInv

\* track_used is the number of slots marked as handed out, whatever
\* clients release twice: it ends the loop of request_port exactly when no
\* port is left.
THEOREM UsedExact == Spec => []UsedIsExact
BY CountInvariant, PTL DEF CountInv

\* Asked for even ports, request_port hands out even ports of the range only,
\* whatever the bounds are rounded from.
THEOREM PortsInRange ==
    ASSUME Flags = {"even"} PROVE Spec => []InRange
<1>1. "odd" \notin Flags OBVIOUS
<1>2. Flags # {"odd"} BY <1>1
<1>3. TypeOK => InRange
  <2> SUFFICES ASSUME TypeOK, NEW c \in Clients, NEW p \in mine[c]
               PROVE  Start <= p /\ p <= End /\ p % 2 = 0
    BY <1>2 DEF InRange
  <2>1. PICK i \in Slots : p = PortOf(i) BY DEF TypeOK, Ports
  <2> QED BY <2>1, EvenPorts
<1> QED BY <1>3, TypeCorrect, PTL

-----------------------------------------------------------------------------
(* Ports: one client for each *)

GivenInv == TypeOK /\ GivenOnce /\ TrackIsExact

\* What free_port gives back is nobody's afterwards, be it released by the
\* client it is, or again by one that had it before.
LEMMA FreeGiven ==
    ASSUME Flags = {"even"}, GivenInv, NEW p \in Ports, FreePort(p), TypeOK',
           \A d \in Clients : p \notin Owned(d)' /\ Owned(d)' = Owned(d) \ {p}
    PROVE  GivenInv'
<1>e. /\ \A i \in Slots : First <= PortOf(i)
      /\ \A i \in Slots : SlotOf(PortOf(i)) = i
  BY EvenPorts
<1>1. PICK i \in Slots : p = PortOf(i) BY DEF Ports
<1>2. SlotOf(p) = i /\ p >= First
  <2>1. SlotOf(p) = i BY <1>1, <1>e
  <2>2. First <= PortOf(i) BY <1>e
  <2>3. p >= First BY <2>2, <1>1
  <2> QED BY <2>1, <2>3
<1>3. \A k \in Slots : track'[k] = 1 <=> k # i /\ track[k] = 1
  <2>1. CASE track[i] > 0
    BY <1>2, <2>1 DEF FreePort, GivenInv, TypeOK, Rest
  <2>2. CASE ~(track[i] > 0)
    BY <1>2, <2>2 DEF FreePort, GivenInv, TypeOK, Rest
  <2> QED BY <2>1, <2>2
<1>4. \A k \in Slots : k # i => PortOf(k) # p BY <1>1, <1>e
<1>5. GivenOnce' BY DEF GivenInv, GivenOnce
<1>6. TrackIsExact'
  <2>1. PICK own : own = [d \in Clients |-> Owned(d)] OBVIOUS
  <2>2. PICK new : new = [d \in Clients |-> Owned(d)'] OBVIOUS
  <2>3. \A d \in Clients : p \notin new[d] /\ new[d] = own[d] \ {p} BY <2>1, <2>2
  <2>4. \A k \in Slots : track[k] = 1 <=> \E d \in Clients : PortOf(k) \in own[d]
    BY <2>1 DEF GivenInv, TrackIsExact
  <2>5. \A k \in Slots : track'[k] = 1 <=> \E d \in Clients : PortOf(k) \in new[d]
    BY <1>1, <1>3, <1>4, <2>3, <2>4
  <2> QED BY <2>2, <2>5 DEF TrackIsExact
<1> QED BY <1>5, <1>6 DEF GivenInv

LEMMA GivenInvariant ==
    ASSUME Flags = {"even"}
    PROVE  Spec => []GivenInv
<1>e. \A i \in Slots : SlotOf(PortOf(i)) = i
  BY EvenPorts
<1>1. Init => GivenInv
  <2> SUFFICES ASSUME Init PROVE GivenInv OBVIOUS
  <2>1. TypeOK BY LengthPositive DEF Init, TypeOK, Rest
  <2> QED BY <2>1 DEF Init, GivenInv, GivenOnce, TrackIsExact, Owned
<1>2. TypeOK' /\ GivenInv /\ [Next]_vars => GivenInv'
  <2> SUFFICES ASSUME TypeOK', GivenInv, [Next]_vars PROVE GivenInv' OBVIOUS
  <2> USE DEF GivenInv
  <2>1. ASSUME NEW c \in Clients, Request(c) \/ Full(c) PROVE GivenInv'
    BY <2>1 DEF Request, Full, TypeOK, GivenOnce, TrackIsExact, Owned
  <2>2. ASSUME NEW c \in Clients, NEW i \in Slots, Grant(c, i) PROVE GivenInv'
    <3>1. PICK j \in Slots :
            /\ StopsAt(i, j)
            /\ track' = [Cooled(i) EXCEPT ![j] = 1]
            /\ mine' = [mine EXCEPT ![c] = @ \cup {PortOf(j)}]
            /\ robbed' = [robbed EXCEPT ![c] = @ \ {PortOf(j)}]
      BY <2>2 DEF Grant
    <3>2. \A d \in Clients : PortOf(j) \notin Owned(d)
      BY <3>1 DEF StopsAt, TrackIsExact
    <3>3. \A k \in Slots : Cooled(i)[k] = 1 <=> track[k] = 1
      BY CooledKeeps
    <3>4. \A d \in Clients : Owned(d)' = IF d = c THEN Owned(c) \cup {PortOf(j)} ELSE Owned(d)
      BY <3>1 DEF TypeOK, Owned
    <3>5. GivenOnce' BY <3>2, <3>4 DEF GivenOnce
    <3>6. \A k \in Slots : track'[k] = 1 <=> k = j \/ track[k] = 1
      BY <3>1, <3>3 DEF Cooled
    <3>7. \A k \in Slots : PortOf(k) = PortOf(j) => k = j
      BY <1>e
    <3>8. TrackIsExact' BY <3>4, <3>6, <3>7 DEF TrackIsExact
    <3> QED BY <2>2, <3>5, <3>8 DEF Grant
  <2>3. ASSUME NEW c \in Clients, NEW i \in Slots, Refuse(c, i) \/ Pass(c, i) PROVE GivenInv'
    <3>1. \A k \in Slots : Cooled(i)[k] = 1 <=> track[k] = 1
      BY CooledKeeps
    <3>2. \A k \in Slots : track'[k] = 1 <=> track[k] = 1
      <4>1. CASE Pass(c, i) BY <3>1, <4>1 DEF Pass
      <4>2. CASE Refuse(c, i)
        <5>1. PICK j \in Slots : track[j] = 0 /\ track' = [Cooled(i) EXCEPT ![j] = Rest]
          BY <4>2 DEF Refuse, StopsAt
        <5> QED BY <3>1, <5>1 DEF Cooled, Rest
      <4> QED BY <2>3, <4>1, <4>2
    <3> QED BY <2>3, <3>2 DEF Refuse, Pass, GivenOnce, TrackIsExact, Owned
  <2>4. ASSUME NEW c \in Clients, NEW p \in Ports, Release(c, p) PROVE GivenInv'
    <3>1. \A d \in Clients : mine'[d] = IF d = c THEN mine[c] \ {p} ELSE mine[d]
      BY <2>4 DEF Release, TypeOK
    <3>2. \A d \in Clients :
            robbed'[d] = IF d = c THEN robbed[c] \ {p}
                         ELSE IF p \in mine[d] THEN robbed[d] \cup {p} ELSE robbed[d]
      BY <2>4 DEF Release, Robbing, TypeOK
    <3>3. \A d \in Clients : p \notin Owned(d)' /\ Owned(d)' = Owned(d) \ {p}
      BY <3>1, <3>2 DEF Owned
    <3> QED BY <2>4, <3>3, FreeGiven DEF Release
  <2>5. ASSUME NEW c \in Clients, NEW p \in Ports, ReleaseAgain(c, p) PROVE GivenInv'
    <3>1. \A d \in Clients :
            robbed'[d] = IF p \in mine[d] THEN robbed[d] \cup {p} ELSE robbed[d]
      BY <2>5 DEF ReleaseAgain, Robbing, TypeOK
    <3>2. \A d \in Clients : p \notin Owned(d)' /\ Owned(d)' = Owned(d) \ {p}
      BY <2>5, <3>1 DEF ReleaseAgain, Owned
    <3> QED BY <2>5, <3>2, FreeGiven DEF ReleaseAgain
  <2>6. ASSUME NEW r \in Robust, NEW p \in Ports, Bind(r, p) \/ Unbind(r, p) PROVE GivenInv'
    BY <2>6 DEF Bind, Unbind, GivenOnce, TrackIsExact, Owned
  <2>7. CASE UNCHANGED vars
    BY <2>7 DEF vars, GivenOnce, TrackIsExact, Owned
  <2> QED BY <2>1, <2>2, <2>3, <2>4, <2>5, <2>6, <2>7 DEF Next, Turn
<1> QED BY <1>1, <1>2, TypeCorrect, PTL DEF Spec

\* For any range of even ports and any number of clients, which release what
\* they have and release it again at any time, request_port never gives a
\* client a port that is another one's: only a stale release does, by taking
\* it from that other one first.
THEOREM NeverGivenTwice ==
    ASSUME Flags = {"even"}
    PROVE  Spec => []GivenOnce
BY GivenInvariant, PTL DEF GivenInv

\* And no port is lost by a release or a stale one, or free while it is a
\* client's.
THEOREM NoPortLost ==
    ASSUME Flags = {"even"}
    PROVE  Spec => []TrackIsExact
BY GivenInvariant, PTL DEF GivenInv

-----------------------------------------------------------------------------
(* Media bugs: the inductive invariant *)

\* A list from hd along nx that has the bugs L in falling order.
Falls(L, hd, nx) ==
    /\ hd \in L \cup {NULL}
    /\ \A b \in L : b <= hd
    /\ \A b \in L : /\ nx[b] \in L \cup {NULL} /\ nx[b] < b
                    /\ \A c \in L : c < b => c <= nx[b]

\* A bug is added at the head of the list with a number above all others, and
\* removals keep the order: the list of the bugs L has them in falling order.
IsList(L) == L \subseteq Attached /\ Falls(L, head, next)

\* Where a thread can be.
BugUser ==
    {Idle} \cup [pc : {"add"}, kind : Kinds] \cup [pc : {"tap"}, tap : BOOLEAN]
    \cup [pc : {"remove", "close", "popped"}, bug : Attached]
    \cup [pc : {"prune"}, last : Attached \cup {NULL}]
    \cup [pc : {"prune_close"}, last : Attached \cup {NULL}, bug : Attached]

\* Types, those of the places of threads included.
BugTyped ==
    /\ \E n \in 0 .. MaxBugs : kind \in [1 .. n -> Kinds]
    /\ head \in Attached \cup {NULL}
    /\ next \in [Bugs -> Attached \cup {NULL}]
    /\ thread_id \in [Bugs -> SUBSET Threads]
    /\ locked \cup pruned \cup ready \subseteq Attached
    /\ closed \in [Bugs -> 0 .. 2] /\ tapOnly \in BOOLEAN
    /\ user \in [Threads -> BugUser]

\* t has taken b out of the list and is about to close it.
Holding(t, b) == user[t].pc \in {"close", "prune_close"} /\ user[t].bug = b

\* A bug is in the list, in the hands of one thread, or closed.
HandInv ==
    /\ \A b \in Bugs : closed[b] <= 1
    /\ \A b \in Bugs : closed[b] > 0 => b \in Attached \ Listed
    /\ \A b \in Bugs, t \in Threads : Holding(t, b) => b \notin Listed /\ closed[b] = 0
    /\ \A b \in Bugs, t, u \in Threads : Holding(t, b) /\ Holding(u, b) => t = u

\* The histories: only a bug that was popped is locked, and what a thread has
\* unlinked, and its thread lock let it, the lock lets it close.
HistInv ==
    /\ locked \subseteq taken /\ taken \cup spared \subseteq Attached
    /\ crossed \subseteq Kinds /\ overtaken \subseteq Threads /\ stale \in BOOLEAN
    /\ \A t \in Threads : user[t].pc = "close" => Mine(t, user[t].bug)

\* The inductive invariant, until prune is misled.
WholeInv == BugTyped /\ IsList(Listed) /\ HandInv /\ HistInv

\* A bug that left the list has a reason to, other than that prune was misled.
NoDrop ==
    \A b \in Attached : \/ b \in Listed \cup taken \cup spared \/ closed[b] > 0
                        \/ \E t \in Threads : Holding(t, b)

\* What a thread that adds bugs has seen stays true while it adds them, unless
\* another one has added one meanwhile.
SeenInv ==
    /\ \A b, c \in Listed : kind[b] = kind[c] /\ kind[b] \in OneOnly \ crossed => b = c
    /\ \A t \in Threads : user[t].pc = "add" /\ user[t].kind \in OneOnly \ crossed =>
         \A b \in Listed : kind[b] # user[t].kind
    /\ tapOnly /\ ~stale /\ (\A t \in Threads : user[t].pc # "tap") =>
         \A b \in Listed \cap ready : kind[b] \in Native
    /\ \A t \in Threads : user[t].pc = "tap" /\ user[t].tap /\ t \notin overtaken =>
         \A b \in Listed \cap ready : kind[b] \in Native

-----------------------------------------------------------------------------
(* Media bugs: the loops over the list *)

\* A set of numbers that is not empty has a smallest one.
LEMMA Smallest ==
    ASSUME NEW S, S \subseteq Nat, S # {}
    PROVE  \E x \in S : \A y \in S : x <= y
<1>1. PICK x \in S : \A y \in S : ~(<<y, x>> \in OpToRel(<, Nat))
  BY NatLessThanWellFounded, WFMin, Zenon
<1>2. \A y \in S : y < x => <<y, x>> \in OpToRel(<, Nat) BY Zenon DEF OpToRel
<1>3. \A y \in S : ~(y < x) BY <1>1, <1>2, Zenon
<1>4. \A y \in S : x <= y BY <1>3
<1> QED BY <1>4

\* f follows nx from b, on from the bugs in S, for n steps.
Follows(f, n, S, b, nx) ==
    \A k \in 0 .. n : f[k] = IF k = 0 THEN b ELSE IF f[k - 1] \in S THEN nx[f[k - 1]] ELSE f[k - 1]

\* f is the function of n + 1 values that does.
IsLoop(f, n, S, b, nx) ==
    f = [k \in 0 .. n |-> IF k = 0 THEN b ELSE IF f[k - 1] \in S THEN nx[f[k - 1]] ELSE f[k - 1]]

\* Such a loop exists for any number of steps.
LEMMA LoopExists ==
    ASSUME NEW N \in Nat, NEW S, NEW b, NEW nx
    PROVE  \E f : IsLoop(f, N, S, b, nx)
<1> DEFINE Has(n) == \E f : Follows(f, n, S, b, nx)
           Bad == {n \in Nat : ~Has(n)}
<1>1. Has(0)
  <2>1. Follows([k \in {0} |-> b], 0, S, b, nx) BY DEF Follows
  <2> QED BY <2>1
<1>2. ASSUME NEW n \in Nat, Has(n) PROVE Has(n + 1)
  <2>1. PICK f : Follows(f, n, S, b, nx) BY <1>2
  <2> DEFINE g == [k \in 0 .. n + 1 |-> IF k <= n THEN f[k]
                                        ELSE IF f[n] \in S THEN nx[f[n]] ELSE f[n]]
  <2>2. ASSUME NEW k \in 0 .. n + 1
        PROVE  g[k] = IF k = 0 THEN b ELSE IF g[k - 1] \in S THEN nx[g[k - 1]] ELSE g[k - 1]
    <3>1. CASE k <= n
      <4>1. g[k] = f[k] /\ (k # 0 => g[k - 1] = f[k - 1]) BY <3>1
      <4> QED BY <2>1, <3>1, <4>1 DEF Follows
    <3>2. CASE k = n + 1
      <4>1. g[k] = (IF f[n] \in S THEN nx[f[n]] ELSE f[n]) /\ g[n] = f[n] BY <3>2
      <4> QED BY <3>2, <4>1
    <3> QED BY <3>1, <3>2
  <2>3. Follows(g, n + 1, S, b, nx) BY <2>2 DEF Follows
  <2> QED BY <2>3
<1>3. Bad = {}
  <2> SUFFICES ASSUME Bad # {} PROVE FALSE OBVIOUS
  <2>1. PICK n \in Bad : \A m \in Bad : n <= m BY Smallest
  <2>2. n # 0 /\ n \in Nat BY <1>1
  <2>3. n - 1 \in Nat /\ n - 1 \notin Bad BY <2>1, <2>2
  <2>4. Has(n - 1) BY <2>3
  <2>5. Has((n - 1) + 1) BY <1>2, <2>3, <2>4
  <2> QED BY <2>2, <2>5
<1>4. PICK f : Follows(f, N, S, b, nx) BY <1>3
<1> DEFINE g == [k \in 0 .. N |-> f[k]]
<1>5. \A k \in 0 .. N : g[k] = IF k = 0 THEN b ELSE IF g[k - 1] \in S THEN nx[g[k - 1]] ELSE g[k - 1]
  BY <1>4 DEF Follows
<1>6. g = [k \in 0 .. N |-> IF k = 0 THEN b ELSE IF g[k - 1] \in S THEN nx[g[k - 1]] ELSE g[k - 1]]
  BY <1>5
<1>7. IsLoop(g, N, S, b, nx) BY <1>6 DEF IsLoop
<1> QED BY <1>7

\* The loops of the module are such, before a step and after it.
LEMMA StepsAre ==
    ASSUME NEW S, NEW b
    PROVE  IsLoop(Steps(S, b), MaxBugs, S, b, next)
<1> DEFINE at == Steps(S, b)
<1>1. MaxBugs \in Nat BY BugAssumption
<1>2. \E f : IsLoop(f, MaxBugs, S, b, next) BY <1>1, LoopExists
<1>3. at = CHOOSE f : IsLoop(f, MaxBugs, S, b, next) BY DEF Steps, IsLoop
<1> HIDE DEF at
<1>4. IsLoop(at, MaxBugs, S, b, next) BY <1>2, <1>3
<1> QED BY <1>4 DEF at

\* Induction up to N.
LEMMA UpTo ==
    ASSUME NEW N \in Nat, NEW G, 0 \in G, \A n \in 0 .. N : n < N /\ n \in G => n + 1 \in G
    PROVE  \A n \in 0 .. N : n \in G
<1> DEFINE Bad == {n \in 0 .. N : n \notin G}
<1> SUFFICES ASSUME Bad # {} PROVE FALSE OBVIOUS
<1>1. Bad \subseteq Nat OBVIOUS
<1>2. PICK n \in Bad : \A m \in Bad : n <= m BY <1>1, Smallest
<1>3. n # 0 /\ n - 1 \in 0 .. N /\ n - 1 < N /\ n - 1 \notin Bad BY <1>2
<1>4. n - 1 \in G BY <1>3
<1>5. (n - 1) + 1 \in G BY <1>3, <1>4
<1> QED BY <1>3, <1>5

\* f is a loop over all the list.
IsWalk(f, N, hd, nx) == IsLoop(f, N, 1 .. N, hd, nx)

\* What the loop f over it does.
FallsAlong(f, N, L, hd, nx) ==
    /\ f[0] = hd /\ f[N] = NULL
    /\ \A n \in 0 .. N : f[n] \in L \cup {NULL}
    /\ \A n \in 1 .. N : f[n - 1] \in L => f[n] = nx[f[n - 1]] /\ f[n] < f[n - 1]
    /\ \A n \in 1 .. N : f[n - 1] = NULL => f[n] = NULL
    /\ \A b \in L : \E n \in 0 .. N : f[n] = b

\* A loop over such a list falls at every step, ends and is at each bug once.
LEMMA LoopFalls ==
    ASSUME NEW N \in Nat, NEW L, L \subseteq 1 .. N, NEW hd, NEW nx, Falls(L, hd, nx),
           NEW f, IsWalk(f, N, hd, nx)
    PROVE  FallsAlong(f, N, L, hd, nx)
<1>0. /\ \A x \in L : x \in 1 .. N /\ x \in Nat /\ x # NULL
      /\ \A x \in L \cup {NULL} : x \in 0 .. N /\ x \in Nat
  BY DEF NULL
<1>1. f[0] = hd BY DEF IsWalk, IsLoop
<1>2. \A n \in 1 .. N : f[n] = IF f[n - 1] \in 1 .. N THEN nx[f[n - 1]] ELSE f[n - 1]
  BY DEF IsWalk, IsLoop
<1> DEFINE G == {n \in 0 .. N : f[n] \in L \cup {NULL} /\ f[n] <= N - n}
<1>3. 0 \in G BY <1>1 DEF Falls, NULL
<1>4. ASSUME NEW n \in 0 .. N, n < N, n \in G PROVE n + 1 \in G
  <2>1. n + 1 \in 1 .. N /\ (n + 1) - 1 = n BY <1>4
  <2>2. f[n + 1] = IF f[n] \in 1 .. N THEN nx[f[n]] ELSE f[n] BY <1>2, <2>1
  <2>3. CASE f[n] \in L
    <3>1. f[n + 1] = nx[f[n]] BY <2>2, <2>3
    <3>2. nx[f[n]] \in L \cup {NULL} /\ nx[f[n]] < f[n] BY <2>3 DEF Falls
    <3>3. f[n] \in Nat /\ nx[f[n]] \in Nat /\ f[n] <= N - n BY <1>0, <1>4, <2>3, <3>2
    <3> QED BY <2>1, <3>1, <3>2, <3>3
  <2>4. CASE f[n] = NULL
    <3>1. f[n + 1] = NULL BY <2>2, <2>4 DEF NULL
    <3> QED BY <2>1, <3>1 DEF NULL
  <2> QED BY <1>4, <2>3, <2>4
<1>5. \A n \in 0 .. N : n \in G BY <1>3, <1>4, UpTo
<1>6. \A n \in 0 .. N : f[n] \in L \cup {NULL} BY <1>5
<1>7. f[N] = NULL
  <2>1. N \in G BY <1>5
  <2>2. f[N] \in L \cup {NULL} /\ f[N] <= N - N BY <2>1
  <2>3. f[N] \in Nat BY <1>0, <2>2, Zenon
  <2>4. f[N] = 0 BY <2>2, <2>3
  <2> QED BY <2>4 DEF NULL
<1>8. \A n \in 1 .. N : f[n - 1] \in L => f[n] = nx[f[n - 1]] /\ f[n] < f[n - 1]
  BY <1>2 DEF Falls
<1>9. \A n \in 1 .. N : f[n - 1] = NULL => f[n] = NULL BY <1>2 DEF NULL
<1>10. ASSUME NEW b \in L PROVE \E n \in 0 .. N : f[n] = b
  <2> SUFFICES ASSUME \A n \in 0 .. N : f[n] # b PROVE FALSE OBVIOUS
  <2> DEFINE H == {n \in 0 .. N : f[n] \in L /\ b < f[n]}
  <2>1. 0 \in H
    <3>1. f[0] \in L \cup {NULL} /\ b <= f[0] /\ f[0] # b /\ b \in 1 .. N BY <1>1, <1>6 DEF Falls
    <3>2. f[0] \in Nat BY <1>0, <3>1
    <3>3. b < f[0] BY <3>1, <3>2
    <3> QED BY <3>1, <3>3 DEF NULL
  <2>2. ASSUME NEW n \in 0 .. N, n < N, n \in H PROVE n + 1 \in H
    <3>1. n + 1 \in 1 .. N /\ (n + 1) - 1 = n /\ n + 1 \in 0 .. N BY <2>2
    <3>2. f[n + 1] = nx[f[n]] BY <1>8, <2>2, <3>1
    <3>3. b <= nx[f[n]] BY <2>2 DEF Falls
    <3>4. f[n + 1] # b /\ f[n + 1] \in L \cup {NULL} BY <1>6, <3>1
    <3>5. b \in 1 .. N /\ f[n + 1] \in 0 .. N BY <1>0, <3>4
    <3>6. b < f[n + 1] BY <3>2, <3>3, <3>4, <3>5
    <3> QED BY <3>1, <3>4, <3>5, <3>6 DEF NULL
  <2>3. \A n \in 0 .. N : n \in H BY <2>1, <2>2, UpTo
  <2>4. N \in H BY <2>3
  <2> QED BY <1>7, <2>4 DEF NULL
<1> QED BY <1>1, <1>6, <1>7, <1>8, <1>9, <1>10 DEF FallsAlong

\* Between two steps of the loop it does not rise.
LEMMA LoopOrder ==
    ASSUME NEW N \in Nat, NEW L, L \subseteq 1 .. N, NEW hd, NEW nx, Falls(L, hd, nx),
           NEW f, IsWalk(f, N, hd, nx), NEW m \in 0 .. N
    PROVE  \A n \in 0 .. N : m <= n => f[n] <= f[m]
<1>0. \A x \in L \cup {NULL} : x \in Nat BY DEF NULL
<1>1. /\ \A n \in 0 .. N : f[n] \in L \cup {NULL}
      /\ \A n \in 1 .. N : f[n - 1] \in L => f[n] < f[n - 1]
      /\ \A n \in 1 .. N : f[n - 1] = NULL => f[n] = NULL
  <2>1. FallsAlong(f, N, L, hd, nx) BY LoopFalls
  <2> QED BY <2>1 DEF FallsAlong
<1>2. \A n \in 0 .. N : f[n] \in Nat BY <1>0, <1>1
<1> DEFINE G == {n \in 0 .. N : m <= n => f[n] <= f[m]}
<1>3. 0 \in G BY <1>2
<1>4. ASSUME NEW n \in 0 .. N, n < N, n \in G PROVE n + 1 \in G
  <2>1. n + 1 \in 1 .. N /\ (n + 1) - 1 = n /\ n + 1 \in 0 .. N BY <1>4
  <2>2. f[n + 1] <= f[n]
    <3>1. CASE f[n] \in L BY <1>1, <1>2, <2>1, <3>1
    <3>2. CASE f[n] = NULL
      <4>1. f[n + 1] = NULL BY <1>1, <2>1, <3>2
      <4> QED BY <3>2, <4>1 DEF NULL
    <3> QED BY <1>1, <3>1, <3>2
  <2>3. f[n + 1] \in Nat /\ f[n] \in Nat /\ f[m] \in Nat BY <1>2, <2>1
  <2>4. m <= n + 1 => f[n + 1] <= f[m]
    <3>1. CASE m <= n BY <1>4, <2>2, <2>3, <3>1
    <3>2. CASE m = n + 1 BY <2>3, <3>2
    <3> QED BY <3>1, <3>2
  <2> QED BY <2>1, <2>4
<1> QED BY <1>3, <1>4, UpTo

\* A bug put in front of the list.
LEMMA InsertFalls ==
    ASSUME NEW D, NEW L, L \subseteq D, D \subseteq Nat, NEW hd, NEW nx, Falls(L, hd, nx),
           NEW new \in D, new # 0, \A b \in L : b < new, NEW ran, nx \in [D -> ran]
    PROVE  Falls(L \cup {new}, new, [nx EXCEPT ![new] = hd])
<1> DEFINE nn == [nx EXCEPT ![new] = hd]
<1>1. nn[new] = hd /\ \A b \in L : nn[b] = nx[b] /\ b \in Nat BY DEF NULL
<1>2. hd \in L \cup {NULL} /\ hd \in Nat /\ hd < new BY DEF Falls, NULL
<1> HIDE DEF nn
<1>3. \A b \in L : b <= new BY <1>1
<1>4. \A b \in L : nn[b] \in L \cup {NULL} /\ nn[b] < b /\ \A c \in L : c < b => c <= nn[b]
  BY <1>1 DEF Falls
<1>5. \A c \in L : c <= hd BY DEF Falls
<1>6. \A b \in L : ~(new < b) BY <1>1
<1>7. Falls(L \cup {new}, new, nn) BY <1>1, <1>2, <1>3, <1>4, <1>5, <1>6 DEF Falls
<1> QED BY <1>7 DEF nn

\* A bug taken out of the list, with the one before it.
LEMMA UnlinkFalls ==
    ASSUME NEW D, NEW L, L \subseteq D, D \subseteq Nat \ {0}, NEW hd, NEW nx, Falls(L, hd, nx),
           NEW ran, nx \in [D -> ran], NEW b \in L, NEW last,
           \/ last = NULL /\ hd = b
           \/ last \in L /\ nx[last] = b
    PROVE  Falls(L \ {b}, IF last = NULL THEN nx[b] ELSE hd,
                 IF last = NULL THEN nx ELSE [nx EXCEPT ![last] = nx[b]])
<1>0. \A x \in L : x \in Nat /\ x # NULL BY DEF NULL
<1>1. CASE last = NULL
  <2>1. hd = b BY <1>0, <1>1
  <2>2. Falls(L \ {b}, nx[b], nx)
    <3>1. nx[b] \in (L \ {b}) \cup {NULL} BY <1>0 DEF Falls, NULL
    <3>2. \A c \in L \ {b} : c <= nx[b] BY <1>0, <2>1 DEF Falls
    <3>3. \A c \in L \ {b} : nx[c] # b BY <1>0, <2>1 DEF Falls
    <3> QED BY <3>1, <3>2, <3>3 DEF Falls
  <2> QED BY <1>1, <2>2
<1>2. CASE last # NULL
  <2>1. last \in L /\ nx[last] = b /\ last # b BY <1>0, <1>2 DEF Falls
  <2> DEFINE nn == [nx EXCEPT ![last] = nx[b]]
  <2>2. nn[last] = nx[b] /\ \A c \in L : c # last => nn[c] = nx[c] BY <2>1
  <2> HIDE DEF nn
  <2>3. Falls(L \ {b}, hd, nn)
    <3>1. hd # b BY <1>0, <2>1 DEF Falls
    <3>2. \A c \in L : c # last => nx[c] # b BY <1>0, <2>1 DEF Falls
    <3>3. nx[b] < b /\ nx[b] # b /\ b < last /\ nx[b] < last /\ nx[b] \in Nat
      <4>1. nx[b] \in L \cup {NULL} /\ nx[b] < b /\ nx[last] < last BY <2>1 DEF Falls
      <4>2. b \in Nat /\ last \in Nat BY <1>0, <2>1
      <4>3. NULL \in Nat BY DEF NULL
      <4>4. nx[b] \in Nat BY <1>0, <4>1, <4>3, Zenon
      <4> QED BY <2>1, <4>1, <4>2, <4>4
    <3>4. \A c \in L \ {b} : c < last => c <= nx[b] BY <1>0, <2>1 DEF Falls
    <3>5. \A c \in L \ {b} : nn[c] \in (L \ {b}) \cup {NULL} /\ nn[c] < c
      BY <2>1, <2>2, <3>2, <3>3 DEF Falls
    <3>6. \A c, d \in L \ {b} : d < c => d <= nn[c] BY <2>1, <2>2, <3>4 DEF Falls
    <3>7. hd \in (L \ {b}) \cup {NULL} /\ \A c \in L \ {b} : c <= hd BY <3>1 DEF Falls
    <3> QED BY <3>5, <3>6, <3>7 DEF Falls
  <2> QED BY <1>2, <2>3 DEF nn
<1> QED BY <1>1, <1>2

\* A loop that goes on from the bugs in out stops at the first other one.
LEMMA LoopPasses ==
    ASSUME NEW N \in Nat, NEW L, L \subseteq 1 .. N, NEW hd, NEW nx, Falls(L, hd, nx),
           NEW out, out \subseteq L, NEW b \in L \cup {NULL},
           NEW f, IsLoop(f, N, out, b, nx)
    PROVE  /\ f[N] \in (L \ out) \cup {NULL} /\ f[N] <= b
           /\ \A c \in L \ out : c <= b => c <= f[N]
<1>0. /\ \A x \in L : x \in 1 .. N /\ x \in Nat /\ x # NULL
      /\ \A x \in L \cup {NULL} : x \in 0 .. N /\ x \in Nat
  BY DEF NULL
<1>1. f[0] = b BY DEF IsLoop
<1>2. \A n \in 1 .. N : f[n] = IF f[n - 1] \in out THEN nx[f[n - 1]] ELSE f[n - 1]
  BY DEF IsLoop
<1> DEFINE G == {n \in 0 .. N : /\ f[n] \in L \cup {NULL} /\ f[n] <= b
                                /\ f[n] \in out => f[n] <= N - n
                                /\ \A c \in L \ out : c <= b => c <= f[n]}
<1>3. 0 \in G
  <2>1. b \in 0 .. N BY <1>0
  <2> QED BY <1>1, <2>1
<1>4. ASSUME NEW n \in 0 .. N, n < N, n \in G PROVE n + 1 \in G
  <2>1. n + 1 \in 1 .. N /\ (n + 1) - 1 = n /\ n + 1 \in 0 .. N BY <1>4
  <2>2. f[n + 1] = IF f[n] \in out THEN nx[f[n]] ELSE f[n] BY <1>2, <2>1
  <2>3. CASE f[n] \in out
    <3>1. f[n + 1] = nx[f[n]] /\ f[n] \in L BY <2>2, <2>3
    <3>2. f[n + 1] \in L \cup {NULL} /\ f[n + 1] < f[n] BY <3>1 DEF Falls
    <3>3. f[n] \in Nat /\ f[n + 1] \in Nat /\ f[n] <= N - n /\ f[n] <= b /\ b \in Nat
      BY <1>0, <1>4, <2>3, <3>1, <3>2
    <3>4. f[n + 1] <= b /\ f[n + 1] <= N - (n + 1) BY <3>2, <3>3
    <3>5. ASSUME NEW c \in L \ out, c <= b PROVE c <= f[n + 1]
      <4>1. c <= f[n] /\ c # f[n] /\ c \in Nat BY <1>0, <1>4, <2>3, <3>5
      <4>2. c < f[n] BY <3>3, <4>1
      <4> QED BY <3>1, <4>2 DEF Falls
    <3> QED BY <2>1, <3>2, <3>4, <3>5
  <2>4. CASE f[n] \notin out
    <3>1. f[n + 1] = f[n] BY <2>2, <2>4
    <3> QED BY <1>4, <2>1, <2>4, <3>1
  <2> QED BY <2>3, <2>4
<1>5. \A n \in 0 .. N : n \in G BY <1>3, <1>4, UpTo
<1>6. N \in G BY <1>5
<1>7. f[N] \notin out
  <2> SUFFICES ASSUME f[N] \in out PROVE FALSE OBVIOUS
  <2>1. f[N] \in L /\ f[N] <= N - N BY <1>6
  <2>2. f[N] \in 1 .. N BY <1>0, <2>1
  <2> QED BY <2>1, <2>2
<1> QED BY <1>6, <1>7

\* The bugs in out taken out of the list, in one loop over it.
LEMMA PassFalls ==
    ASSUME NEW N \in Nat, NEW L, L \subseteq 1 .. N, NEW hd, NEW nx, Falls(L, hd, nx),
           NEW out, out \subseteq L, NEW h2, NEW n2,
           NEW g, IsLoop(g, N, out, hd, nx), h2 = g[N],
           \A b \in L \ out : \E f : IsLoop(f, N, out, nx[b], nx) /\ n2[b] = f[N]
    PROVE  Falls(L \ out, h2, n2)
<1>0. \A x \in L \cup {NULL} : x \in Nat BY DEF NULL
<1>1. h2 \in (L \ out) \cup {NULL} /\ \A c \in L \ out : c <= h2
  <2>1. hd \in L \cup {NULL} BY DEF Falls
  <2>2. /\ g[N] \in (L \ out) \cup {NULL}
        /\ \A c \in L \ out : c <= hd => c <= g[N]
    BY <2>1, LoopPasses
  <2> QED BY <2>2 DEF Falls
<1>2. ASSUME NEW b \in L \ out
      PROVE  /\ n2[b] \in (L \ out) \cup {NULL} /\ n2[b] < b
             /\ \A c \in L \ out : c < b => c <= n2[b]
  <2>1. PICK f : IsLoop(f, N, out, nx[b], nx) /\ n2[b] = f[N] OBVIOUS
  <2>2. nx[b] \in L \cup {NULL} /\ nx[b] < b BY DEF Falls
  <2>3. /\ f[N] \in (L \ out) \cup {NULL} /\ f[N] <= nx[b]
        /\ \A c \in L \ out : c <= nx[b] => c <= f[N]
    BY <2>1, <2>2, LoopPasses
  <2>4. f[N] \in Nat /\ nx[b] \in Nat /\ b \in Nat BY <1>0, <2>2, <2>3
  <2>5. f[N] < b BY <2>2, <2>3, <2>4
  <2>6. \A c \in L \ out : c < b => c <= nx[b] BY DEF Falls
  <2> QED BY <2>1, <2>3, <2>5, <2>6
<1> QED BY <1>1, <1>2 DEF Falls

\* The loop over the list is such a loop, before a step
LEMMA WalkIs == IsWalk(Walk, MaxBugs, head, next)
BY StepsAre DEF Walk, IsWalk, Bugs

\* and after it.
LEMMA WalkIsNext == IsWalk(Walk', MaxBugs, head', next')
<1>1. MaxBugs \in Nat BY BugAssumption
<1>2. \E f : IsLoop(f, MaxBugs, Bugs, head', next') BY <1>1, LoopExists
<1>3. Walk' = CHOOSE f : IsLoop(f, MaxBugs, Bugs, head', next') BY DEF Walk, Steps, IsLoop, Bugs
<1>4. IsLoop(Walk', MaxBugs, Bugs, head', next') BY <1>2, <1>3
<1> QED BY <1>4 DEF IsWalk, Bugs

\* What the loop is at before its end.
Visited(f, N) == {f[n] : n \in 0 .. N} \ {NULL}

\* What a loop over a falling list passes is that list.
LEMMA LoopVisits ==
    ASSUME NEW N \in Nat, NEW L, L \subseteq 1 .. N, NEW hd, NEW nx, NEW f,
           FallsAlong(f, N, L, hd, nx)
    PROVE  Visited(f, N) = L
<1>1. \A x \in L : x # NULL BY DEF NULL
<1>2. \A n \in 0 .. N : f[n] \in L \cup {NULL} BY DEF FallsAlong
<1>3. \A b \in L : \E n \in 0 .. N : f[n] = b BY DEF FallsAlong
<1> QED BY <1>1, <1>2, <1>3 DEF Visited

\* The bugs in the list are those of the falling list that its pointers make,
\* and the loops over it end: before a step
LEMMA ListedIs ==
    ASSUME NEW L, L \subseteq Bugs, Falls(L, head, next)
    PROVE  Listed = L /\ Ends /\ FallsAlong(Walk, MaxBugs, L, head, next)
<1>1. MaxBugs \in Nat /\ L \subseteq 1 .. MaxBugs BY BugAssumption DEF Bugs
<1>2. IsWalk(Walk, MaxBugs, head, next) BY WalkIs
<1>3. FallsAlong(Walk, MaxBugs, L, head, next) BY <1>1, <1>2, LoopFalls
<1>4. Visited(Walk, MaxBugs) = L BY <1>1, <1>3, LoopVisits
<1> QED BY <1>3, <1>4 DEF Listed, Ends, FallsAlong, Visited

\* and after it.
LEMMA ListedIsNext ==
    ASSUME NEW L, L \subseteq Bugs, Falls(L, head', next')
    PROVE  Listed' = L /\ Ends'
<1>1. MaxBugs \in Nat /\ L \subseteq 1 .. MaxBugs BY BugAssumption DEF Bugs
<1>2. IsWalk(Walk', MaxBugs, head', next') BY WalkIsNext
<1>3. FallsAlong(Walk', MaxBugs, L, head', next') BY <1>1, <1>2, LoopFalls
<1>4. Visited(Walk', MaxBugs) = L BY <1>1, <1>3, LoopVisits
<1> QED BY <1>3, <1>4 DEF Listed, Ends, FallsAlong, Visited, NULL

\* Where a loop that looks for the bugs in S stops, and what last is there.
LEMMA StopIs ==
    ASSUME NEW L, L \subseteq Bugs, Falls(L, head, next), NEW S, NEW before
    PROVE  LET b == Walk[Stop(S)]
               last == LastAt(Stop(S), before)
           IN  /\ b \in (L \cap S) \cup {NULL}
               /\ \A c \in L \cap S : c <= b
               /\ \/ Stop(S) = 0 /\ last = before /\ head = b
                  \/ last \in L \ S /\ next[last] = b /\ head \in L \ S
<1> DEFINE Ok(n) == /\ Walk[n] \in S \cup {NULL}
                    /\ \A m \in 0 .. n - 1 : Walk[m] \notin S \cup {NULL}
           Hits == {n \in 0 .. MaxBugs : Walk[n] \in S \cup {NULL}}
<1>0. MaxBugs \in Nat /\ L \subseteq 1 .. MaxBugs BY BugAssumption DEF Bugs
<1>1. FallsAlong(Walk, MaxBugs, L, head, next) /\ IsWalk(Walk, MaxBugs, head, next)
  BY ListedIs, WalkIs
<1>2. \E n \in 0 .. MaxBugs : Ok(n)
  <2>1. MaxBugs \in Hits BY <1>0, <1>1 DEF FallsAlong
  <2>2. Hits \subseteq Nat /\ Hits # {} BY <2>1
  <2>3. PICK n \in Hits : \A m \in Hits : n <= m BY <2>2, Smallest
  <2>4. \A m \in 0 .. n - 1 : m \notin Hits BY <2>3
  <2>5. \A m \in 0 .. n - 1 : m \in 0 .. MaxBugs BY <1>0, <2>3
  <2>6. Ok(n) /\ n \in 0 .. MaxBugs BY <2>3, <2>4, <2>5
  <2> QED BY <2>6
<1>3. PICK n : n = Stop(S) OBVIOUS
<1>4. n = CHOOSE k \in 0 .. MaxBugs : Ok(k) BY <1>3 DEF Stop
<1> HIDE DEF Ok
<1>5. n \in 0 .. MaxBugs /\ Ok(n) BY <1>2, <1>4
<1>6. PICK b : b = Walk[n] OBVIOUS
<1>7. PICK last : last = LastAt(n, before) OBVIOUS
<1>8. b \in S \cup {NULL} /\ \A m \in 0 .. n - 1 : Walk[m] \notin S \cup {NULL}
  BY <1>5, <1>6 DEF Ok
<1>9. b \in (L \cap S) \cup {NULL} BY <1>1, <1>5, <1>6, <1>8 DEF FallsAlong
<1>10. ASSUME NEW c \in L \cap S PROVE c <= b
  <2>1. PICK m \in 0 .. MaxBugs : Walk[m] = c BY <1>1 DEF FallsAlong
  <2>2. m \notin 0 .. n - 1 BY <1>8, <2>1
  <2>3. n <= m BY <1>5, <2>2
  <2>4. Walk[m] <= Walk[n] BY <1>0, <1>1, <1>5, <2>3, LoopOrder
  <2> QED BY <1>6, <2>1, <2>4
<1>11. \/ n = 0 /\ last = before /\ head = b
       \/ last \in L \ S /\ next[last] = b /\ head \in L \ S
  <2>1. CASE n = 0
    <3>1. Walk[0] = head BY <1>1 DEF FallsAlong
    <3>2. last = before BY <1>7, <2>1 DEF LastAt
    <3>3. head = b BY <1>6, <2>1, <3>1, Zenon
    <3> QED BY <2>1, <3>2, <3>3
  <2>2. CASE n # 0
    <3>1. n \in 1 .. MaxBugs /\ n - 1 \in 0 .. n - 1 /\ n - 1 \in 0 .. MaxBugs BY <1>0, <1>5, <2>2
    <3>2. last = Walk[n - 1] BY <1>7, <2>2 DEF LastAt
    <3>3. last \notin S \cup {NULL} BY <1>8, <3>1, <3>2
    <3>4. last \in L BY <1>1, <3>1, <3>2, <3>3 DEF FallsAlong
    <3>5. next[last] = b BY <1>1, <1>6, <3>1, <3>2, <3>4 DEF FallsAlong
    <3>6. Walk[0] \notin S \cup {NULL} /\ Walk[0] \in L \cup {NULL} /\ Walk[0] = head
      <4>1. 0 \in 0 .. n - 1 /\ 0 \in 0 .. MaxBugs BY <1>0, <3>1
      <4> QED BY <1>1, <1>8, <4>1 DEF FallsAlong
    <3> QED BY <3>3, <3>4, <3>5, <3>6
  <2> QED BY <2>1, <2>2
<1> QED BY <1>3, <1>6, <1>7, <1>9, <1>10, <1>11

-----------------------------------------------------------------------------
(* Media bugs: the types *)

\* The bugs are numbered in the order in which they were added.
LEMMA Numbers ==
    ASSUME BugTyped
    PROVE  /\ Cardinality(Attached) \in 0 .. MaxBugs
           /\ Attached = 1 .. Cardinality(Attached) /\ Attached \subseteq Bugs
           /\ kind \in [Attached -> Kinds]
           /\ 0 \notin Attached
<1>1. PICK n \in 0 .. MaxBugs : kind \in [1 .. n -> Kinds] BY DEF BugTyped
<1>2. Attached = 1 .. n BY <1>1 DEF Attached
<1>3. n \in Nat /\ 1 \in Int BY BugAssumption
<1>4. Cardinality(1 .. n) = IF 1 > n THEN 0 ELSE n - 1 + 1 BY <1>3, FS_Interval
<1>5. Cardinality(Attached) = n BY <1>2, <1>3, <1>4
<1> QED BY <1>1, <1>2, <1>3, <1>5, BugAssumption DEF Bugs

\* What a thread keeps from one step to the next.
LEMMA UserIs ==
    ASSUME BugTyped, NEW t \in Threads
    PROVE  /\ user[t].pc \in {"idle", "add", "tap", "remove", "close", "popped", "prune", "prune_close"}
           /\ user[t].pc = "add" => user[t].kind \in Kinds
           /\ user[t].pc = "tap" => user[t].tap \in BOOLEAN
           /\ user[t].pc \in {"remove", "close", "popped", "prune_close"} => user[t].bug \in Attached
           /\ user[t].pc \in {"prune", "prune_close"} => user[t].last \in Attached \cup {NULL}
<1>1. user[t] \in BugUser BY DEF BugTyped
<1>2. PICK w : w = user[t] OBVIOUS
<1>3. w \in {Idle} \/ w \in [pc : {"add"}, kind : Kinds] \/ w \in [pc : {"tap"}, tap : BOOLEAN]
      \/ w \in [pc : {"remove", "close", "popped"}, bug : Attached]
      \/ w \in [pc : {"prune"}, last : Attached \cup {NULL}]
      \/ w \in [pc : {"prune_close"}, last : Attached \cup {NULL}, bug : Attached]
  BY <1>1, <1>2, Zenon DEF BugUser
<1>4. /\ w.pc \in {"idle", "add", "tap", "remove", "close", "popped", "prune", "prune_close"}
      /\ w.pc = "add" => w.kind \in Kinds
      /\ w.pc = "tap" => w.tap \in BOOLEAN
      /\ w.pc \in {"remove", "close", "popped", "prune_close"} => w.bug \in Attached
      /\ w.pc \in {"prune", "prune_close"} => w.last \in Attached \cup {NULL}
  BY <1>3, SMT DEF Idle
<1> QED BY <1>2, <1>4

\* A thread goes to a place of the type.
LEMMA GotoTyped ==
    ASSUME NEW t \in Threads, NEW w \in BugUser', user \in [Threads -> BugUser],
           Attached \subseteq Attached', user' = [user EXCEPT ![t] = w]
    PROVE  user' \in [Threads -> BugUser']
<1>1. BugUser \subseteq BugUser' BY DEF BugUser, Idle
<1> QED BY <1>1

\* The places that the actions go to.
LEMMA PlaceTyped ==
    /\ Idle \in BugUser
    /\ \A k \in Kinds : [pc |-> "add", kind |-> k] \in BugUser
    /\ \A x \in BOOLEAN : [pc |-> "tap", tap |-> x] \in BugUser
    /\ \A b \in Attached : /\ [pc |-> "remove", bug |-> b] \in BugUser
                           /\ [pc |-> "close", bug |-> b] \in BugUser
                           /\ [pc |-> "popped", bug |-> b] \in BugUser
    /\ \A l \in Attached \cup {NULL} :
         /\ [pc |-> "prune", last |-> l] \in BugUser
         /\ \A b \in Attached : [pc |-> "prune_close", last |-> l, bug |-> b] \in BugUser
<1>1. \A b \in Attached : /\ [pc |-> "remove", bug |-> b] \in [pc : {"remove", "close", "popped"}, bug : Attached]
                          /\ [pc |-> "close", bug |-> b] \in [pc : {"remove", "close", "popped"}, bug : Attached]
                          /\ [pc |-> "popped", bug |-> b] \in [pc : {"remove", "close", "popped"}, bug : Attached]
  OBVIOUS
<1>2. \A l \in Attached \cup {NULL} : [pc |-> "prune", last |-> l] \in [pc : {"prune"}, last : Attached \cup {NULL}]
  OBVIOUS
<1>3. \A l \in Attached \cup {NULL}, b \in Attached : [pc |-> "prune_close", last |-> l, bug |-> b]
         \in [pc : {"prune_close"}, last : Attached \cup {NULL}, bug : Attached]
  OBVIOUS
<1>4. \A k \in Kinds : [pc |-> "add", kind |-> k] \in [pc : {"add"}, kind : Kinds] OBVIOUS
<1>5. \A x \in BOOLEAN : [pc |-> "tap", tap |-> x] \in [pc : {"tap"}, tap : BOOLEAN] OBVIOUS
<1> QED BY <1>1, <1>2, <1>3, <1>4, <1>5, Zenon DEF BugUser

-----------------------------------------------------------------------------
(* Media bugs: what one step does to the bugs, whichever action it is *)

\* A thread t goes to the place w, the bugs in G are closed.
StepOf(t, w, G) ==
    /\ user' = [user EXCEPT ![t] = w]
    /\ Closing(G)
    /\ Attached \subseteq Attached'
    /\ \A b \in Attached : kind'[b] = kind[b]
    /\ \A b \in Attached' \ Attached : b \in Listed'
    /\ taken \subseteq taken' /\ spared \subseteq spared'

\* A thread at the place w holds b.
PlaceHolds(w, b) == w.pc \in {"close", "prune_close"} /\ w.bug = b

\* What such a step has to respect, so that every bug stays in the list, with one
\* thread that closes it, or closed once
LEMMA HandStep ==
    ASSUME BugTyped, HandInv, NEW t \in Threads, NEW w, NEW G, StepOf(t, w, G),
           G \subseteq Attached \ Listed', Listed' \subseteq Attached',
           \A b \in G : closed[b] = 0 /\ \A u \in Threads \ {t} : ~Holding(u, b),
           \A b \in Listed' \ Listed : b \notin Attached,
           \A b \in Bugs : PlaceHolds(w, b) =>
              /\ b \notin Listed' \cup G /\ closed[b] = 0
              /\ \A u \in Threads \ {t} : ~Holding(u, b)
    PROVE  HandInv'
<1>0. closed \in [Bugs -> 0 .. 2] /\ user \in [Threads -> BugUser] /\ Attached \subseteq Bugs
  BY Numbers DEF BugTyped
<1>1. /\ \A b \in Bugs : closed'[b] = IF b \in G THEN Count2(closed[b]) ELSE closed[b]
      /\ \A u \in Threads : user'[u] = IF u = t THEN w ELSE user[u]
      /\ Attached \subseteq Attached'
  BY <1>0 DEF StepOf, Closing
<1>2. \A b \in G : closed'[b] = 1
  <2>1. \A b \in G : b \in Bugs /\ closed[b] = 0 BY <1>0
  <2> QED BY <1>1, <2>1 DEF Count2
<1>3. \A b \in Bugs \ G : closed'[b] = closed[b] BY <1>1
<1>4. \A b \in Bugs, u \in Threads : Holding(u, b)' <=> IF u = t THEN PlaceHolds(w, b) ELSE Holding(u, b)
  BY <1>1 DEF Holding, PlaceHolds
<1>5. \A b \in Bugs : closed'[b] <= 1 BY <1>2, <1>3 DEF HandInv
<1>6. ASSUME NEW b \in Bugs, closed'[b] > 0 PROVE b \in Attached' \ Listed'
  <2>1. CASE b \in G BY <1>1, <2>1
  <2>2. CASE b \notin G
    <3>1. closed[b] > 0 BY <1>3, <1>6, <2>2
    <3>2. b \in Attached \ Listed BY <3>1 DEF HandInv
    <3> QED BY <1>1, <3>2
  <2> QED BY <2>1, <2>2
<1>7. ASSUME NEW b \in Bugs, NEW u \in Threads, Holding(u, b)' PROVE b \notin Listed' /\ closed'[b] = 0
  <2>1. CASE u = t
    <3>1. PlaceHolds(w, b) BY <1>4, <1>7, <2>1
    <3> QED BY <1>3, <3>1
  <2>2. CASE u # t
    <3>1. Holding(u, b) BY <1>4, <1>7, <2>2
    <3>2. b \notin G BY <2>2, <3>1
    <3>3. b \notin Listed /\ closed[b] = 0 BY <3>1 DEF HandInv
    <3>4. b \in Attached BY <3>1, UserIs DEF Holding
    <3>5. b \notin Listed' BY <3>3, <3>4
    <3> QED BY <1>3, <3>2, <3>3, <3>5
  <2> QED BY <2>1, <2>2
<1>8. ASSUME NEW b \in Bugs, NEW u \in Threads, NEW v \in Threads, Holding(u, b)', Holding(v, b)' PROVE u = v
  <2>1. CASE u # t /\ v # t BY <1>4, <1>8, <2>1 DEF HandInv
  <2>2. CASE u = t /\ v # t BY <1>4, <1>8, <2>2
  <2>3. CASE u # t /\ v = t BY <1>4, <1>8, <2>3
  <2> QED BY <2>1, <2>2, <2>3
<1> QED BY <1>5, <1>6, <1>7, <1>8 DEF HandInv

\* and so that none is dropped without its CLOSE callback.
LEMMA DropStep ==
    ASSUME BugTyped, HandInv, NoDrop, NEW t \in Threads, NEW w, NEW G, StepOf(t, w, G),
           \A b \in Listed \ Listed' : b \in taken' \cup spared' \/ b \in G \/ PlaceHolds(w, b),
           \A b \in Attached : Holding(t, b) =>
              b \in taken' \cup spared' \/ b \in G \/ PlaceHolds(w, b)
    PROVE  NoDrop'
<1>0. closed \in [Bugs -> 0 .. 2] /\ user \in [Threads -> BugUser] /\ Attached \subseteq Bugs
  BY Numbers DEF BugTyped
<1>1. /\ \A b \in Bugs : closed'[b] = IF b \in G THEN Count2(closed[b]) ELSE closed[b]
      /\ \A u \in Threads : user'[u] = IF u = t THEN w ELSE user[u]
      /\ taken \subseteq taken' /\ spared \subseteq spared'
  BY <1>0 DEF StepOf, Closing
<1>2. \A b \in Bugs : b \in G \/ closed[b] > 0 => closed'[b] > 0
  <2>1. \A b \in Bugs : closed[b] \in {0, 1, 2} BY <1>0
  <2> QED BY <1>1, <2>1 DEF Count2
<1>3. \A b \in Bugs : PlaceHolds(w, b) => Holding(t, b)' BY <1>1 DEF Holding, PlaceHolds
<1>4. \A b \in Bugs, u \in Threads \ {t} : Holding(u, b) => Holding(u, b)' BY <1>1 DEF Holding
<1>5. ASSUME NEW b \in Attached'
      PROVE  \/ b \in Listed' \cup taken' \cup spared' \/ closed'[b] > 0
             \/ \E u \in Threads : Holding(u, b)'
  <2>1. CASE b \notin Attached BY <1>5, <2>1 DEF StepOf
  <2>2. CASE b \in Attached
    <3>1. b \in Bugs BY <1>0, <2>2
    <3>2. CASE b \in taken' \cup spared' BY <3>2
    <3>3. CASE b \in G \/ closed[b] > 0 BY <1>2, <3>1, <3>3
    <3>4. CASE PlaceHolds(w, b) BY <1>3, <3>1, <3>4
    <3>5. CASE b \in Listed BY <3>2, <3>3, <3>4, <3>5
    <3>6. CASE \E u \in Threads : Holding(u, b)
      <4>1. PICK u \in Threads : Holding(u, b) BY <3>6
      <4>2. CASE u = t BY <2>2, <3>2, <3>3, <3>4, <4>1, <4>2
      <4>3. CASE u # t BY <1>4, <3>1, <4>1, <4>3
      <4> QED BY <4>2, <4>3
    <3> QED BY <1>1, <2>2, <3>2, <3>3, <3>5, <3>6 DEF NoDrop
  <2> QED BY <2>1, <2>2
<1> QED BY <1>5 DEF NoDrop

\* CLOSE callbacks are counted up to two.
LEMMA ClosingTyped ==
    ASSUME closed \in [Bugs -> 0 .. 2], NEW G, Closing(G)
    PROVE  closed' \in [Bugs -> 0 .. 2]
<1>1. \A n \in 0 .. 2 : Count2(n) \in 0 .. 2 BY DEF Count2
<1> QED BY <1>1 DEF Closing

\* A step that closes none.
LEMMA ClosingNone ==
    ASSUME closed \in [Bugs -> 0 .. 2], closed' = closed
    PROVE  Closing({})
BY DEF Closing

\* The list changes with its pointers only.
LEMMA ListedStays ==
    ASSUME head' = head, next' = next
    PROVE  Listed' = Listed
BY DEF Listed, Walk, Steps

\* The types, for a step that adds no bug.
LEMMA TypedStep ==
    ASSUME BugTyped, NEW t \in Threads, NEW w \in BugUser, NEW G, kind' = kind,
           head' \in Attached \cup {NULL}, next' \in [Bugs -> Attached \cup {NULL}],
           thread_id' \in [Bugs -> SUBSET Threads], locked' \subseteq Attached,
           pruned' \subseteq Attached, ready' \subseteq Attached,
           Closing(G), tapOnly' \in BOOLEAN, user' = [user EXCEPT ![t] = w]
    PROVE  BugTyped'
<1>1. Attached' = Attached BY DEF Attached
<1>2. BugUser' = BugUser BY <1>1 DEF BugUser, Idle
<1>3. user' \in [Threads -> BugUser'] BY <1>2 DEF BugTyped
<1>4. closed' \in [Bugs -> 0 .. 2] BY ClosingTyped DEF BugTyped
<1>5. \E n \in 0 .. MaxBugs : kind' \in [1 .. n -> Kinds] BY DEF BugTyped
<1>6. locked' \cup pruned' \cup ready' \subseteq Attached' BY <1>1
<1> QED BY <1>1, <1>3, <1>4, <1>5, <1>6 DEF BugTyped

\* What a step has to record.
Recorded ==
    /\ locked' \subseteq taken' /\ taken' \cup spared' \subseteq Attached'
    /\ taken \subseteq taken' /\ spared \subseteq spared'
    /\ crossed' \subseteq Kinds /\ overtaken' \subseteq Threads /\ stale' \in BOOLEAN

\* A step that locks no bug, and keeps the histories, does.
LEMMA RecordedSame ==
    ASSUME HistInv, locked' \subseteq locked, taken' = taken, spared' = spared,
           crossed' \subseteq Kinds, overtaken' \subseteq Threads, stale' \in BOOLEAN,
           Attached \subseteq Attached'
    PROVE  Recorded
BY DEF HistInv, Recorded

\* The histories, for any step.
LEMMA HistStep ==
    ASSUME BugTyped, HistInv, NEW t \in Threads, NEW w, user' = [user EXCEPT ![t] = w],
           \A b \in Attached : thread_id'[b] \subseteq thread_id[b],
           w.pc = "close" => thread_id'[w.bug] \subseteq {t}, Recorded
    PROVE  HistInv'
<1>1. \A u \in Threads : user'[u] = IF u = t THEN w ELSE user[u] BY DEF BugTyped
<1>2. ASSUME NEW u \in Threads, user'[u].pc = "close" PROVE thread_id'[user'[u].bug] \subseteq {u}
  <2>1. CASE u = t BY <1>1, <1>2, <2>1
  <2>2. CASE u # t
    <3>1. user'[u] = user[u] /\ user[u].pc = "close" BY <1>1, <1>2, <2>2
    <3>2. user[u].bug \in Attached BY <3>1, UserIs
    <3>3. thread_id[user[u].bug] \subseteq {u} BY <3>1 DEF HistInv, Mine
    <3> QED BY <3>1, <3>2, <3>3
  <2> QED BY <2>1, <2>2
<1> QED BY <1>2 DEF HistInv, Recorded, Mine

\* A step keeps the invariant and drops no bug.
Kept == WholeInv' /\ (NoDrop => NoDrop')

\* A step adds no bug.
Fewer == Listed' \subseteq Listed /\ ready' \subseteq ready /\ kind' = kind

\* A step that neither touches the list nor closes a bug.
LEMMA QuietStep ==
    ASSUME WholeInv, NEW t \in Threads, NEW w \in BugUser, user' = [user EXCEPT ![t] = w],
           user[t].pc \notin {"close", "prune_close"}, w.pc \notin {"close", "prune_close"},
           UNCHANGED <<head, next, kind, thread_id, ready, closed>>, tapOnly' \in BOOLEAN,
           pruned' \subseteq Attached, locked' \subseteq Attached,
           Recorded
    PROVE  Kept /\ Fewer
<1>0. BugTyped /\ HandInv /\ IsList(Listed) /\ HistInv BY DEF WholeInv
<1>1. Listed' = Listed /\ Attached' = Attached BY ListedStays DEF Attached
<1>2. closed \in [Bugs -> 0 .. 2] /\ closed' = closed BY <1>0 DEF BugTyped
<1>3. Closing({}) BY <1>2, ClosingNone
<1>4. BugTyped'
  <2>1. /\ head' \in Attached \cup {NULL} /\ next' \in [Bugs -> Attached \cup {NULL}]
        /\ thread_id' \in [Bugs -> SUBSET Threads] /\ ready' \subseteq Attached /\ kind' = kind
    BY <1>0 DEF BugTyped
  <2> QED BY <1>0, <1>3, <2>1, TypedStep
<1>5. IsList(Listed)' BY <1>0, <1>1 DEF IsList, Falls, NULL
<1>6. StepOf(t, w, {}) BY <1>1, <1>3 DEF StepOf, Recorded
<1>7. \A b \in Bugs : ~PlaceHolds(w, b) BY DEF PlaceHolds
<1>8. Listed' \subseteq Attached' BY <1>0, <1>1 DEF IsList
<1>9. HandInv' BY <1>0, <1>1, <1>6, <1>7, <1>8, HandStep
<1>10. ASSUME NoDrop PROVE NoDrop'
  <2>1. \A b \in Attached : ~Holding(t, b) BY DEF Holding
  <2> QED BY <1>0, <1>1, <1>6, <1>10, <2>1, DropStep
<1>11. HistInv' BY <1>0, HistStep
<1> QED BY <1>1, <1>4, <1>5, <1>9, <1>10, <1>11 DEF WholeInv, Kept, Fewer

-----------------------------------------------------------------------------
(* Media bugs: one lemma for each action *)

\* The parts of the invariant that the steps use.
LEMMA WholeParts ==
    ASSUME WholeInv
    PROVE  /\ BugTyped /\ HandInv /\ HistInv /\ IsList(Listed)
           /\ locked \subseteq Attached /\ pruned \subseteq Attached /\ ready \subseteq Attached
           /\ tapOnly \in BOOLEAN /\ user \in [Threads -> BugUser]
           /\ Listed \subseteq Attached /\ Attached \subseteq Bugs /\ Listed \subseteq Bugs
           /\ Falls(Listed, head, next)
           /\ locked \subseteq taken /\ taken \subseteq Attached /\ spared \subseteq Attached
           /\ crossed \subseteq Kinds /\ overtaken \subseteq Threads /\ stale \in BOOLEAN
           /\ next \in [Bugs -> Attached \cup {NULL}]
           /\ closed \in [Bugs -> 0 .. 2] /\ thread_id \in [Bugs -> SUBSET Threads]
<1>1. BugTyped /\ HandInv /\ HistInv /\ IsList(Listed) BY DEF WholeInv
<1>2. Attached \subseteq Bugs BY <1>1, Numbers
<1>3. locked \cup pruned \cup ready \subseteq Attached BY <1>1 DEF BugTyped
<1> QED BY <1>1, <1>2, <1>3 DEF BugTyped, IsList, HistInv

\* switch_core_media_bug_add, up to the INIT callback
LEMMA KeepAddCheck ==
    ASSUME WholeInv, NEW t \in Threads, NEW k \in Kinds, AddCheck(t, k)
    PROVE  Kept /\ Fewer
<1>1. PICK w : w = [pc |-> "add", kind |-> k] OBVIOUS
<1>2. w \in BugUser /\ w.pc = "add" BY <1>1, PlaceTyped
<1>3. /\ user' = [user EXCEPT ![t] = w] /\ user[t].pc = "idle"
      /\ UNCHANGED <<head, next, kind, thread_id, locked, pruned, ready, closed, tapOnly,
                     taken, spared, crossed, overtaken, stale>>
  BY <1>1 DEF AddCheck, Goto, Idle, flags, drops, races
<1>4. Recorded BY <1>3, RecordedSame, WholeParts DEF Attached
<1> QED BY <1>2, <1>3, <1>4, QuietStep, WholeParts DEF Kept

\* its early return
LEMMA KeepAddRefused ==
    ASSUME WholeInv, NEW t \in Threads, AddRefused(t)
    PROVE  Kept /\ Fewer
<1>1. PICK w : w = Idle OBVIOUS
<1>2. w \in BugUser /\ w.pc = "idle" BY <1>1, PlaceTyped DEF Idle
<1>3. /\ user' = [user EXCEPT ![t] = w] /\ user[t].pc = "add"
      /\ UNCHANGED <<head, next, kind, thread_id, locked, pruned, ready, closed, tapOnly,
                     taken, spared, crossed, overtaken, stale>>
  BY <1>1 DEF AddRefused, Goto, flags, drops, races
<1>4. Recorded BY <1>3, RecordedSame, WholeParts DEF Attached
<1> QED BY <1>2, <1>3, <1>4, QuietStep, WholeParts DEF Kept

\* and the flag of the session that it sets after the unlock.
LEMMA KeepAddTap ==
    ASSUME WholeInv, NEW t \in Threads, AddTap(t)
    PROVE  Kept /\ Fewer
<1>1. PICK w : w = Idle OBVIOUS
<1>2. w \in BugUser /\ w.pc = "idle" BY <1>1, PlaceTyped DEF Idle
<1>3. /\ user' = [user EXCEPT ![t] = w] /\ user[t].pc = "tap" /\ tapOnly' = user[t].tap
      /\ stale' = (t \in overtaken) /\ overtaken' = overtaken \ {t}
      /\ UNCHANGED <<head, next, kind, thread_id, locked, pruned, ready, closed, taken, spared, crossed>>
  BY <1>1 DEF AddTap, Goto, flags, drops
<1>4. Recorded
  <2>1. stale' \in BOOLEAN /\ overtaken' \subseteq Threads BY <1>3, WholeParts
  <2> QED BY <1>3, <2>1, RecordedSame, WholeParts DEF Attached
<1>5. tapOnly' \in BOOLEAN BY <1>3, UserIs, WholeParts
<1> QED BY <1>2, <1>3, <1>4, <1>5, QuietStep, WholeParts DEF Kept

\* switch_core_media_bug_remove, up to the lock.
LEMMA KeepRemoveCheck ==
    ASSUME WholeInv, NEW t \in Threads, NEW b \in Attached, RemoveCheck(t, b)
    PROVE  Kept /\ Fewer
<1>1. PICK w : w = [pc |-> "remove", bug |-> b] OBVIOUS
<1>2. w \in BugUser /\ w.pc = "remove" BY <1>1, PlaceTyped
<1>3. /\ user' = [user EXCEPT ![t] = w] /\ user[t].pc = "idle"
      /\ UNCHANGED <<head, next, kind, thread_id, locked, pruned, ready, closed, tapOnly,
                     taken, spared, crossed, overtaken, stale>>
  BY <1>1 DEF RemoveCheck, Goto, Idle, flags, drops, races
<1>4. Recorded BY <1>3, RecordedSame, WholeParts DEF Attached
<1> QED BY <1>2, <1>3, <1>4, QuietStep, WholeParts DEF Kept

\* SMBF_PRUNE, set on a bug of the list.
LEMMA KeepFlag ==
    ASSUME WholeInv, NEW t \in Threads, NEW b \in Attached, NEW setFlag \in BOOLEAN,
           Flag(t, b, setFlag)
    PROVE  Kept /\ Fewer
<1>1. PICK w : w = Idle OBVIOUS
<1>2. w \in BugUser /\ w.pc = "idle" BY <1>1, PlaceTyped DEF Idle
<1>3. /\ user[t] = w /\ user' = user /\ user[t].pc = "idle"
      /\ UNCHANGED <<head, next, kind, thread_id, ready, closed, tapOnly, taken, spared, crossed, overtaken, stale>>
      /\ pruned' = pruned \cup {b} /\ locked' \subseteq locked
  BY <1>1, <1>2 DEF Flag, drops, races
<1>4. user' = [user EXCEPT ![t] = w] BY <1>3, WholeParts
<1>5. Recorded BY <1>3, RecordedSame, WholeParts DEF Attached
<1>6. pruned' \subseteq Attached /\ locked' \subseteq Attached
  BY <1>3, WholeParts
<1> QED BY <1>2, <1>3, <1>4, <1>5, <1>6, QuietStep, WholeParts DEF Kept

\* switch_core_media_bug_pop, which locks the bug that it finds.
LEMMA KeepPop ==
    ASSUME WholeInv, NEW t \in Threads, NEW k \in Kinds, Pop(t, k)
    PROVE  Kept /\ Fewer
<1> DEFINE S == {c \in Listed : kind[c] = k}
<1>1. PICK b : b = Walk[Stop(S)] OBVIOUS
<1>2. b \in (Listed \cap S) \cup {NULL} BY <1>1, StopIs, WholeParts
<1>3. b # NULL /\ k \in Popped BY <1>1 DEF Pop
<1>4. b \in Attached /\ kind[b] = k BY <1>2, <1>3, WholeParts
<1>5. PICK w : w = [pc |-> "popped", bug |-> b] OBVIOUS
<1>6. w \in BugUser /\ w.pc = "popped" BY <1>4, <1>5, PlaceTyped
<1>7. /\ user' = [user EXCEPT ![t] = w] /\ user[t].pc = "idle" /\ locked' = locked \cup {b}
      /\ taken' = taken \cup {b}
      /\ UNCHANGED <<head, next, kind, thread_id, pruned, ready, closed, tapOnly, spared, crossed, overtaken, stale>>
  BY <1>1, <1>5 DEF Pop, Goto, Idle, races
<1>8. Recorded
  <2>1. Attached' = Attached BY <1>7 DEF Attached
  <2> QED BY <1>4, <1>7, <2>1, WholeParts DEF Recorded
<1>9. locked' \subseteq Attached
  BY <1>4, <1>7, WholeParts
<1> QED BY <1>6, <1>7, <1>8, <1>9, QuietStep, WholeParts DEF Kept

\* The prune flag of a bug that was popped.
LEMMA KeepPopFlag ==
    ASSUME WholeInv, NEW t \in Threads, PopFlag(t)
    PROVE  Kept /\ Fewer
<1>1. PICK w : w = Idle OBVIOUS
<1>2. w \in BugUser /\ w.pc = "idle" BY <1>1, PlaceTyped DEF Idle
<1>3. /\ user' = [user EXCEPT ![t] = w] /\ user[t].pc = "popped"
      /\ UNCHANGED <<head, next, kind, thread_id, ready, closed, tapOnly, taken, spared, crossed, overtaken, stale>>
      /\ pruned' = pruned \cup {user[t].bug} /\ locked' \subseteq locked
  BY <1>1 DEF PopFlag, Goto, drops, races
<1>4. Recorded BY <1>3, RecordedSame, WholeParts DEF Attached
<1>5. user[t].bug \in Attached BY <1>3, UserIs, WholeParts
<1>6. pruned' \subseteq Attached /\ locked' \subseteq Attached
  BY <1>3, <1>5, WholeParts
<1> QED BY <1>2, <1>3, <1>4, <1>6, QuietStep, WholeParts DEF Kept

\* prune begins, with last at NULL.
LEMMA KeepPrune ==
    ASSUME WholeInv, NEW t \in Threads, Prune(t)
    PROVE  Kept /\ Fewer
<1>1. PICK w : w = [pc |-> "prune", last |-> NULL] OBVIOUS
<1>2. w \in BugUser /\ w.pc = "prune" BY <1>1, PlaceTyped
<1>3. /\ user' = [user EXCEPT ![t] = w] /\ user[t].pc = "idle"
      /\ UNCHANGED <<head, next, kind, thread_id, locked, pruned, ready, closed, tapOnly,
                     taken, spared, crossed, overtaken, stale>>
  BY <1>1 DEF Prune, Goto, Idle, flags, drops, races
<1>4. Recorded BY <1>3, RecordedSame, WholeParts DEF Attached
<1> QED BY <1>2, <1>3, <1>4, QuietStep, WholeParts DEF Kept

\* A step that takes bugs out of the list or closes some.
LEMMA ListStep ==
    ASSUME WholeInv, NEW t \in Threads, NEW w \in BugUser, NEW G, NEW L2, L2 \subseteq Listed,
           user' = [user EXCEPT ![t] = w], Closing(G), kind' = kind,
           Falls(L2, head', next'), next' \in [Bugs -> Attached \cup {NULL}],
           locked' \subseteq locked, pruned' = pruned, ready' \subseteq ready,
           thread_id' \in [Bugs -> SUBSET Threads],
           \A b \in Attached : thread_id'[b] \subseteq thread_id[b],
           tapOnly' \in BOOLEAN, Recorded, w.pc = "close" => thread_id'[w.bug] \subseteq {t},
           G \subseteq Attached \ L2,
           \A b \in G : closed[b] = 0 /\ \A u \in Threads \ {t} : ~Holding(u, b),
           \A b \in Bugs : PlaceHolds(w, b) =>
              /\ b \notin L2 \cup G /\ closed[b] = 0
              /\ \A u \in Threads \ {t} : ~Holding(u, b)
    PROVE  WholeInv' /\ Fewer /\ Listed' = L2 /\ StepOf(t, w, G)
<1>0. BugTyped /\ HandInv /\ HistInv /\ Listed \subseteq Attached /\ L2 \subseteq Bugs BY WholeParts
<1>1. Listed' = L2 BY <1>0, ListedIsNext
<1>2. Attached' = Attached BY DEF Attached
<1>3. head' \in Attached \cup {NULL} BY <1>0 DEF Falls
<1>4. locked' \subseteq Attached /\ pruned' \subseteq Attached /\ ready' \subseteq Attached BY WholeParts
<1>5. BugTyped' BY <1>0, <1>3, <1>4, TypedStep
<1>6. StepOf(t, w, G) BY <1>2 DEF StepOf, Recorded
<1>7. IsList(Listed)'
  <2>1. Listed' \subseteq Attached' BY <1>0, <1>1, <1>2
  <2>2. Falls(Listed', head', next') BY <1>1
  <2> QED BY <2>1, <2>2 DEF IsList, Falls, NULL
<1>8. HandInv'
  <2>1. G \subseteq Attached \ Listed' /\ Listed' \subseteq Attached' BY <1>0, <1>1, <1>2
  <2>2. \A b \in Listed' \ Listed : b \notin Attached BY <1>1
  <2>3. \A b \in Bugs : PlaceHolds(w, b) =>
              /\ b \notin Listed' \cup G /\ closed[b] = 0
              /\ \A u \in Threads \ {t} : ~Holding(u, b)
    BY <1>1
  <2> QED BY <1>0, <1>6, <2>1, <2>2, <2>3, HandStep
<1>9. HistInv' BY <1>0, HistStep
<1> QED BY <1>1, <1>5, <1>6, <1>7, <1>8, <1>9 DEF WholeInv, Fewer

\* A bug in the list is not closed, and no thread is about to close it.
LEMMA ListedUntouched ==
    ASSUME WholeInv, NEW b \in Listed
    PROVE  b \in Bugs /\ b \in Attached /\ closed[b] = 0 /\ \A u \in Threads : ~Holding(u, b)
<1>1. b \in Bugs /\ b \in Attached /\ closed[b] \in 0 .. 2 BY WholeParts
<1>2. ~(closed[b] > 0) /\ \A u \in Threads : ~Holding(u, b) BY <1>1, WholeParts DEF HandInv
<1> QED BY <1>1, <1>2

\* Unlink takes one bug out of the list, if last is the one before it.
LEMMA UnlinkTyped ==
    ASSUME WholeInv, NEW last, NEW b \in Listed, Unlink(last, b),
           \/ last = NULL /\ head = b
           \/ last \in Listed /\ next[last] = b
    PROVE  Falls(Listed \ {b}, head', next') /\ next' \in [Bugs -> Attached \cup {NULL}]
<1>0. /\ Listed \subseteq Bugs /\ Falls(Listed, head, next) /\ b \in Bugs
      /\ next \in [Bugs -> Attached \cup {NULL}]
  BY WholeParts
<1>1. Bugs \subseteq Nat \ {0} BY BugAssumption DEF Bugs
<1>2. /\ head' = IF last = NULL THEN next[b] ELSE head
      /\ next' = IF last = NULL THEN next ELSE [next EXCEPT ![last] = next[b]]
  BY DEF Unlink
<1>3. Falls(Listed \ {b}, IF last = NULL THEN next[b] ELSE head,
            IF last = NULL THEN next ELSE [next EXCEPT ![last] = next[b]])
  BY <1>0, <1>1, UnlinkFalls
<1> QED BY <1>0, <1>2, <1>3

\* switch_core_media_bug_remove, with the lock held: the loop stops at the bug
\* if it is in the list, with last before it.
LEMMA KeepRemoveUnlink ==
    ASSUME WholeInv, NEW t \in Threads, RemoveUnlink(t)
    PROVE  Kept /\ Fewer
<1>1. PICK b : b = user[t].bug OBVIOUS
<1>2. PICK last : last = LastAt(Stop({b}), NULL) OBVIOUS
<1>3. /\ user[t].pc = "remove" /\ tapOnly' = FALSE /\ stale' = FALSE
      /\ UNCHANGED <<kind, thread_id, locked, pruned, ready, closed, taken, spared, crossed, overtaken>>
  BY DEF RemoveUnlink, flags, drops
<1>r. Recorded BY <1>3, RecordedSame, WholeParts DEF Attached
<1>4. b \in Attached BY <1>1, <1>3, UserIs, WholeParts
<1>5. CASE b \in Listed \cap ready /\ Mine(t, b)
  <2>1. PICK w : w = [pc |-> "close", bug |-> b] OBVIOUS
  <2>2. w \in BugUser /\ w.pc = "close" /\ w.bug = b BY <1>4, <2>1, PlaceTyped
  <2>3. Unlink(last, b) /\ user' = [user EXCEPT ![t] = w]
    BY <1>1, <1>2, <1>5, <2>1 DEF RemoveUnlink, Goto
  <2>4. PICK c : c = Walk[Stop({b})] OBVIOUS
  <2>5. /\ c \in (Listed \cap {b}) \cup {NULL} /\ b <= c
        /\ \/ last = NULL /\ head = c
           \/ last \in Listed /\ next[last] = c
    BY <1>2, <1>5, <2>4, StopIs, WholeParts
  <2>6. c = b
    <3>1. b \in 1 .. MaxBugs BY <1>4, WholeParts DEF Bugs
    <3> QED BY <2>5, <3>1 DEF NULL
  <2>7. Falls(Listed \ {b}, head', next') /\ next' \in [Bugs -> Attached \cup {NULL}]
    BY <1>5, <2>3, <2>5, <2>6, UnlinkTyped
  <2>8. Closing({}) BY <1>3, ClosingNone, WholeParts
  <2>9. thread_id'[w.bug] \subseteq {t} BY <1>3, <1>5, <2>2 DEF Mine
  <2>10. \A c2 \in Bugs : PlaceHolds(w, c2) =>
              /\ c2 \notin (Listed \ {b}) \cup {} /\ closed[c2] = 0
              /\ \A u \in Threads \ {t} : ~Holding(u, c2)
    BY <1>5, <2>2, ListedUntouched DEF PlaceHolds
  <2>11. /\ Listed \ {b} \subseteq Listed /\ thread_id' \in [Bugs -> SUBSET Threads]
         /\ \A c2 \in Attached : thread_id'[c2] \subseteq thread_id[c2]
         /\ locked' \subseteq locked /\ pruned' = pruned /\ ready' \subseteq ready
         /\ tapOnly' \in BOOLEAN /\ kind' = kind
    BY <1>3, WholeParts
  <2>12. WholeInv' /\ Fewer /\ Listed' = Listed \ {b} /\ StepOf(t, w, {})
    BY <1>r, <2>2, <2>3, <2>7, <2>8, <2>9, <2>10, <2>11, ListStep
  <2>13. ASSUME NoDrop PROVE NoDrop'
    <3>1. \A c2 \in Listed \ Listed' : PlaceHolds(w, c2) BY <2>2, <2>12 DEF PlaceHolds
    <3>2. \A c2 \in Attached : ~Holding(t, c2) BY <1>3 DEF Holding
    <3> QED BY <2>12, <2>13, <3>1, <3>2, DropStep, WholeParts
  <2> QED BY <2>12, <2>13 DEF Kept
<1>6. CASE ~(b \in Listed \cap ready /\ Mine(t, b))
  <2>1. PICK w : w = Idle OBVIOUS
  <2>2. w \in BugUser /\ w.pc = "idle" BY <2>1, PlaceTyped DEF Idle
  <2>3. user' = [user EXCEPT ![t] = w] /\ UNCHANGED <<head, next>>
    BY <1>1, <1>6, <2>1 DEF RemoveUnlink, Goto
  <2> QED BY <1>3, <1>r, <2>2, <2>3, QuietStep, WholeParts DEF Kept
<1> QED BY <1>5, <1>6

\* switch_core_media_bug_close: t alone holds the bug.
LEMMA KeepClose ==
    ASSUME WholeInv, NEW t \in Threads, Close(t)
    PROVE  Kept /\ Fewer
<1>1. PICK b : b = user[t].bug OBVIOUS
<1>2. PICK G : G = {c \in {b} : Mine(t, c) /\ c \notin locked} OBVIOUS
<1>3. PICK w : w = Idle OBVIOUS
<1>4. w \in BugUser /\ w.pc = "idle" BY <1>3, PlaceTyped DEF Idle
<1>5. /\ user[t].pc = "close" /\ Closing(G) /\ ready' = ready \ G /\ user' = [user EXCEPT ![t] = w]
      /\ UNCHANGED <<head, next, kind, thread_id, locked, pruned, tapOnly, taken, spared, crossed, overtaken, stale>>
  BY <1>1, <1>2, <1>3 DEF Close, flags, Goto, drops, races
<1>6. b \in Attached /\ b \in Bugs BY <1>1, <1>5, UserIs, WholeParts
<1>7. Holding(t, b) BY <1>1, <1>5 DEF Holding
<1>8. b \notin Listed /\ closed[b] = 0 /\ \A u \in Threads \ {t} : ~Holding(u, b)
  BY <1>6, <1>7, WholeParts DEF HandInv
<1>9. G \subseteq {b} BY <1>2
<1>10. /\ G \subseteq Attached \ Listed
       /\ \A c \in G : closed[c] = 0 /\ \A u \in Threads \ {t} : ~Holding(u, c)
  BY <1>6, <1>8, <1>9
<1>11. Recorded BY <1>5, RecordedSame, WholeParts DEF Attached
<1>12. \A c \in Bugs : ~PlaceHolds(w, c) BY <1>4 DEF PlaceHolds
<1>13. /\ Listed \subseteq Listed /\ thread_id' \in [Bugs -> SUBSET Threads]
       /\ \A c2 \in Attached : thread_id'[c2] \subseteq thread_id[c2]
       /\ locked' \subseteq locked /\ pruned' = pruned /\ ready' \subseteq ready
       /\ tapOnly' \in BOOLEAN /\ kind' = kind
       /\ Falls(Listed, head', next') /\ next' \in [Bugs -> Attached \cup {NULL}]
  BY <1>5, WholeParts
<1>14. WholeInv' /\ Fewer /\ Listed' = Listed /\ StepOf(t, w, G)
  BY <1>4, <1>5, <1>10, <1>11, <1>12, <1>13, ListStep
<1>15. ASSUME NoDrop PROVE NoDrop'
  <2>1. b \in taken' \/ b \in G
    <3>1. b \in locked => b \in taken' BY <1>5, WholeParts
    <3>2. Mine(t, b) BY <1>1, <1>5, WholeParts DEF HistInv
    <3> QED BY <1>2, <3>1, <3>2
  <2>2. \A c \in Attached : Holding(t, c) => c \in taken' \cup spared' \/ c \in G
    BY <1>1, <2>1 DEF Holding
  <2> QED BY <1>14, <1>15, <2>2, DropStep, WholeParts
<1> QED BY <1>14, <1>15 DEF Kept

\* switch_core_media_bug_remove_callback: one loop takes all its bugs out.
LEMMA KeepRemoveCallback ==
    ASSUME WholeInv, NEW t \in Threads, NEW k \in Kinds, RemoveCallback(t, k)
    PROVE  Kept /\ Fewer
<1>1. PICK out : out = {b \in Listed \cap ready : kind[b] = k /\ Mine(t, b)} OBVIOUS
<1>2. PICK w : w = Idle OBVIOUS
<1>3. w \in BugUser /\ w.pc = "idle" BY <1>2, PlaceTyped DEF Idle
<1>4. /\ user[t] = w /\ user' = user /\ head' = After(out, head)
      /\ next' = [b \in Bugs |-> IF b \in Listed \ out THEN After(out, next[b]) ELSE next[b]]
      /\ Closing(out \ locked) /\ ready' = ready \ (out \ locked)
      /\ UNCHANGED <<kind, thread_id, locked, pruned, tapOnly, taken, spared, crossed, overtaken, stale>>
  BY <1>1, <1>2 DEF RemoveCallback, flags, drops, races
<1>5. user' = [user EXCEPT ![t] = w] BY <1>4, WholeParts
<1>6. out \subseteq Listed BY <1>1
<1>7. MaxBugs \in Nat /\ Listed \subseteq 1 .. MaxBugs /\ Falls(Listed, head, next)
  BY BugAssumption, WholeParts DEF Bugs
<1>8. Falls(Listed \ out, head', next')
  <2>1. IsLoop(Steps(out, head), MaxBugs, out, head, next) BY StepsAre
  <2>2. PICK g : g = Steps(out, head) OBVIOUS
  <2>3. head' = g[MaxBugs] /\ IsLoop(g, MaxBugs, out, head, next) BY <1>4, <2>1, <2>2 DEF After
  <2>4. ASSUME NEW b \in Listed \ out
        PROVE  \E f : IsLoop(f, MaxBugs, out, next[b], next) /\ next'[b] = f[MaxBugs]
    <3>1. IsLoop(Steps(out, next[b]), MaxBugs, out, next[b], next) BY StepsAre
    <3>2. b \in Bugs BY WholeParts
    <3>3. next'[b] = After(out, next[b]) BY <1>4, <3>2
    <3>4. PICK f : f = Steps(out, next[b]) OBVIOUS
    <3>5. IsLoop(f, MaxBugs, out, next[b], next) /\ next'[b] = f[MaxBugs]
      BY <3>1, <3>3, <3>4 DEF After
    <3> QED BY <3>5
  <2> QED BY <1>6, <1>7, <2>3, <2>4, PassFalls
<1>9. next' \in [Bugs -> Attached \cup {NULL}]
  <2>1. \A b \in Listed \ out : next'[b] \in Attached \cup {NULL}
    BY <1>8, WholeParts DEF Falls
  <2>2. \A b \in Bugs \ (Listed \ out) : next'[b] = next[b] BY <1>4
  <2>3. \A b \in Bugs : next'[b] \in Attached \cup {NULL} BY <2>1, <2>2, WholeParts
  <2>4. DOMAIN next' = Bugs /\ next' = [b \in Bugs |-> next'[b]] BY <1>4
  <2> QED BY <2>3, <2>4
<1>10. Recorded BY <1>4, RecordedSame, WholeParts DEF Attached
<1>11. /\ out \ locked \subseteq Attached \ (Listed \ out)
       /\ \A c \in out \ locked : closed[c] = 0 /\ \A u \in Threads \ {t} : ~Holding(u, c)
  BY <1>6, ListedUntouched
<1>12. \A c \in Bugs : ~PlaceHolds(w, c) BY <1>3 DEF PlaceHolds
<1>13. /\ Listed \ out \subseteq Listed /\ thread_id' \in [Bugs -> SUBSET Threads]
       /\ \A c2 \in Attached : thread_id'[c2] \subseteq thread_id[c2]
       /\ locked' \subseteq locked /\ pruned' = pruned /\ ready' \subseteq ready
       /\ tapOnly' \in BOOLEAN /\ kind' = kind
  BY <1>4, WholeParts
<1>14. WholeInv' /\ Fewer /\ Listed' = Listed \ out /\ StepOf(t, w, out \ locked)
  <2>1. PICK G : G = out \ locked OBVIOUS
  <2>2. PICK L2 : L2 = Listed \ out OBVIOUS
  <2>3. /\ G \subseteq Attached \ L2 /\ Closing(G) /\ L2 \subseteq Listed /\ Falls(L2, head', next')
        /\ \A c \in G : closed[c] = 0 /\ \A u \in Threads \ {t} : ~Holding(u, c)
    BY <1>4, <1>8, <1>11, <2>1, <2>2
  <2>4. WholeInv' /\ Fewer /\ Listed' = L2 /\ StepOf(t, w, G)
    BY <1>3, <1>5, <1>9, <1>10, <1>12, <1>13, <2>3, ListStep
  <2> QED BY <2>1, <2>2, <2>4
<1>15. ASSUME NoDrop PROVE NoDrop'
  <2>1. \A c \in Listed \ Listed' : c \in taken' \cup spared' \/ c \in out \ locked
    BY <1>4, <1>14, WholeParts
  <2>2. \A c \in Attached : ~Holding(t, c) BY <1>3, <1>4 DEF Holding
  <2> QED BY <1>14, <1>15, <2>1, <2>2, DropStep, WholeParts
<1> QED BY <1>14, <1>15 DEF Kept

\* switch_core_media_bug_remove_all_function, for no function or for one: what
\* it does not close, it spares.
LEMMA KeepRemoveAllFunction ==
    ASSUME WholeInv, NEW t \in Threads, NEW K \in FunctionSets, RemoveAllFunction(t, K)
    PROVE  Kept /\ Fewer
<1>1. PICK G : G = {b \in Listed : kind[b] \in K /\ Mine(t, b) /\ b \notin locked} OBVIOUS
<1>2. PICK w : w = Idle OBVIOUS
<1>3. w \in BugUser /\ w.pc = "idle" BY <1>2, PlaceTyped DEF Idle
<1>4. /\ user[t] = w /\ user' = user /\ head' = NULL /\ Closing(G)
      /\ spared' = spared \cup (Listed \ G)
      /\ UNCHANGED <<next, kind, thread_id, locked, pruned, ready, tapOnly,
                     taken, crossed, overtaken, stale>>
  BY <1>1, <1>2 DEF RemoveAllFunction, flags, races
<1>5. user' = [user EXCEPT ![t] = w] BY <1>4, WholeParts
<1>6. Falls({}, head', next') BY <1>4 DEF Falls
<1>7. Recorded
  <2>1. Attached' = Attached BY <1>4 DEF Attached
  <2> QED BY <1>4, <2>1, WholeParts DEF Recorded
<1>8. /\ G \subseteq Attached \ {}
      /\ \A c \in G : closed[c] = 0 /\ \A u \in Threads \ {t} : ~Holding(u, c)
  BY <1>1, ListedUntouched
<1>9. \A c \in Bugs : ~PlaceHolds(w, c) BY <1>3 DEF PlaceHolds
<1>10. /\ {} \subseteq Listed /\ thread_id' \in [Bugs -> SUBSET Threads]
       /\ \A c2 \in Attached : thread_id'[c2] \subseteq thread_id[c2]
       /\ locked' \subseteq locked /\ pruned' = pruned /\ ready' \subseteq ready
       /\ tapOnly' \in BOOLEAN /\ kind' = kind /\ next' \in [Bugs -> Attached \cup {NULL}]
  BY <1>4, WholeParts
<1>11. WholeInv' /\ Fewer /\ Listed' = {} /\ StepOf(t, w, G)
  <2>1. PICK L2 : L2 = {} OBVIOUS
  <2>2. /\ G \subseteq Attached \ L2 /\ Closing(G) /\ L2 \subseteq Listed /\ Falls(L2, head', next')
        /\ \A c \in G : closed[c] = 0 /\ \A u \in Threads \ {t} : ~Holding(u, c)
    BY <1>4, <1>6, <1>8, <2>1
  <2>3. WholeInv' /\ Fewer /\ Listed' = L2 /\ StepOf(t, w, G)
    BY <1>3, <1>5, <1>7, <1>9, <1>10, <2>2, ListStep
  <2> QED BY <2>1, <2>3
<1>12. ASSUME NoDrop PROVE NoDrop'
  <2>1. \A c \in Listed \ Listed' : c \in taken' \cup spared' \/ c \in G BY <1>4
  <2>2. \A c \in Attached : ~Holding(t, c) BY <1>3, <1>4 DEF Holding
  <2> QED BY <1>11, <1>12, <2>1, <2>2, DropStep, WholeParts
<1> QED BY <1>11, <1>12 DEF Kept

\* One pass of prune.  A last that is left from an earlier pass is replaced by
\* the loop before it is used, unless the loop stops at the head.
LEMMA KeepPruneScan ==
    ASSUME WholeInv, NEW t \in Threads, PruneScan(t), ~misled'
    PROVE  Kept /\ Fewer
<1>1. PICK b : b = Walk[Stop(pruned)] OBVIOUS
<1>2. PICK last : last = LastAt(Stop(pruned), user[t].last) OBVIOUS
<1>3. /\ user[t].pc = "prune"
      /\ UNCHANGED <<kind, thread_id, locked, pruned, ready, closed, tapOnly,
                     taken, spared, crossed, overtaken, stale>>
  BY DEF PruneScan, flags, drops, races
<1>r. Recorded BY <1>3, RecordedSame, WholeParts DEF Attached
<1>4. CASE b = NULL
  <2>1. PICK w : w = Idle OBVIOUS
  <2>2. w \in BugUser /\ w.pc = "idle" BY <2>1, PlaceTyped DEF Idle
  <2>3. user' = [user EXCEPT ![t] = w] /\ UNCHANGED <<head, next>>
    BY <1>1, <1>4, <2>1 DEF PruneScan, Goto
  <2> QED BY <1>3, <1>r, <2>2, <2>3, QuietStep, WholeParts DEF Kept
<1>5. CASE b # NULL
  <2>1. PICK w : w = [pc |-> "prune_close", last |-> last, bug |-> b] OBVIOUS
  <2>2. Unlink(last, b) /\ user' = [user EXCEPT ![t] = w]
    BY <1>1, <1>2, <1>5, <2>1 DEF PruneScan, Goto
  <2>3. /\ b \in (Listed \cap pruned) \cup {NULL}
        /\ \/ Stop(pruned) = 0 /\ last = user[t].last /\ head = b
           \/ last \in Listed \ pruned /\ next[last] = b
    BY <1>1, <1>2, StopIs, WholeParts
  <2>4. b \in Listed \cap pruned BY <1>5, <2>3
  <2>5. ~(Stop(pruned) = 0 /\ last # NULL)
    BY <1>1, <1>2, <1>5 DEF PruneScan
  <2>6. \/ last = NULL /\ head = b
        \/ last \in Listed /\ next[last] = b
    BY <2>3, <2>5
  <2>7. Falls(Listed \ {b}, head', next') /\ next' \in [Bugs -> Attached \cup {NULL}]
    BY <2>2, <2>4, <2>6, UnlinkTyped
  <2>8. last \in Attached \cup {NULL} /\ b \in Attached BY <2>4, <2>6, WholeParts
  <2>9. w \in BugUser /\ w.pc = "prune_close" /\ w.bug = b /\ w.last = last
    BY <2>1, <2>8, PlaceTyped
  <2>11. w.pc # "close" BY <2>9
  <2>12. Closing({}) BY <1>3, ClosingNone, WholeParts
  <2>13. \A c \in Bugs : PlaceHolds(w, c) =>
              /\ c \notin (Listed \ {b}) \cup {} /\ closed[c] = 0
              /\ \A u \in Threads \ {t} : ~Holding(u, c)
    BY <2>4, <2>9, ListedUntouched DEF PlaceHolds
  <2>14. /\ Listed \ {b} \subseteq Listed /\ thread_id' \in [Bugs -> SUBSET Threads]
         /\ \A c2 \in Attached : thread_id'[c2] \subseteq thread_id[c2]
         /\ locked' \subseteq locked /\ pruned' = pruned /\ ready' \subseteq ready
         /\ tapOnly' \in BOOLEAN /\ kind' = kind
    BY <1>3, WholeParts
  <2>15. WholeInv' /\ Fewer /\ Listed' = Listed \ {b} /\ StepOf(t, w, {})
    BY <1>r, <2>2, <2>7, <2>9, <2>11, <2>12, <2>13, <2>14, ListStep
  <2>16. ASSUME NoDrop PROVE NoDrop'
    <3>1. \A c \in Listed \ Listed' : PlaceHolds(w, c) BY <2>9, <2>15 DEF PlaceHolds
    <3>2. \A c \in Attached : ~Holding(t, c) BY <1>3 DEF Holding
    <3> QED BY <2>15, <2>16, <3>1, <3>2, DropStep, WholeParts
  <2> QED BY <2>15, <2>16 DEF Kept
<1> QED BY <1>4, <1>5

\* The close after the pass.
LEMMA KeepPruneClose ==
    ASSUME WholeInv, NEW t \in Threads, PruneClose(t)
    PROVE  Kept /\ Fewer
<1>1. PICK b : b = user[t].bug OBVIOUS
<1>2. PICK w : w = [pc |-> "prune", last |-> user[t].last] OBVIOUS
<1>3. /\ user[t].pc = "prune_close" /\ user' = [user EXCEPT ![t] = w] /\ Closing({b})
      /\ locked' = locked \ {b} /\ thread_id' = [thread_id EXCEPT ![b] = {}] /\ ready' = ready \ {b}
      /\ UNCHANGED <<head, next, kind, pruned, tapOnly, taken, spared, crossed, overtaken, stale>>
  BY <1>1, <1>2 DEF PruneClose, Goto, drops, races
<1>4. Holding(t, b) BY <1>1, <1>3 DEF Holding
<1>5. user[t].last \in Attached \cup {NULL} /\ b \in Attached /\ b \in Bugs
  BY <1>1, <1>3, <1>4, UserIs, WholeParts
<1>6. w \in BugUser /\ w.pc = "prune" /\ w.last = user[t].last BY <1>2, <1>5, PlaceTyped
<1>7. b \notin Listed /\ closed[b] = 0 /\ \A u \in Threads \ {t} : ~Holding(u, b)
  BY <1>4, <1>5, WholeParts DEF HandInv
<1>9. Recorded BY <1>3, RecordedSame, WholeParts DEF Attached
<1>10. /\ {b} \subseteq Attached \ Listed
       /\ \A c \in {b} : closed[c] = 0 /\ \A u \in Threads \ {t} : ~Holding(u, c)
  BY <1>5, <1>7
<1>11. \A c \in Bugs : ~PlaceHolds(w, c) BY <1>6 DEF PlaceHolds
<1>12. /\ thread_id' \in [Bugs -> SUBSET Threads]
       /\ \A c2 \in Attached : thread_id'[c2] \subseteq thread_id[c2]
  BY <1>3, WholeParts
<1>13. /\ Listed \subseteq Listed
       /\ locked' \subseteq locked /\ pruned' = pruned /\ ready' \subseteq ready
       /\ tapOnly' \in BOOLEAN /\ kind' = kind
       /\ Falls(Listed, head', next') /\ next' \in [Bugs -> Attached \cup {NULL}]
  BY <1>3, WholeParts
<1>14. WholeInv' /\ Fewer /\ Listed' = Listed /\ StepOf(t, w, {b})
  BY <1>3, <1>6, <1>9, <1>10, <1>11, <1>12, <1>13, ListStep
<1>15. ASSUME NoDrop PROVE NoDrop'
  <2>1. \A c \in Attached : Holding(t, c) => c \in {b} BY <1>1 DEF Holding
  <2> QED BY <1>14, <1>15, <2>1, DropStep, WholeParts
<1> QED BY <1>14, <1>15 DEF Kept

\* The insertion, of a bug with the next number.
LEMMA KeepAddInsert ==
    ASSUME WholeInv, NEW t \in Threads, AddInsert(t)
    PROVE  Kept /\ Listed' = Listed \cup {Cardinality(Attached) + 1}
<1>1. PICK new : new = Cardinality(Attached) + 1 OBVIOUS
<1>2. PICK k : k = user[t].kind OBVIOUS
<1>3. PICK x : x = TapAfter(k) OBVIOUS
<1>4. PICK w : w = [pc |-> "tap", tap |-> x] OBVIOUS
<1>5. /\ user[t].pc = "add" /\ Cardinality(Attached) < MaxBugs
      /\ head' = new /\ next' = [next EXCEPT ![new] = head]
      /\ kind' = [b \in Attached \cup {new} |-> IF b = new THEN k ELSE kind[b]]
      /\ thread_id' = [thread_id EXCEPT ![new] = IF k \in ThreadLocked THEN {t} ELSE {}]
      /\ ready' = ready \cup {new} /\ user' = [user EXCEPT ![t] = w]
      /\ crossed' \subseteq crossed \cup {k} /\ overtaken' = overtaken \cup At("tap")
      /\ UNCHANGED <<locked, pruned, closed, tapOnly, taken, spared, stale>>
  BY <1>1, <1>2, <1>3, <1>4 DEF AddInsert, Insert, Goto, drops
<1>6. x \in BOOLEAN BY <1>3 DEF TapAfter
<1>7. k \in Kinds BY <1>2, <1>5, UserIs, WholeParts
<1>8. PICK n : n = Cardinality(Attached) OBVIOUS
<1>9. n \in 0 .. MaxBugs /\ Attached = 1 .. n /\ kind \in [Attached -> Kinds] BY <1>8, Numbers, WholeParts
<1>10. n \in Nat /\ new = n + 1 /\ n + 1 \in 0 .. MaxBugs /\ new \in Bugs /\ new # 0 /\ new \notin Attached
  <2>1. n \in Nat /\ MaxBugs \in Nat /\ new = n + 1 /\ n < MaxBugs BY <1>1, <1>5, <1>8, <1>9, BugAssumption
  <2>2. n + 1 \in 1 .. MaxBugs /\ n + 1 \notin 1 .. n /\ n + 1 \in 0 .. MaxBugs /\ n + 1 # 0 BY <2>1
  <2> QED BY <1>9, <2>1, <2>2 DEF Bugs
<1>11. Attached' = Attached \cup {new} BY <1>5 DEF Attached
<1>12. Attached' = 1 .. n + 1 BY <1>9, <1>10, <1>11
<1>13. Falls(Listed \cup {new}, head', next')
  <2>1. Bugs \subseteq Nat BY DEF Bugs
  <2>2. \A b \in Listed : b < new BY <1>9, <1>10, WholeParts
  <2>3. PICK ran : ran = Attached \cup {NULL} OBVIOUS
  <2>4. next \in [Bugs -> ran] /\ Listed \subseteq Bugs /\ Falls(Listed, head, next) BY <2>3, WholeParts
  <2>5. Falls(Listed \cup {new}, new, [next EXCEPT ![new] = head])
    BY <1>10, <2>1, <2>2, <2>4, InsertFalls
  <2> QED BY <1>5, <2>5
<1>14. Listed' = Listed \cup {new}
  <2>1. Listed \cup {new} \subseteq Bugs BY <1>10, WholeParts
  <2> QED BY <1>13, <2>1, ListedIsNext
<1>15. BugTyped'
  <2>1. kind' \in [1 .. n + 1 -> Kinds] BY <1>5, <1>7, <1>9, <1>10, <1>11, <1>12
  <2>2. \E m \in 0 .. MaxBugs : kind' \in [1 .. m -> Kinds] BY <1>10, <2>1
  <2>3. head' \in Attached' \cup {NULL} BY <1>5, <1>11
  <2>4. next' \in [Bugs -> Attached' \cup {NULL}]
    <3>1. head \in Attached \cup {NULL} BY WholeParts DEF BugTyped
    <3> QED BY <1>5, <1>11, <3>1, WholeParts
  <2>5. thread_id' \in [Bugs -> SUBSET Threads] BY <1>5, WholeParts
  <2>6. locked' \cup pruned' \cup ready' \subseteq Attached' BY <1>5, <1>11, WholeParts
  <2>7. closed' \in [Bugs -> 0 .. 2] /\ tapOnly' \in BOOLEAN BY <1>5, WholeParts
  <2>8. w \in BugUser'
    <3>1. w \in [pc : {"tap"}, tap : BOOLEAN] BY <1>4, <1>6
    <3> QED BY <3>1 DEF BugUser
  <2>9. user' \in [Threads -> BugUser'] BY <1>5, <1>11, <2>8, GotoTyped, WholeParts
  <2> QED BY <2>2, <2>3, <2>4, <2>5, <2>6, <2>7, <2>9 DEF BugTyped, NULL
<1>16. IsList(Listed)'
  <2>1. Listed' \subseteq Attached' BY <1>11, <1>14, WholeParts
  <2>2. Falls(Listed', head', next') BY <1>13, <1>14
  <2> QED BY <2>1, <2>2 DEF IsList, Falls, NULL
<1>17. w.pc = "tap" BY <1>4
<1>18. Closing({}) BY <1>5, ClosingNone, WholeParts
<1>r. Recorded
  <2>1. crossed' \subseteq Kinds BY <1>5, <1>7, WholeParts
  <2>2. overtaken' \subseteq Threads BY <1>5, WholeParts DEF At
  <2> QED BY <1>5, <1>11, <2>1, <2>2, WholeParts DEF Recorded
<1>19. StepOf(t, w, {})
  <2>1. \A b \in Attached : kind'[b] = kind[b] BY <1>5, <1>10
  <2> QED BY <1>5, <1>11, <1>14, <1>18, <1>r, <2>1 DEF StepOf, Recorded
<1>20. \A b \in Bugs : ~PlaceHolds(w, b) BY <1>17 DEF PlaceHolds
<1>21. HandInv'
  <2>1. \A b \in Listed' \ Listed : b \notin Attached BY <1>10, <1>14
  <2>2. Listed' \subseteq Attached' BY <1>11, <1>14, WholeParts
  <2> QED BY <1>19, <1>20, <2>1, <2>2, HandStep, WholeParts
<1>23. HistInv'
  <2>1. \A b \in Attached : thread_id'[b] \subseteq thread_id[b] BY <1>5, <1>10, WholeParts
  <2> QED BY <1>5, <1>17, <1>r, <2>1, HistStep, WholeParts
<1>24. ASSUME NoDrop PROVE NoDrop'
  <2>1. \A b \in Attached : ~Holding(t, b) BY <1>5 DEF Holding
  <2>2. \A b \in Listed \ Listed' : FALSE BY <1>14
  <2> QED BY <1>19, <1>24, <2>1, <2>2, DropStep, WholeParts
<1> QED BY <1>1, <1>14, <1>15, <1>16, <1>21, <1>23, <1>24 DEF WholeInv, Kept

\* The invariant holds at the start
LEMMA BugStart == BugInit => WholeInv /\ NoDrop
<1> SUFFICES ASSUME BugInit PROVE WholeInv /\ NoDrop OBVIOUS
<1>1. /\ head = NULL /\ next = [b \in Bugs |-> NULL] /\ kind = [b \in {} |-> NULL]
      /\ thread_id = [b \in Bugs |-> {}] /\ locked = {} /\ pruned = {} /\ ready = {}
      /\ closed = [b \in Bugs |-> 0] /\ tapOnly = FALSE /\ user = [t \in Threads |-> Idle]
      /\ taken = {} /\ spared = {} /\ crossed = {} /\ overtaken = {} /\ stale = FALSE
  BY DEF BugInit
<1>2. Attached = {} BY <1>1 DEF Attached
<1>3. Falls({}, head, next) BY <1>1 DEF Falls
<1>4. {} \subseteq Bugs OBVIOUS
<1>5. Listed = {} BY <1>3, <1>4, ListedIs
<1>6. IsList(Listed) BY <1>2, <1>3, <1>5 DEF IsList
<1>7. BugTyped
  <2>1. 1 .. 0 = {} /\ 0 \in 0 .. MaxBugs BY BugAssumption
  <2>2. kind \in [1 .. 0 -> Kinds] BY <1>1, <2>1
  <2>3. \E n \in 0 .. MaxBugs : kind \in [1 .. n -> Kinds] BY <2>1, <2>2
  <2>4. user \in [Threads -> BugUser] BY <1>1, PlaceTyped
  <2>5. /\ head \in Attached \cup {NULL} /\ next \in [Bugs -> Attached \cup {NULL}]
        /\ thread_id \in [Bugs -> SUBSET Threads] /\ locked \cup pruned \cup ready \subseteq Attached
        /\ closed \in [Bugs -> 0 .. 2] /\ tapOnly \in BOOLEAN
    <3>1. next \in [Bugs -> Attached \cup {NULL}] /\ thread_id \in [Bugs -> SUBSET Threads] BY <1>1
    <3>2. closed \in [Bugs -> 0 .. 2] BY <1>1
    <3> QED BY <1>1, <3>1, <3>2
  <2> QED BY <2>3, <2>4, <2>5 DEF BugTyped
<1>8. \A t \in Threads : user[t].pc = "idle" BY <1>1 DEF Idle
<1>10. HandInv
  <2>1. \A b \in Bugs : closed[b] = 0 BY <1>1
  <2>2. \A b \in Bugs, t \in Threads : ~Holding(t, b) BY <1>8 DEF Holding
  <2> QED BY <2>1, <2>2 DEF HandInv
<1>11. HistInv BY <1>1, <1>2, <1>8 DEF HistInv
<1>12. NoDrop BY <1>2 DEF NoDrop
<1> QED BY <1>6, <1>7, <1>10, <1>11, <1>12 DEF WholeInv

\* and every step keeps it, but the one that misleads prune.
LEMMA BugStep ==
    ASSUME WholeInv, [BugNext]_bugs, ~misled'
    PROVE  Kept
<1>1. CASE UNCHANGED bugs
  <2>1. UNCHANGED <<head, next, kind, thread_id, locked, pruned, ready, closed, tapOnly, user,
                    taken, spared, crossed, overtaken, stale>>
    BY <1>1 DEF bugs, flags, drops, races
  <2>2. Listed' = Listed /\ Attached' = Attached BY <2>1, ListedStays DEF Attached
  <2>3. BugTyped' BY <2>1, WholeParts DEF BugTyped, BugUser, Attached, Idle, NULL
  <2>4. IsList(Listed)' BY <2>1, <2>2, WholeParts DEF IsList, Falls, NULL
  <2>5. HandInv' BY <2>1, <2>2, WholeParts DEF HandInv, Holding
  <2>6. HistInv' BY <2>1, <2>2, WholeParts DEF HistInv, Mine
  <2>7. NoDrop => NoDrop' BY <2>1, <2>2 DEF NoDrop, Holding
  <2> QED BY <2>3, <2>4, <2>5, <2>6, <2>7 DEF WholeInv, Kept
<1>2. ASSUME NEW t \in Threads, NEW k \in Kinds, AddCheck(t, k) \/ RemoveCallback(t, k) \/ Pop(t, k)
      PROVE  Kept
  BY <1>2, KeepAddCheck, KeepRemoveCallback, KeepPop
<1>3. ASSUME NEW t \in Threads, NEW b \in Attached,
             RemoveCheck(t, b) \/ \E setFlag \in BOOLEAN : Flag(t, b, setFlag)
      PROVE  Kept
  BY <1>3, KeepRemoveCheck, KeepFlag
<1>4. ASSUME NEW t \in Threads, NEW K \in FunctionSets, RemoveAllFunction(t, K)
      PROVE  Kept
  BY <1>4, KeepRemoveAllFunction
<1>5. ASSUME NEW t \in Threads,
             \/ AddRefused(t) \/ AddInsert(t) \/ AddTap(t) \/ RemoveUnlink(t) \/ Close(t)
             \/ PopFlag(t) \/ Prune(t) \/ PruneScan(t) \/ PruneClose(t)
      PROVE  Kept
  BY <1>5, KeepAddRefused, KeepAddInsert, KeepAddTap, KeepRemoveUnlink, KeepClose,
     KeepPopFlag, KeepPrune, KeepPruneScan, KeepPruneClose
<1> QED BY <1>1, <1>2, <1>3, <1>4, <1>5, Zenon DEF BugNext

\* Once misled, prune stays so.
LEMMA MisledStays ==
    ASSUME misled, [BugNext]_bugs
    PROVE  misled'
<1>1. CASE UNCHANGED bugs BY <1>1 DEF bugs
<1>2. ASSUME NEW t \in Threads, NEW k \in Kinds, AddCheck(t, k) \/ RemoveCallback(t, k) \/ Pop(t, k)
      PROVE  misled'
  BY <1>2 DEF AddCheck, RemoveCallback, Pop
<1>3. ASSUME NEW t \in Threads, NEW b \in Attached,
             RemoveCheck(t, b) \/ \E setFlag \in BOOLEAN : Flag(t, b, setFlag)
      PROVE  misled'
  BY <1>3 DEF RemoveCheck, Flag
<1>4. ASSUME NEW t \in Threads, NEW K \in FunctionSets, RemoveAllFunction(t, K)
      PROVE  misled'
  BY <1>4 DEF RemoveAllFunction
<1>5. ASSUME NEW t \in Threads,
             \/ AddRefused(t) \/ AddInsert(t) \/ AddTap(t) \/ RemoveUnlink(t) \/ Close(t)
             \/ PopFlag(t) \/ Prune(t) \/ PruneClose(t)
      PROVE  misled'
  BY <1>5 DEF AddRefused, AddInsert, AddTap, RemoveUnlink, Close, PopFlag, Prune, PruneClose
<1>6. ASSUME NEW t \in Threads, PruneScan(t) PROVE misled'
  BY <1>6 DEF PruneScan
<1> QED BY <1>1, <1>2, <1>3, <1>4, <1>5, <1>6, Zenon DEF BugNext

\* The invariant of the list, whatever threads do at once.
LEMMA BugInvariance == BugSpec => [](misled \/ (WholeInv /\ NoDrop))
<1>1. BugInit => WholeInv /\ NoDrop BY BugStart
<1>2. (misled \/ (WholeInv /\ NoDrop)) /\ [BugNext]_bugs => (misled \/ (WholeInv /\ NoDrop))'
  BY BugStep, MisledStays DEF Kept
<1> QED BY <1>1, <1>2, PTL DEF BugSpec

\* Whatever threads do at once, and until a pass of prune unlinks the head by way
\* of a last that is left over, the pointers of the list are those of bugs that
\* were added and the list has an end, for any number of threads, kinds and bugs.
THEOREM BugTypeCorrect == BugSpec => []BugTypeOK
<1>1. WholeInv => BugTypeOK
  <2> SUFFICES ASSUME WholeInv PROVE BugTypeOK OBVIOUS
  <2>1. Ends BY ListedIs, WholeParts
  <2>2. locked \cup pruned \cup ready \cup taken \cup spared \subseteq Attached BY WholeParts
  <2> QED BY <2>1, <2>2, WholeParts DEF BugTyped, BugTypeOK
<1>2. misled => BugTypeOK BY DEF BugTypeOK
<1> QED BY <1>1, <1>2, BugInvariance, PTL

\* The CLOSE callback of a bug runs once, whichever of remove, close,
\* remove_callback, remove_all_function and several prunes race for it, and a bug
\* in the list has not been closed: unless a pass of prune has unlinked the head
\* by way of a last that is left over.
THEOREM BugClosedOnce == BugSpec => []ClosedOnce
<1>1. WholeInv => ClosedOnce
  <2> SUFFICES ASSUME WholeInv PROVE ClosedOnce OBVIOUS
  <2>1. \A b \in Bugs : closed[b] <= 1 BY WholeParts DEF HandInv
  <2>2. \A b \in Listed : closed[b] = 0 BY ListedUntouched
  <2> QED BY <2>1, <2>2 DEF ClosedOnce
<1>2. misled => ClosedOnce BY DEF ClosedOnce
<1> QED BY <1>1, <1>2, BugInvariance, PTL

\* No bug leaves the list without its CLOSE callback, but what a pop has locked
\* and what remove_all_function leaves unclosed in the list that it empties: no
\* race of two removals, two prunes or a removal and a prune loses one.
THEOREM NoBugDropped == BugSpec => []NoneDropped
<1>1. NoDrop => NoneDropped BY DEF NoDrop, NoneDropped, Holding
<1>2. misled => NoneDropped BY DEF NoneDropped
<1> QED BY <1>1, <1>2, BugInvariance, PTL

-----------------------------------------------------------------------------
(* Media bugs: what the threads that add them have seen *)

\* A step that adds none, by a thread that does not set the tap flag.
LEMMA SeenFewer ==
    ASSUME WholeInv, SeenInv, Fewer, NEW t \in Threads, NEW w, user' = [user EXCEPT ![t] = w],
           w.pc \notin {"add", "tap"}, user[t].pc # "tap", tapOnly' /\ ~stale' => tapOnly /\ ~stale,
           crossed' = crossed, overtaken' = overtaken
    PROVE  SeenInv'
<1>1. \A u \in Threads : user'[u] = IF u = t THEN w ELSE user[u] BY WholeParts
<1>2. \A u \in Threads : user'[u].pc \in {"add", "tap"} => u # t /\ user'[u] = user[u] BY <1>1
<1>3. \A b, c \in Listed' : kind'[b] = kind'[c] /\ kind'[b] \in OneOnly \ crossed' => b = c
  BY DEF SeenInv, Fewer
<1>4. \A u \in Threads : user'[u].pc = "add" /\ user'[u].kind \in OneOnly \ crossed' =>
        \A b \in Listed' : kind'[b] # user'[u].kind
  BY <1>2 DEF SeenInv, Fewer
<1>5. \A u \in Threads : user'[u].pc = "tap" /\ user'[u].tap /\ u \notin overtaken' =>
        \A b \in Listed' \cap ready' : kind'[b] \in Native
  BY <1>2 DEF SeenInv, Fewer
<1>6. ASSUME tapOnly', ~stale', \A u \in Threads : user'[u].pc # "tap"
      PROVE  \A b \in Listed' \cap ready' : kind'[b] \in Native
  <2>1. \A u \in Threads : user[u].pc # "tap" BY <1>1, <1>6
  <2>2. \A b \in Listed \cap ready : kind[b] \in Native BY <1>6, <2>1 DEF SeenInv
  <2> QED BY <2>2 DEF Fewer
<1> QED BY <1>3, <1>4, <1>5, <1>6 DEF SeenInv

\* AddCheck sees that no bug of the function is in the list.
LEMMA SeenAddCheck ==
    ASSUME WholeInv, SeenInv, NEW t \in Threads, NEW k \in Kinds, AddCheck(t, k)
    PROVE  SeenInv'
<1>1. PICK w : w = [pc |-> "add", kind |-> k] OBVIOUS
<1>2. /\ user' = [user EXCEPT ![t] = w] /\ user[t].pc = "idle"
      /\ k \in OneOnly => \A b \in Listed : kind[b] # k
      /\ UNCHANGED <<head, next, kind, ready, tapOnly, crossed, overtaken, stale>>
  BY <1>1 DEF AddCheck, Goto, Idle, races
<1>3. Listed' = Listed BY <1>2, ListedStays
<1>4. \A u \in Threads : user'[u] = IF u = t THEN w ELSE user[u] BY <1>2, WholeParts
<1>5. w.pc = "add" /\ w.kind = k BY <1>1
<1>6. \A b, c \in Listed' : kind'[b] = kind'[c] /\ kind'[b] \in OneOnly \ crossed' => b = c
  BY <1>2, <1>3 DEF SeenInv
<1>7. \A u \in Threads : user'[u].pc = "add" /\ user'[u].kind \in OneOnly \ crossed' =>
        \A b \in Listed' : kind'[b] # user'[u].kind
  BY <1>2, <1>3, <1>4, <1>5 DEF SeenInv
<1>8. \A u \in Threads : user'[u].pc = "tap" => user[u].pc = "tap" /\ user'[u] = user[u] BY <1>4, <1>5
<1>9. \A u \in Threads : user'[u].pc = "tap" /\ user'[u].tap /\ u \notin overtaken' =>
        \A b \in Listed' \cap ready' : kind'[b] \in Native
  BY <1>2, <1>3, <1>8 DEF SeenInv
<1>10. ASSUME tapOnly', ~stale', \A u \in Threads : user'[u].pc # "tap"
       PROVE  \A b \in Listed' \cap ready' : kind'[b] \in Native
  <2>1. \A u \in Threads : user[u].pc # "tap" BY <1>2, <1>4, <1>10
  <2> QED BY <1>2, <1>3, <1>10, <2>1 DEF SeenInv
<1> QED BY <1>6, <1>7, <1>9, <1>10 DEF SeenInv

\* AddTap writes what AddInsert has seen; if no bug was added since, bugs were
\* only removed.
LEMMA SeenAddTap ==
    ASSUME WholeInv, SeenInv, NEW t \in Threads, AddTap(t)
    PROVE  SeenInv'
<1>1. PICK w : w = Idle OBVIOUS
<1>2. /\ user' = [user EXCEPT ![t] = w] /\ user[t].pc = "tap" /\ tapOnly' = user[t].tap
      /\ stale' = (t \in overtaken) /\ overtaken' = overtaken \ {t}
      /\ UNCHANGED <<head, next, kind, ready, crossed>>
  BY <1>1 DEF AddTap, Goto
<1>3. Listed' = Listed BY <1>2, ListedStays
<1>4. \A u \in Threads : user'[u] = IF u = t THEN w ELSE user[u] BY <1>2, WholeParts
<1>5. w.pc = "idle" BY <1>1 DEF Idle
<1>6. \A u \in Threads : user'[u].pc \in {"add", "tap"} => u # t /\ user'[u] = user[u] BY <1>4, <1>5
<1>7. \A b, c \in Listed' : kind'[b] = kind'[c] /\ kind'[b] \in OneOnly \ crossed' => b = c
  BY <1>2, <1>3 DEF SeenInv
<1>8. \A u \in Threads : user'[u].pc = "add" /\ user'[u].kind \in OneOnly \ crossed' =>
        \A b \in Listed' : kind'[b] # user'[u].kind
  BY <1>2, <1>3, <1>6 DEF SeenInv
<1>9. \A u \in Threads : user'[u].pc = "tap" /\ user'[u].tap /\ u \notin overtaken' =>
        \A b \in Listed' \cap ready' : kind'[b] \in Native
  BY <1>2, <1>3, <1>6 DEF SeenInv
<1>10. tapOnly' /\ ~stale' => \A b \in Listed' \cap ready' : kind'[b] \in Native
  BY <1>2, <1>3 DEF SeenInv
<1> QED BY <1>7, <1>8, <1>9, <1>10 DEF SeenInv

\* AddInsert puts in the list what AddCheck allowed, or what has crossed another.
LEMMA SeenAddInsert ==
    ASSUME WholeInv, SeenInv, NEW t \in Threads, AddInsert(t)
    PROVE  SeenInv'
<1>1. PICK new : new = Cardinality(Attached) + 1 OBVIOUS
<1>2. PICK k : k = user[t].kind OBVIOUS
<1>3. PICK w : w = [pc |-> "tap", tap |-> TapAfter(k)] OBVIOUS
<1>4. /\ user[t].pc = "add" /\ user' = [user EXCEPT ![t] = w] /\ ready' = ready \cup {new}
      /\ kind' = [b \in Attached \cup {new} |-> IF b = new THEN k ELSE kind[b]]
      /\ crossed' = crossed \cup ({k} \cap {user[u].kind : u \in At("add") \ {t}})
      /\ overtaken' = overtaken \cup At("tap")
  BY <1>1, <1>2, <1>3 DEF AddInsert, Goto
<1>5. Listed' = Listed \cup {new} BY <1>1, KeepAddInsert
<1>6. new \notin Attached
  <2>1. PICK n : n = Cardinality(Attached) OBVIOUS
  <2>2. n \in 0 .. MaxBugs /\ Attached = 1 .. n BY <2>1, Numbers, WholeParts
  <2>3. n \in Nat /\ new = n + 1 BY <1>1, <2>1, <2>2
  <2> QED BY <2>2, <2>3
<1>7. kind'[new] = k /\ \A b \in Listed : b # new /\ kind'[b] = kind[b] BY <1>4, <1>6, WholeParts
<1>8. \A u \in Threads : user'[u] = IF u = t THEN w ELSE user[u] BY <1>4, WholeParts
<1>9. w.pc = "tap" /\ w.tap = TapAfter(k) BY <1>3
<1>10. crossed \subseteq crossed' /\ \A u \in Threads \ {t} : user[u].pc = "add" /\ user[u].kind = k => k \in crossed'
  BY <1>4 DEF At
<1>11. \A u \in Threads \ {t} : user[u].pc = "tap" => u \in overtaken' BY <1>4 DEF At
<1>12. k \in OneOnly \ crossed' => \A b \in Listed : kind[b] # k BY <1>2, <1>4, <1>10 DEF SeenInv
<1>13. \A b, c \in Listed : kind[b] = kind[c] /\ kind[b] \in OneOnly \ crossed' => b = c
  BY <1>10 DEF SeenInv
<1>14. ASSUME NEW b \in Listed', NEW c \in Listed', kind'[b] = kind'[c], kind'[b] \in OneOnly \ crossed'
       PROVE  b = c
  <2>1. CASE b = new /\ c = new BY <2>1
  <2>2. CASE b \in Listed /\ c \in Listed BY <1>7, <1>13, <1>14, <2>2
  <2>3. CASE b = new /\ c \in Listed BY <1>7, <1>12, <1>14, <2>3
  <2>4. CASE b \in Listed /\ c = new BY <1>7, <1>12, <1>14, <2>4
  <2> QED BY <1>5, <2>1, <2>2, <2>3, <2>4
<1>15. TapAfter(k) => \A b \in Listed' \cap ready' : kind'[b] \in Native
  BY <1>4, <1>5, <1>7 DEF TapAfter
<1>16. user'[t] = w BY <1>8
<1>17. ~(\A u \in Threads : user'[u].pc # "tap") BY <1>9, <1>16
<1>18. ASSUME NEW u \in Threads, user'[u].pc = "add", user'[u].kind \in OneOnly \ crossed', NEW b \in Listed'
       PROVE  kind'[b] # user'[u].kind
  <2>1. u # t /\ user'[u] = user[u] BY <1>8, <1>9, <1>18
  <2>2. user[u].kind # k BY <1>10, <1>18, <2>1
  <2>3. CASE b = new BY <1>7, <2>1, <2>2, <2>3
  <2>4. CASE b \in Listed BY <1>7, <1>10, <1>18, <2>1, <2>4 DEF SeenInv
  <2> QED BY <1>5, <2>3, <2>4
<1>19. ASSUME NEW u \in Threads, user'[u].pc = "tap", user'[u].tap, u \notin overtaken'
       PROVE  \A b \in Listed' \cap ready' : kind'[b] \in Native
  <2>1. u = t BY <1>8, <1>11, <1>19
  <2> QED BY <1>9, <1>15, <1>16, <1>19, <2>1
<1> QED BY <1>14, <1>17, <1>18, <1>19 DEF SeenInv

\* Every step keeps what the threads have seen,
LEMMA SeenStep ==
    ASSUME WholeInv, SeenInv, [BugNext]_bugs, ~misled'
    PROVE  SeenInv'
<1>1. CASE UNCHANGED bugs
  <2>1. UNCHANGED <<head, next, kind, ready, tapOnly, user, crossed, overtaken, stale>>
    BY <1>1 DEF bugs, races
  <2>2. Listed' = Listed BY <2>1, ListedStays
  <2> QED BY <2>1, <2>2 DEF SeenInv
<1>2. ASSUME NEW t \in Threads, Fewer, NEW w, user' = [user EXCEPT ![t] = w],
             w.pc \notin {"add", "tap"}, user[t].pc # "tap", tapOnly' = tapOnly, UNCHANGED races
      PROVE  SeenInv'
  <2>1. UNCHANGED <<crossed, overtaken, stale>> BY <1>2 DEF races
  <2> QED BY <1>2, <2>1, SeenFewer
<1>3. ASSUME NEW t \in Threads, Fewer, user' = user, user[t] = Idle, tapOnly' = tapOnly, UNCHANGED races
      PROVE  SeenInv'
  <2>1. user' = [user EXCEPT ![t] = Idle] BY <1>3, WholeParts
  <2>2. Idle.pc = "idle" BY DEF Idle
  <2> QED BY <1>2, <1>3, <2>1, <2>2
<1>4. ASSUME NEW t \in Threads, NEW k \in Kinds, AddCheck(t, k) \/ RemoveCallback(t, k) \/ Pop(t, k)
      PROVE  SeenInv'
  <2>1. CASE AddCheck(t, k) BY <2>1, SeenAddCheck
  <2>2. CASE RemoveCallback(t, k)
    <3>1. Fewer BY <2>2, KeepRemoveCallback
    <3> QED BY <1>3, <2>2, <3>1 DEF RemoveCallback
  <2>3. CASE Pop(t, k)
    <3>1. Fewer BY <2>3, KeepPop
    <3>2. PICK w : w = [pc |-> "popped", bug |-> Walk[Stop({c \in Listed : kind[c] = k})]] OBVIOUS
    <3>3. /\ user' = [user EXCEPT ![t] = w] /\ w.pc = "popped"
          /\ user[t].pc = "idle" /\ tapOnly' = tapOnly /\ UNCHANGED races
      BY <2>3, <3>2 DEF Pop, Goto, Idle
    <3> QED BY <1>2, <3>1, <3>3
  <2> QED BY <1>4, <2>1, <2>2, <2>3
<1>5. ASSUME NEW t \in Threads, NEW b \in Attached,
             RemoveCheck(t, b) \/ \E setFlag \in BOOLEAN : Flag(t, b, setFlag)
      PROVE  SeenInv'
  <2>1. CASE RemoveCheck(t, b)
    <3>1. Fewer BY <2>1, KeepRemoveCheck
    <3>2. PICK w : w = [pc |-> "remove", bug |-> b] OBVIOUS
    <3>3. /\ user' = [user EXCEPT ![t] = w] /\ w.pc = "remove"
          /\ user[t].pc = "idle" /\ tapOnly' = tapOnly /\ UNCHANGED races
      BY <2>1, <3>2 DEF RemoveCheck, Goto, Idle
    <3> QED BY <1>2, <3>1, <3>3
  <2>2. ASSUME NEW setFlag \in BOOLEAN, Flag(t, b, setFlag) PROVE SeenInv'
    <3>1. Fewer BY <2>2, KeepFlag
    <3> QED BY <1>3, <2>2, <3>1 DEF Flag
  <2> QED BY <1>5, <2>1, <2>2
<1>6. ASSUME NEW t \in Threads, NEW K \in FunctionSets, RemoveAllFunction(t, K) PROVE SeenInv'
  <2>1. Fewer BY <1>6, KeepRemoveAllFunction
  <2> QED BY <1>3, <1>6, <2>1 DEF RemoveAllFunction
<1>7. ASSUME NEW t \in Threads,
             \/ AddRefused(t) \/ AddInsert(t) \/ AddTap(t) \/ RemoveUnlink(t) \/ Close(t)
             \/ PopFlag(t) \/ Prune(t) \/ PruneScan(t) \/ PruneClose(t)
      PROVE  SeenInv'
  <2>0. Idle.pc = "idle" BY DEF Idle
  <2>1. CASE AddRefused(t)
    <3>1. Fewer BY <2>1, KeepAddRefused
    <3>2. user' = [user EXCEPT ![t] = Idle] /\ user[t].pc = "add" /\ tapOnly' = tapOnly /\ UNCHANGED races
      BY <2>1 DEF AddRefused, Goto
    <3> QED BY <1>2, <2>0, <3>1, <3>2
  <2>2. CASE AddInsert(t) BY <2>2, SeenAddInsert
  <2>3. CASE AddTap(t) BY <2>3, SeenAddTap
  <2>4. CASE RemoveUnlink(t)
    <3>1. Fewer BY <2>4, KeepRemoveUnlink
    <3>2. /\ user[t].pc = "remove" /\ tapOnly' = FALSE /\ UNCHANGED <<crossed, overtaken>>
      BY <2>4 DEF RemoveUnlink
    <3>3. Goto(t, [pc |-> "close", bug |-> user[t].bug]) \/ Goto(t, Idle) BY <2>4 DEF RemoveUnlink
    <3>4. PICK w : user' = [user EXCEPT ![t] = w] /\ w.pc \in {"close", "idle"} BY <2>0, <3>3 DEF Goto
    <3> QED BY <3>1, <3>2, <3>4, SeenFewer
  <2>5. CASE Close(t)
    <3>1. Fewer BY <2>5, KeepClose
    <3>2. user' = [user EXCEPT ![t] = Idle] /\ user[t].pc = "close" /\ tapOnly' = tapOnly /\ UNCHANGED races
      BY <2>5 DEF Close, Goto
    <3> QED BY <1>2, <2>0, <3>1, <3>2
  <2>6. CASE PopFlag(t)
    <3>1. Fewer BY <2>6, KeepPopFlag
    <3>2. user' = [user EXCEPT ![t] = Idle] /\ user[t].pc = "popped" /\ tapOnly' = tapOnly /\ UNCHANGED races
      BY <2>6 DEF PopFlag, Goto
    <3> QED BY <1>2, <2>0, <3>1, <3>2
  <2>7. CASE Prune(t)
    <3>1. Fewer BY <2>7, KeepPrune
    <3>2. PICK w : w = [pc |-> "prune", last |-> NULL] OBVIOUS
    <3>3. /\ user' = [user EXCEPT ![t] = w] /\ w.pc = "prune"
          /\ user[t].pc = "idle" /\ tapOnly' = tapOnly /\ UNCHANGED races
      BY <2>7, <3>2 DEF Prune, Goto, Idle
    <3> QED BY <1>2, <3>1, <3>3
  <2>8. CASE PruneScan(t)
    <3>1. Fewer BY <2>8, KeepPruneScan
    <3>2. user[t].pc = "prune" /\ tapOnly' = tapOnly /\ UNCHANGED races BY <2>8 DEF PruneScan
    <3>3. \/ Goto(t, Idle)
          \/ Goto(t, [pc |-> "prune_close", last |-> LastAt(Stop(pruned), user[t].last),
                      bug |-> Walk[Stop(pruned)]])
      BY <2>8 DEF PruneScan
    <3>4. PICK w : user' = [user EXCEPT ![t] = w] /\ w.pc \in {"prune_close", "idle"}
      BY <2>0, <3>3 DEF Goto
    <3> QED BY <1>2, <3>1, <3>2, <3>4
  <2>9. CASE PruneClose(t)
    <3>1. Fewer BY <2>9, KeepPruneClose
    <3>2. PICK w : w = [pc |-> "prune", last |-> user[t].last] OBVIOUS
    <3>3. /\ user' = [user EXCEPT ![t] = w] /\ w.pc = "prune"
          /\ user[t].pc = "prune_close" /\ tapOnly' = tapOnly /\ UNCHANGED races
      BY <2>9, <3>2 DEF PruneClose, Goto
    <3> QED BY <1>2, <3>1, <3>3
  <2> QED BY <1>7, <2>1, <2>2, <2>3, <2>4, <2>5, <2>6, <2>7, <2>8, <2>9
<1> QED BY <1>1, <1>4, <1>5, <1>6, <1>7, Zenon DEF BugNext

\* from the start.
LEMMA SeenStart == BugInit => SeenInv
<1> SUFFICES ASSUME BugInit PROVE SeenInv OBVIOUS
<1>1. \A t \in Threads : user[t].pc = "idle" BY DEF BugInit, Idle
<1>2. tapOnly = FALSE /\ head = NULL BY DEF BugInit
<1>3. {} \subseteq Bugs /\ Falls({}, head, next) BY <1>2 DEF Falls
<1>4. Listed = {} BY <1>3, ListedIs
<1> QED BY <1>1, <1>2, <1>4 DEF SeenInv

\* With any number of threads that add bugs, SMBF_ONE_ONLY keeps its promise
\* for every function that no two threads were adding at once, between the test
\* and the insertion of switch_core_media_bug_add, and SSF_MEDIA_BUG_TAP_ONLY is
\* not set over a bug that needs the decoded audio, unless a thread that was
\* overtaken by another's insertion wrote it last.
THEOREM OnlyRacingAddersErr == BugSpec => [](OneOfFunction /\ TapOnlyIsRight)
<1>1. BugInit => WholeInv /\ SeenInv BY BugStart, SeenStart
<1>2. (misled \/ (WholeInv /\ SeenInv)) /\ [BugNext]_bugs => (misled \/ (WholeInv /\ SeenInv))'
  BY BugStep, SeenStep, MisledStays DEF Kept
<1>3. SeenInv => OneOfFunction BY DEF SeenInv, OneOfFunction
<1>4. SeenInv => TapOnlyIsRight
  <2>1. At("tap") = {} => \A t \in Threads : user[t].pc # "tap" BY DEF At
  <2> QED BY <2>1 DEF SeenInv, TapOnlyIsRight
<1>5. misled => OneOfFunction /\ TapOnlyIsRight BY DEF OneOfFunction, TapOnlyIsRight
<1> QED BY <1>1, <1>2, <1>3, <1>4, <1>5, PTL DEF BugSpec
=============================================================================
