-------------------------- MODULE OriginateProofs --------------------------
(***************************************************************************)
(* Proofs about outgoing calls, for any number of legs in any number of    *)
(* groups, any options of the call and any time limits: the types, that no *)
(* session the call uses is destroyed, that the call holds no lock and     *)
(* leaves no ringing leg when it returns, that a leg that is returned has  *)
(* confirmed, and that a leg others have transferred away is not hung up.  *)
(***************************************************************************)
EXTENDS Originate, WellFoundedInduction, TLAPS

-----------------------------------------------------------------------------
(* The inductive invariant *)

InGroup == Creating \cup Waiting \cup Cleaning

\* Where the thread of the call is in its group.
PlaceInv ==
    /\ pc \in InGroup \cup {"next"} => group # 0
    /\ pc \in Creating \cup {"losehang", "cleanhang"} => i <= N
    /\ pc = "losehang" => Dialled[i] \in slots
    /\ pc = "cleanhang" => Dialled[i] \in slots /\ ~status
    /\ group # 0 => \A l \in slots : \E k \in 1 .. N : l = Dialled[k]
    /\ group = 0 => slots = {}
    /\ pc = "create" => \A k \in i .. N : Dialled[k] \notin slots
    /\ pc = "lock" => /\ \A k \in i .. N : Dialled[k] \notin slots
                      /\ Created(Dialled[i]) /\ Dialled[i] \notin taken
    /\ abandoned # {} => pc \in {"return", "returned"} /\ ~status

\* The legs that are still to be created.
FreshInv ==
    \A g \in DOMAIN opt.dial : \A k \in DOMAIN opt.dial[g] :
      \/ g > group
      \/ g = group /\ pc = "create" /\ k >= i
      \/ g = group /\ pc = "lock" /\ k > i
      => ~Created(opt.dial[g][k])

\* A session that is not created is nobody's; one that is destroyed is not locked.
LegInv ==
    \A l \in Legs :
      /\ ~Created(l) => /\ ~freed[l] /\ locks[l] = {} /\ collect[l] = "none"
                        /\ l \notin slots /\ l \notin taken
      /\ freed[l] => state[l] = CS_DESTROY /\ locks[l] = {}

\* The call holds a lock on l.
Holds(l) ==
    \/ pc \in Creating \cup Waiting /\ l \in slots
    \/ pc \in Cleaning /\ l \in slots /\ \E k \in i .. N : l = Dialled[k]
    \/ pc \in Cleaning \cup {"return", "returned"} /\ Kept(l)
    \/ l \in abandoned

HeldInv == \A l \in Legs : "call" \in locks[l] <=> Holds(l)

\* The leg that wins, and the leg that is returned.
WinnerInv ==
    /\ pc = "limits" => idx \notin Legs
    /\ (pc = "notready" /\ caller # "down") \/ pc \in {"lose", "losehang", "answer"} =>
         (idx \in Legs => idx \in slots /\ (opt.key => Has(idx, "WINNER")))
    /\ status => /\ pc \in {"done", "return", "returned"} \cup Cleaning
                 /\ bleg \in slots /\ (opt.key => Has(bleg, "WINNER"))
    /\ pc = "returned" => (status <=> bleg # None)

\* The leg is not the call's any more.
Gone(l) == ~IsUp(l) \/ l \in taken

\* Losers are hung up one after the other; and no leg that was created and is
\* not held by the call is up, unless another thread has it.
GoneInv ==
    /\ pc \in {"lose", "losehang"} =>
         \A k \in 1 .. N : k < i /\ Dialled[k] \in slots /\ Dialled[k] # idx => Gone(Dialled[k])
    /\ pc = "answer" => \A l \in slots : l # idx => Gone(l)
    /\ status => \A l \in slots : l # bleg => Gone(l)
    /\ \A l \in Legs : Created(l) => Holds(l) \/ (pc = "lock" /\ l = Dialled[i]) \/ Gone(l)

\* A leg that is taken has lost the flag of the call, and only it has: and it is
\* not the one that the call is about to hang up.
TakenInv ==
    /\ \A l \in Legs : l \in taken => ~Has(l, "ORIGINATING")
    /\ pc \in Creating \cup Waiting => \A l \in slots : Has(l, "ORIGINATING") \/ l \in taken
    /\ pc \in Cleaning => \A k \in i .. N : Dialled[k] \in slots =>
                            Has(Dialled[k], "ORIGINATING") \/ Dialled[k] \in taken
    /\ pc \in {"losehang", "cleanhang"} => Dialled[i] \notin safe

CallInv == TypeOK /\ PlaceInv /\ FreshInv /\ LegInv /\ HeldInv /\ WinnerInv /\ GoneInv /\ TakenInv

-----------------------------------------------------------------------------
(* The legs that are dialled *)

LEMMA OptionsTyped ==
    ASSUME opt \in Options
    PROVE  /\ opt.dial \in Seq(Seq(Legs)) /\ opt.media \subseteq Media /\ opt.limits \in [Legs -> Limit]
           /\ Fresh(opt.dial)
           /\ \A g \in DOMAIN opt.dial : opt.dial[g] \in Seq(Legs) /\ opt.dial[g] # <<>>
           /\ opt.key \in BOOLEAN /\ opt.early_ok \in BOOLEAN /\ opt.reject \in Rejects
BY OriginateAssumption

LEMMA NoneIsNoLeg == Legs \cap {None, "nada", "cancel", "timeout"} = {}
BY OriginateAssumption

LEMMA DialledTyped ==
    ASSUME TypeOK, group # 0
    PROVE  /\ group \in DOMAIN opt.dial
           /\ N \in Nat \ {0} /\ DOMAIN Dialled = 1 .. N
           /\ \A k \in 1 .. N : Dialled[k] \in Legs
           /\ \A k, m \in 1 .. N : Dialled[k] = Dialled[m] => k = m
<1>1. opt \in Options /\ group \in 0 .. Len(opt.dial) BY DEF TypeOK
<1>2. opt.dial \in Seq(Seq(Legs)) /\ Fresh(opt.dial) BY <1>1, OptionsTyped
<1>3. group \in DOMAIN opt.dial BY <1>1, <1>2
<1>4. Dialled \in Seq(Legs) /\ Dialled # <<>> BY <1>1, <1>3, OptionsTyped DEF Dialled
<1>5. N \in Nat \ {0} /\ DOMAIN Dialled = 1 .. N /\ \A k \in 1 .. N : Dialled[k] \in Legs
  BY <1>4 DEF N
<1>6. \A k, m \in 1 .. N : Dialled[k] = Dialled[m] => k = m
  <2>1. DOMAIN opt.dial[group] = 1 .. N BY <1>5 DEF Dialled
  <2> QED BY <1>2, <1>3, <2>1 DEF Fresh, Dialled
<1> QED BY <1>3, <1>5, <1>6

\* A set of numbers that is not empty has a smallest one.
LEMMA MinIs ==
    ASSUME NEW S, S \subseteq Nat, S # {}
    PROVE  Min(S) \in S /\ \A y \in S : Min(S) <= y
<1>1. PICK x \in S : \A y \in S : ~(<<y, x>> \in OpToRel(<, Nat))
  BY NatLessThanWellFounded, WFMin, Zenon
<1>2. \A y \in S : y < x => <<y, x>> \in OpToRel(<, Nat) BY Zenon DEF OpToRel
<1>3. \A y \in S : ~(y < x) BY <1>1, <1>2, Zenon
<1>4. \A y \in S : x <= y BY <1>3
<1> QED BY <1>4 DEF Min
-----------------------------------------------------------------------------
(* What a step may do to the legs *)

LEMMA StatesAre ==
    /\ CS_NEW \in State /\ CS_INIT \in State /\ CS_ROUTING \in State /\ CS_EXECUTE \in State
    /\ CS_CONSUME_MEDIA \in State /\ CS_HANGUP \in State /\ CS_DESTROY \in State
    /\ Down(CS_HANGUP) /\ Down(CS_DESTROY) /\ ~Down(CS_NEW) /\ ~Down(CS_INIT) /\ ~Down(CS_ROUTING)
    /\ CS_HANGUP # CS_NEW /\ CS_DESTROY # CS_NEW /\ CS_INIT # CS_NEW /\ CS_ROUTING # CS_NEW
    /\ CS_CONSUME_MEDIA # CS_NEW /\ CS_EXECUTE # CS_NEW /\ CS_HANGUP # CS_DESTROY
BY DEF State, Down, CS_NEW, CS_INIT, CS_ROUTING, CS_EXECUTE, CS_CONSUME_MEDIA, CS_HANGUP, CS_DESTROY

\* A leg that is down stays down, no leg is created, no confirmation is lost.
LegMoves(l) ==
    /\ Created(l)' <=> Created(l)
    /\ ~IsUp(l) => ~IsUp(l)'
    /\ state[l] = CS_DESTROY => state'[l] = CS_DESTROY
    /\ Has(l, "WINNER") => Has(l, "WINNER")'

\* And the flag of the call stays.
LegStays(l) == LegMoves(l) /\ (Has(l, "ORIGINATING")' <=> Has(l, "ORIGINATING"))

LegsTyped ==
    /\ state \in [Legs -> State] /\ flags \in [Legs -> SUBSET Flags] /\ cause \in [Legs -> Causes]
    /\ started \in [Legs -> BOOLEAN]

LEMMA SameLegs ==
    ASSUME TypeOK, UNCHANGED leg
    PROVE  LegsTyped' /\ \A l \in Legs : LegStays(l)
BY DEF TypeOK, leg, LegsTyped, LegStays, LegMoves, Created, IsUp, Has

LEMMA HangUpTyped ==
    ASSUME TypeOK, NEW S, S \subseteq Legs, NEW why \in Causes, HangUp(S, why)
    PROVE  LegsTyped'
<1> DEFINE H == {l \in S : IsUp(l)}
<1>1. /\ state' = [l \in Legs |-> IF l \in H THEN CS_HANGUP ELSE state[l]]
      /\ cause' = [l \in Legs |-> IF l \in H THEN why ELSE cause[l]]
      /\ started' = [l \in Legs |-> l \in H \/ started[l]]
      /\ flags' = [l \in Legs |-> flags[l] \ (IF l \in H THEN {"BLOCK_STATE"} ELSE {})]
  BY DEF HangUp
<1> HIDE DEF H
<1> QED BY <1>1, StatesAre DEF TypeOK, LegsTyped

LEMMA HangUpStays ==
    ASSUME TypeOK, NEW S, S \subseteq Legs, \A l \in S : Created(l), NEW why \in Causes, HangUp(S, why)
    PROVE  /\ LegsTyped' /\ \A l \in Legs : LegStays(l)
           /\ \A l \in S : ~IsUp(l)'
           /\ \A l \in Legs \ S : state'[l] = state[l]
<1> DEFINE H == {l \in S : IsUp(l)}
<1>1. /\ state' = [l \in Legs |-> IF l \in H THEN CS_HANGUP ELSE state[l]]
      /\ cause' = [l \in Legs |-> IF l \in H THEN why ELSE cause[l]]
      /\ started' = [l \in Legs |-> l \in H \/ started[l]]
      /\ flags' = [l \in Legs |-> flags[l] \ (IF l \in H THEN {"BLOCK_STATE"} ELSE {})]
  BY DEF HangUp
<1>2. H \subseteq S /\ \A l \in H : IsUp(l) /\ Created(l) OBVIOUS
<1>3. \A l \in S : l \in H \/ ~IsUp(l) OBVIOUS
<1> HIDE DEF H
<1>4. LegsTyped' BY HangUpTyped
<1>5. \A l \in Legs : l \in H => state'[l] = CS_HANGUP BY <1>1
<1>6. \A l \in Legs : l \notin H => state'[l] = state[l] BY <1>1
<1>7. \A l \in Legs, f \in {"WINNER", "ORIGINATING"} : f \in flags'[l] <=> f \in flags[l] BY <1>1
<1>8. ASSUME NEW l \in Legs PROVE LegStays(l)
  BY <1>2, <1>5, <1>6, <1>7, StatesAre DEF LegStays, LegMoves, Created, IsUp, Has
<1>9. \A l \in S : ~IsUp(l)' BY <1>3, <1>5, <1>6, StatesAre DEF IsUp
<1> QED BY <1>2, <1>4, <1>6, <1>8, <1>9

LEMMA LimitsTyped == ASSUME TypeOK PROVE NewLimits \in [Legs -> Limit]
<1> DEFINE D == {limits[d].delay : d \in Delayed}
<1>1. \A l \in Legs : limits[l] \in Limit BY DEF TypeOK
<1>2. \A l \in Legs : /\ limits[l].delay \in Nat /\ limits[l].limit \in Nat /\ limits[l].progress \in Nat
  BY <1>1 DEF Limit
<1>3. Delayed \subseteq Legs BY DEF TypeOK, Delayed
<1>4. elapsed \in Nat BY OriginateAssumption DEF TypeOK, MaxElapsed
<1>5. ASSUME NEW n \in Nat, NEW m \in Nat PROVE Shorten(n, m) \in Nat BY <1>4 DEF Shorten
<1>6. ASSUME NEW l \in Delayed PROVE Min(D) \in Nat /\ limits[l].delay - Min(D) \in Nat
  <2>1. D \subseteq Nat /\ D # {} BY <1>2, <1>3
  <2>2. Min(D) \in D /\ \A y \in D : Min(D) <= y BY <2>1, MinIs
  <2>3. limits[l].delay \in D OBVIOUS
  <2>4. Min(D) \in Nat /\ Min(D) <= limits[l].delay BY <2>1, <2>2, <2>3, Zenon
  <2>5. limits[l].delay \in Nat BY <1>2, <1>3
  <2> HIDE DEF D
  <2> QED BY <2>4, <2>5
<1>7. ASSUME NEW l \in Legs PROVE NewLimits[l] \in Limit
  <2>1. CASE l \in Delayed /\ OnlyDelayed
    <3>1. NewLimits[l] = [delay |-> limits[l].delay - Min(D), limit |-> Shorten(limits[l].limit, Min(D)),
                          progress |-> Shorten(limits[l].progress, Min(D))]
      BY <2>1 DEF NewLimits
    <3> HIDE DEF D
    <3>2. PICK m : m = Min(D) OBVIOUS
    <3>3. m \in Nat /\ limits[l].delay - m \in Nat BY <2>1, <3>2, <1>6
    <3>4. Shorten(limits[l].limit, m) \in Nat /\ Shorten(limits[l].progress, m) \in Nat
      BY <1>2, <1>5, <3>3
    <3> QED BY <3>1, <3>2, <3>3, <3>4 DEF Limit
  <2>2. CASE ~(l \in Delayed /\ OnlyDelayed) /\ l \in Delayed /\ elapsed > limits[l].delay
    <3>1. NewLimits[l] = [limits[l] EXCEPT !.delay = 0] BY <2>2 DEF NewLimits
    <3> QED BY <1>1, <3>1 DEF Limit
  <2>3. CASE ~(l \in Delayed /\ OnlyDelayed) /\ ~(l \in Delayed /\ elapsed > limits[l].delay)
    <3>1. NewLimits[l] = limits[l] BY <2>3 DEF NewLimits
    <3> QED BY <1>1, <3>1
  <2> QED BY <2>1, <2>2, <2>3
<1> QED BY <1>7 DEF NewLimits

LEMMA CheckTimeoutsStays ==
    ASSUME TypeOK, CheckTimeouts, \A l \in slots : Created(l)
    PROVE  /\ limits' \in [Legs -> Limit]
           /\ LegsTyped' /\ \A l \in Legs : LegStays(l)
<1>1. CASE TimersOff
  <2>1. UNCHANGED limits /\ UNCHANGED leg BY <1>1 DEF CheckTimeouts
  <2> QED BY <2>1, SameLegs DEF TypeOK
<1>2. CASE ~TimersOff
  <2> DEFINE late == {l \in slots : IsUp(l) /\ LegIsLate(l, NewLimits[l])}
             due  == {l \in Delayed : NewLimits[l].delay = 0}
  <2>1. /\ limits' = NewLimits
        /\ state' = [l \in Legs |-> IF l \in late THEN CS_HANGUP ELSE state[l]]
        /\ cause' = [l \in Legs |-> IF l \in late THEN "other" ELSE cause[l]]
        /\ flags' = [l \in Legs |-> flags[l] \ (IF l \in late \cup due THEN {"BLOCK_STATE"} ELSE {})]
        /\ UNCHANGED started
    BY <1>2 DEF CheckTimeouts
  <2>2. \A l \in late : IsUp(l) /\ Created(l) OBVIOUS
  <2> HIDE DEF late, due
  <2>3. LegsTyped' BY <2>1, StatesAre DEF TypeOK, LegsTyped, Causes
  <2>4. \A l \in Legs : l \in late => state'[l] = CS_HANGUP BY <2>1
  <2>5. \A l \in Legs : l \notin late => state'[l] = state[l] BY <2>1
  <2>6. \A l \in Legs, f \in {"WINNER", "ORIGINATING"} : f \in flags'[l] <=> f \in flags[l] BY <2>1
  <2>7. ASSUME NEW l \in Legs PROVE LegStays(l)
    BY <2>2, <2>4, <2>5, <2>6, StatesAre DEF LegStays, LegMoves, Created, IsUp, Has
  <2> QED BY <2>1, <2>3, <2>7, LimitsTyped
<1> QED BY <1>1, <1>2
-----------------------------------------------------------------------------
(* Types *)

\* The variables that no action of the legs changes, and the others.
CallTyped ==
    /\ opt \in Options /\ pc \in InGroup \cup {"group", "next", "return", "returned"}
    /\ group \in 0 .. Len(opt.dial) /\ i \in Nat \ {0} /\ idx \in Legs \cup {"nada", "cancel", "timeout"}
    /\ hup \in BOOLEAN /\ ring_ready \in BOOLEAN /\ sent_ring \in BOOLEAN /\ progress \in BOOLEAN
    /\ to \in BOOLEAN /\ check_reject \in BOOLEAN /\ status \in BOOLEAN
    /\ bleg \in Legs \cup {None} /\ slots \subseteq Legs /\ limits \in [Legs -> Limit]

RestTyped ==
    /\ cancel \in BOOLEAN /\ elapsed \in 0 .. MaxElapsed /\ caller \in {"none", "up", "down"}
    /\ freed \in [Legs -> BOOLEAN] /\ locks \in [Legs -> SUBSET {"call", "collect"}]
    /\ collect \in [Legs -> {"none", "new", "ask", "done"}]
    /\ taken \subseteq Legs /\ safe \subseteq taken /\ abandoned \subseteq Legs

LEMMA TypeParts == TypeOK <=> CallTyped /\ RestTyped /\ LegsTyped
BY DEF TypeOK, CallTyped, RestTyped, LegsTyped, InGroup

LEMMA InitInv == Init => CallInv
<1> SUFFICES ASSUME Init PROVE CallInv OBVIOUS
<1>1. opt.dial \in Seq(Seq(Legs)) /\ opt.limits \in [Legs -> Limit] /\ Len(opt.dial) \in Nat
  BY OptionsTyped DEF Init
<1>2. TypeOK
  <2>1. CallTyped
    <3>1. limits \in [Legs -> Limit] /\ bleg \in Legs \cup {None} /\ slots \subseteq Legs BY <1>1 DEF Init
    <3>2. group \in 0 .. Len(opt.dial) BY <1>1 DEF Init
    <3>3. pc \in InGroup \cup {"group", "next", "return", "returned"} BY DEF Init
    <3>4. idx \in Legs \cup {"nada", "cancel", "timeout"} /\ i \in Nat \ {0} BY DEF Init
    <3>5. /\ hup \in BOOLEAN /\ ring_ready \in BOOLEAN /\ sent_ring \in BOOLEAN /\ progress \in BOOLEAN
          /\ to \in BOOLEAN /\ check_reject \in BOOLEAN /\ status \in BOOLEAN BY DEF Init
    <3> QED BY <3>1, <3>2, <3>3, <3>4, <3>5 DEF Init, CallTyped
  <2>2. RestTyped
    <3>1. caller \in {"none", "up", "down"} BY DEF Init
    <3>2. elapsed \in 0 .. MaxElapsed BY OriginateAssumption DEF Init, MaxElapsed
    <3> QED BY <3>1, <3>2 DEF Init, RestTyped
  <2>3. LegsTyped BY StatesAre DEF Init, LegsTyped, Causes
  <2> QED BY <2>1, <2>2, <2>3, TypeParts
<1>3. PlaceInv BY DEF Init, PlaceInv, InGroup, Creating, Waiting, Cleaning
<1>4. FreshInv /\ LegInv
  <2>1. \A g \in DOMAIN opt.dial : opt.dial[g] \in Seq(Legs) BY OptionsTyped DEF Init
  <2>2. \A g \in DOMAIN opt.dial : \A k \in DOMAIN opt.dial[g] : opt.dial[g][k] \in Legs BY <2>1
  <2>3. FreshInv BY <2>2 DEF Init, FreshInv, Created
  <2>4. LegInv BY StatesAre DEF Init, LegInv, Created
  <2> QED BY <2>3, <2>4
<1>5. HeldInv BY DEF Init, HeldInv, Holds, Creating, Waiting, Cleaning
<1>6. WinnerInv BY DEF Init, WinnerInv
<1>7. GoneInv BY DEF Init, GoneInv, Created
<1>8. TakenInv BY DEF Init, TakenInv, Creating, Waiting, Cleaning
<1> QED BY <1>2, <1>3, <1>4, <1>5, <1>6, <1>7, <1>8 DEF CallInv

LEMMA TypePartsNext == CallTyped' /\ RestTyped' /\ LegsTyped' => TypeOK'
BY DEF TypeOK, CallTyped, RestTyped, LegsTyped, InGroup

LEMMA SlotsCreated == ASSUME TypeOK, LegInv PROVE slots \subseteq Legs /\ \A l \in slots : Created(l)
BY DEF TypeOK, LegInv

LEMMA CallTypes ==
    ASSUME TypeOK, PlaceInv, LegInv, Call
    PROVE  TypeOK'
<1> USE DEF InGroup, Creating, Waiting, Cleaning
<1>0. CallTyped /\ RestTyped /\ LegsTyped BY TypeParts
<1>a. ASSUME UNCHANGED leg PROVE LegsTyped' BY <1>a, <1>0 DEF LegsTyped, leg
<1>b. ASSUME UNCHANGED <<elapsed, outside, sessions>> PROVE RestTyped'
  BY <1>b, <1>0 DEF RestTyped, outside, sessions
<1>c. group # 0 => N \in Nat \ {0} /\ \A k \in 1 .. N : Dialled[k] \in Legs BY DialledTyped
<1>1. ASSUME StartGroup PROVE TypeOK'
  <2>0. Len(opt.dial) \in Nat BY <1>0, OptionsTyped DEF CallTyped
  <2>1. CallTyped'
    <3>1. CASE AGroupIsLeft
      <4>1. group \in Nat /\ group < Len(opt.dial) /\ opt' = opt /\ group' = group + 1
        BY <1>0, <1>1, <2>0, <3>1 DEF StartGroup, CallTyped, AGroupIsLeft
      <4>2. group' \in 0 .. Len(opt'.dial) BY <2>0, <4>1
      <4>3. pc' \in InGroup /\ i' \in Nat \ {0} BY <1>1, <3>1 DEF StartGroup
      <4>4. /\ hup' \in BOOLEAN /\ sent_ring' \in BOOLEAN /\ progress' \in BOOLEAN
            /\ to' \in BOOLEAN /\ check_reject' \in BOOLEAN /\ slots' \subseteq Legs
        BY <1>1, <3>1 DEF StartGroup
      <4> QED BY <1>0, <1>1, <4>2, <4>3, <4>4 DEF StartGroup, CallTyped
    <3>2. CASE ~AGroupIsLeft BY <1>0, <1>1, <3>2 DEF StartGroup, CallTyped
    <3> QED BY <3>1, <3>2
  <2> QED BY <1>1, <2>1, <1>a, <1>b, TypePartsNext DEF StartGroup, world
<1>2. ASSUME CreateLate PROVE TypeOK'
  <2>1. CallTyped' BY <1>0, <1>2 DEF CreateLate, CallTyped, dialling, scan, verdict, call, leg, sessions, outside, world
  <2> QED BY <1>2, <2>1, <1>a, <1>b, TypePartsNext DEF CreateLate, world
<1>3. ASSUME CheckLate PROVE TypeOK'
  <2>1. CallTyped' BY <1>0, <1>3 DEF CheckLate, CallTyped, dialling, scan, verdict, call, leg, sessions, outside, world
  <2> QED BY <1>3, <2>1, <1>a, <1>b, TypePartsNext DEF CheckLate, world
<1>4. ASSUME CallerLeaves PROVE TypeOK'
  <2>1. CallTyped' BY <1>0, <1>4 DEF CallerLeaves, CallTyped, dialling, scan, verdict, call, leg, sessions, outside, world
  <2> QED BY <1>4, <2>1, <1>a, <1>b, TypePartsNext DEF CallerLeaves, world
<1>5. ASSUME NotReady PROVE TypeOK'
  <2>1. CallTyped' BY <1>0, <1>5 DEF NotReady, CallTyped, dialling, scan, verdict, call, leg, sessions, outside, world
  <2> QED BY <1>5, <2>1, <1>a, <1>b, TypePartsNext DEF NotReady, world
<1>6. ASSUME LoseTest PROVE TypeOK'
  <2>1. CallTyped' BY <1>0, <1>6 DEF LoseTest, CallTyped, dialling, scan, verdict, call, leg, sessions, outside, world
  <2> QED BY <1>6, <2>1, <1>a, <1>b, TypePartsNext DEF LoseTest, world
<1>7. ASSUME NoWinner PROVE TypeOK'
  <2>1. CallTyped' BY <1>0, <1>7 DEF NoWinner, CallTyped, dialling, scan, verdict, call, leg, sessions, outside, world
  <2> QED BY <1>7, <2>1, <1>a, <1>b, TypePartsNext DEF NoWinner, world
<1>8. ASSUME Done PROVE TypeOK'
  <2>1. CallTyped' BY <1>0, <1>8 DEF Done, CallTyped, dialling, scan, verdict, call, leg, sessions, outside, world
  <2> QED BY <1>8, <2>1, <1>a, <1>b, TypePartsNext DEF Done, world
<1>9. ASSUME Return PROVE TypeOK'
  <2>1. CallTyped' BY <1>0, <1>9 DEF Return, CallTyped, dialling, scan, verdict, call, leg, sessions, outside, world
  <2> QED BY <1>9, <2>1, <1>a, <1>b, TypePartsNext DEF Return, world
<1>10. ASSUME CleanPass PROVE TypeOK'
  <2>1. CallTyped' BY <1>0, <1>10 DEF CleanPass, CallTyped, dialling, scan, verdict, call, leg, sessions, outside, world
  <2> QED BY <1>10, <2>1, <1>a, <1>b, TypePartsNext DEF CleanPass, world
<1>11. ASSUME NextGroup PROVE TypeOK'
  <2>1. CallTyped' BY <1>0, <1>11 DEF NextGroup, CallTyped, dialling, scan, verdict, call, leg, sessions, outside, world
  <2> QED BY <1>11, <2>1, <1>a, <1>b, TypePartsNext DEF NextGroup, world
<1>12. ASSUME NEW why \in Causes \ {"none"}, CreateRefused(why) PROVE TypeOK'
  <2>1. CallTyped'
    <3>1. i' \in Nat \ {0} /\ pc' \in InGroup \cup {"return"}
      BY <1>0, <1>12 DEF CreateRefused, NextLeg, CallTyped
    <3>2. status' \in BOOLEAN /\ check_reject' \in BOOLEAN
      BY <1>0, <1>12 DEF CreateRefused, CallTyped
    <3> QED BY <1>0, <1>12, <3>1, <3>2 DEF CreateRefused, CallTyped, dialling, scan
  <2>2. RestTyped' BY <1>0, <1>12, OriginateAssumption
    DEF CreateRefused, NextLeg, CallTyped, RestTyped, MaxElapsed, dialling, scan, verdict, call, leg, sessions, outside, world
  <2> QED BY <1>12, <2>1, <2>2, <1>a, TypePartsNext DEF CreateRefused
<1>13. ASSUME CreateLeg PROVE TypeOK'
  <2>1. CallTyped' BY <1>0, <1>13 DEF CreateLeg, CallTyped, dialling, scan, verdict, call, leg, sessions, outside, world
  <2>2. LegsTyped' BY <1>0, <1>13, StatesAre DEF CreateLeg, LegsTyped
  <2> QED BY <1>13, <2>1, <2>2, <1>b, TypePartsNext DEF CreateLeg
<1>14. ASSUME LockLeg PROVE TypeOK'
  <2>1. Dialled[i] \in Legs BY <1>0, <1>14, <1>c DEF LockLeg, PlaceInv, CallTyped
  <2>2. CASE IsUp(Dialled[i])
    <3>1. PICK l \in Legs : l = Dialled[i] BY <2>1
    <3>2. PICK block \in SUBSET Flags :
            /\ locks' = [locks EXCEPT ![l] = @ \cup {"call"}]
            /\ flags' = [flags EXCEPT ![l] = @ \cup {"ORIGINATING"} \cup block]
            /\ started' = [started EXCEPT ![l] = TRUE]
            /\ slots' = slots \cup {l}
            /\ NextLeg /\ UNCHANGED status
      BY <1>14, <2>2, <3>1 DEF LockLeg, Flags
    <3>3. CallTyped' BY <1>0, <1>14, <3>2 DEF LockLeg, NextLeg, CallTyped, scan
    <3>4. RestTyped' BY <1>0, <1>14, <3>2, OriginateAssumption
      DEF LockLeg, NextLeg, RestTyped, MaxElapsed, outside
    <3>5. LegsTyped' BY <1>0, <1>14, <3>2 DEF LockLeg, LegsTyped, Flags
    <3> QED BY <3>3, <3>4, <3>5, TypePartsNext
  <2>3. CASE ~IsUp(Dialled[i])
    <3>1. CallTyped' BY <1>0, <1>14, <2>3 DEF LockLeg, CallTyped, scan
    <3>2. LegsTyped' /\ RestTyped' BY <1>0, <1>14, <2>3 DEF LockLeg, LegsTyped, RestTyped, outside
    <3> QED BY <3>1, <3>2, TypePartsNext
  <2> QED BY <2>2, <2>3
<1>15. ASSUME Launch PROVE TypeOK'
  <2>1. LegsTyped' /\ limits' \in [Legs -> Limit]
    BY <1>15, <1>0, <1>a, SlotsCreated, CheckTimeoutsStays DEF Launch, CallTyped
  <2>2. CallTyped' BY <1>0, <1>15, <2>1 DEF Launch, CallTyped, Overdue, dialling, scan, verdict, call, leg, sessions, outside, world
  <2> QED BY <1>15, <2>1, <2>2, <1>b, TypePartsNext DEF Launch
<1>16. ASSUME Limits PROVE TypeOK'
  <2>1. LegsTyped' /\ limits' \in [Legs -> Limit]
    BY <1>16, <1>0, <1>a, SlotsCreated, CheckTimeoutsStays DEF Limits, CallTyped
  <2>2. CallTyped'
    <3>1. to' \in BOOLEAN
      <4>1. \/ to' = to \/ to' = Overdue BY <1>16 DEF Limits
      <4>2. Overdue \in BOOLEAN BY DEF Overdue
      <4> QED BY <1>0, <4>1, <4>2 DEF CallTyped
    <3>2. idx' \in Legs \cup {"nada", "cancel", "timeout"} BY <1>0, <1>16 DEF Limits, CallTyped
    <3>3. pc' \in InGroup BY <1>16 DEF Limits
    <3> QED BY <1>0, <1>16, <2>1, <3>1, <3>2, <3>3 DEF Limits, CallTyped, scan
  <2> QED BY <1>16, <2>1, <2>2, <1>b, TypePartsNext DEF Limits
<1>17. ASSUME Check PROVE TypeOK'
  <2> DEFINE winners == {k \in 1 .. N : Wins(Dialled[k])}
  <2>1. group # 0 /\ idx' = IF winners = {} THEN "nada" ELSE Dialled[Min(winners)]
    BY <1>17 DEF Check, PlaceInv
  <2>2. winners # {} => Min(winners) \in 1 .. N BY MinIs, <1>c, <2>1
  <2> HIDE DEF winners
  <2>3. idx' \in Legs \cup {"nada", "cancel", "timeout"} BY <2>1, <2>2, <1>c
  <2>4. CallTyped' BY <1>0, <1>17, <2>3 DEF Check, CallTyped, dialling, scan, verdict, call, leg, sessions, outside, world
  <2>5. LegsTyped' BY <1>0, <1>17 DEF Check, LegsTyped, Flags
  <2>6. RestTyped' BY <1>0, <1>17 DEF Check, RestTyped, dialling, scan, verdict, call, leg, sessions, outside, world
  <2> QED BY <2>4, <2>5, <2>6, TypePartsNext
<1>18. ASSUME LoseHang PROVE TypeOK'
  <2>1. Dialled[i] \in Legs /\ Created(Dialled[i]) BY <1>18, SlotsCreated DEF LoseHang, PlaceInv
  <2>2. LegsTyped' BY <1>18, <2>1, HangUpStays DEF LoseHang, Causes
  <2>3. CallTyped' BY <1>0, <1>18 DEF LoseHang, CallTyped, dialling, scan, verdict, call, leg, sessions, outside, world
  <2> QED BY <1>18, <2>2, <2>3, <1>b, TypePartsNext DEF LoseHang
<1>19. ASSUME NEW ok \in BOOLEAN, Answer(ok) PROVE TypeOK'
  <2>1. idx \in Legs BY <1>19 DEF Answer
  <2>2. CASE ok
    <3>1. LegsTyped' BY <1>19, <2>2, <1>a DEF Answer
    <3>2. CallTyped' BY <1>0, <1>19 DEF Answer, Accepted, CallTyped, dialling, scan, verdict, call, leg, sessions, outside, world
    <3> QED BY <1>19, <3>1, <3>2, <1>b, TypePartsNext DEF Answer
  <2>3. CASE ~ok
    <3>1. LegsTyped' BY <1>19, <2>1, <2>3, HangUpTyped DEF Answer, Causes
    <3>2. CallTyped' BY <1>0, <1>19 DEF Answer, Accepted, CallTyped, dialling, scan, verdict, call, leg, sessions, outside, world
    <3> QED BY <1>19, <3>1, <3>2, <1>b, TypePartsNext DEF Answer
  <2> QED BY <2>2, <2>3
<1>20. ASSUME Clean PROVE TypeOK'
  <2>1. CallTyped' BY <1>0, <1>20 DEF Clean, LetGo, CallTyped, dialling, scan, verdict, call, leg, sessions, outside, world
  <2>2. LegsTyped' BY <1>0, <1>20 DEF Clean, LegsTyped
  <2>3. locks' \in [Legs -> SUBSET {"call", "collect"}] BY <1>0, <1>20 DEF Clean, LetGo, RestTyped
  <2>4. RestTyped' BY <1>0, <1>20, <2>3 DEF Clean, RestTyped, outside
  <2> QED BY <2>1, <2>2, <2>4, TypePartsNext
<1>21. ASSUME CleanHang PROVE TypeOK'
  <2>1. CallTyped' BY <1>0, <1>21 DEF CleanHang, LetGo, CallTyped, dialling, scan, verdict, call, leg, sessions, outside, world
  <2>2. LegsTyped' BY <1>0, <1>21, StatesAre DEF CleanHang, LegsTyped, Causes
  <2>3. RestTyped' BY <1>0, <1>21 DEF CleanHang, LetGo, RestTyped, dialling, scan, verdict, call, leg, sessions, outside, world
  <2> QED BY <2>1, <2>2, <2>3, TypePartsNext
<1> QED BY <1>1, <1>2, <1>3, <1>4, <1>5, <1>6, <1>7, <1>8, <1>9, <1>10, <1>11, <1>12, <1>13, <1>14, <1>15, <1>16, <1>17, <1>18, <1>19, <1>20, <1>21 DEF Call
\* What the invariant says of the legs in the slots of the call.
LEMMA LegsOfCall ==
    ASSUME CallInv
    PROVE  /\ slots \subseteq Legs /\ \A l \in slots : Created(l)
           /\ pc \in InGroup => /\ N \in Nat \ {0} /\ \A k \in 1 .. N : Dialled[k] \in Legs
                                /\ \A k, m \in 1 .. N : Dialled[k] = Dialled[m] => k = m
                                /\ \A l \in slots : \E k \in 1 .. N : l = Dialled[k]
           /\ i \in Nat \ {0}
           /\ pc \in Creating \cup Waiting => /\ abandoned = {}
                                              /\ \A l \in Legs : Holds(l) <=> l \in slots
<1>1. TypeOK /\ LegInv /\ PlaceInv BY DEF CallInv
<1>2. pc \in Creating \cup Waiting => abandoned = {}
  BY <1>1 DEF PlaceInv, Creating, Waiting
<1>3. pc \in Creating \cup Waiting => \A l \in Legs : Holds(l) <=> l \in slots
  BY <1>2 DEF Holds, Creating, Waiting, Cleaning
<1>4. pc \in InGroup => group # 0 BY <1>1 DEF PlaceInv
<1>5. i \in Nat \ {0} BY <1>1 DEF TypeOK
<1>6. pc \in InGroup => \A l \in slots : \E k \in 1 .. N : l = Dialled[k] BY <1>1, <1>4 DEF PlaceInv
<1> QED BY <1>1, <1>2, <1>3, <1>4, <1>5, <1>6, SlotsCreated, DialledTyped

-----------------------------------------------------------------------------
(* The steps of everybody but the thread of the call *)

\* What such a step may do to a leg.
Apart(l) ==
    /\ LegMoves(l)
    /\ ~Created(l) => ~freed'[l] /\ locks'[l] = {} /\ collect'[l] = "none" /\ l \notin taken'
    /\ "call" \in locks'[l] <=> "call" \in locks[l]
    /\ freed'[l] => state'[l] = CS_DESTROY /\ locks'[l] = {}
    /\ Has(l, "ORIGINATING")' => Has(l, "ORIGINATING") /\ l \notin taken'
    /\ Has(l, "ORIGINATING") => Has(l, "ORIGINATING")' \/ l \in taken'
    /\ l \in taken => l \in taken'
    /\ l \in taken' => l \in taken \/ "call" \in locks[l]
    /\ l \in safe' => l \in safe \/ l \notin Doomed

LEMMA ApartKeeps ==
    ASSUME CallInv, TypeOK', UNCHANGED <<call, abandoned>>, \A l \in Legs : Apart(l),
           caller = "down" => caller' = "down"
    PROVE  CallInv'
<1>0. TypeOK /\ PlaceInv /\ FreshInv /\ LegInv /\ HeldInv /\ WinnerInv /\ GoneInv /\ TakenInv
  BY DEF CallInv
<1>1. /\ opt' = opt /\ pc' = pc /\ group' = group /\ i' = i /\ idx' = idx /\ slots' = slots
      /\ status' = status /\ bleg' = bleg /\ abandoned' = abandoned
  BY DEF call, dialling, verdict
<1>2. Dialled' = Dialled /\ N' = N BY <1>1 DEF Dialled, N
<1>3. \A l \in Legs : Kept(l)' <=> Kept(l) BY <1>1 DEF Kept
<1>4. \A l \in Legs : Holds(l)' <=> Holds(l) BY <1>1, <1>2, <1>3 DEF Holds
<1>5. /\ slots \subseteq Legs /\ taken \subseteq Legs
      /\ pc \in InGroup => \A k \in 1 .. N : Dialled[k] \in Legs
  BY <1>0, DialledTyped DEF TypeOK, PlaceInv
<1>6. \A l \in Legs : Created(l)' <=> Created(l) BY DEF Apart, LegMoves
<1>7. \A l \in Legs : Gone(l) => Gone(l)' BY DEF Apart, LegMoves, Gone
<1>8. PlaceInv'
  <2>1. pc = "lock" => Dialled[i] \in Legs
    BY <1>0, <1>5 DEF PlaceInv, TypeOK, InGroup, Creating
  <2>2. pc = "lock" => state'[Dialled[i]] # CS_NEW BY <1>0, <1>6, <2>1 DEF PlaceInv, Created
  <2>3. pc' = "lock" => Created(Dialled[i])' BY <2>2, <1>1, <1>2 DEF Created
  <2>4. pc = "lock" => Dialled[i] \notin taken'
    <3> SUFFICES ASSUME pc = "lock" PROVE Dialled[i] \notin taken' OBVIOUS
    <3>1. Dialled[i] \notin slots /\ Dialled[i] \notin taken /\ pc \in Creating
      BY <1>0, <2>1 DEF PlaceInv, Creating, TypeOK
    <3>2. ~Holds(Dialled[i])
      BY <2>1, <3>1, LegsOfCall
    <3> QED BY <1>0, <2>1, <3>1, <3>2 DEF HeldInv, Apart
  <2> QED BY <1>0, <1>1, <1>2, <2>3, <2>4 DEF PlaceInv
<1>9. FreshInv'
  <2>1. \A g \in DOMAIN opt.dial : \A k \in DOMAIN opt.dial[g] : opt.dial[g][k] \in Legs
    BY <1>0, OptionsTyped DEF TypeOK
  <2> QED BY <1>0, <1>1, <1>6, <2>1 DEF FreshInv
<1>10. LegInv'
  <2> SUFFICES ASSUME NEW l \in Legs
               PROVE  /\ ~Created(l)' => /\ ~freed'[l] /\ locks'[l] = {} /\ collect'[l] = "none"
                                         /\ l \notin slots' /\ l \notin taken'
                      /\ freed'[l] => state'[l] = CS_DESTROY /\ locks'[l] = {}
    BY DEF LegInv
  <2>1. Apart(l) OBVIOUS
  <2> QED BY <1>0, <1>1, <1>6, <2>1 DEF LegInv, Apart
<1>11. HeldInv' BY <1>0, <1>4 DEF HeldInv, Apart
<1>12. WinnerInv'
  <2>1. \A l \in Legs : Has(l, "WINNER") => Has(l, "WINNER")' BY DEF Apart, LegMoves
  <2>2. \A l \in slots : Has(l, "WINNER") => Has(l, "WINNER")' BY <2>1, <1>5
  <2> QED BY <1>0, <1>1, <2>2 DEF WinnerInv, Has
<1>13. GoneInv'
  <2>1. \A l \in slots : Gone(l) => Gone(l)' BY <1>5, <1>7
  <2>2. pc' \in {"lose", "losehang"} =>
          \A k \in 1 .. N' : k < i' /\ Dialled'[k] \in slots' /\ Dialled'[k] # idx' => Gone(Dialled[k])'
    BY <1>0, <1>1, <1>2, <2>1 DEF GoneInv, Gone, IsUp
  <2>3. pc' = "answer" => \A l \in slots' : l # idx' => Gone(l)' BY <1>0, <1>1, <2>1 DEF GoneInv
  <2>4. status' => \A l \in slots' : l # bleg' => Gone(l)' BY <1>0, <1>1, <2>1 DEF GoneInv
  <2>5. \A l \in Legs : Created(l)' => Holds(l)' \/ (pc' = "lock" /\ l = Dialled'[i']) \/ Gone(l)'
    BY <1>0, <1>1, <1>2, <1>4, <1>6, <1>7 DEF GoneInv
  <2> QED BY <2>2, <2>3, <2>4, <2>5 DEF GoneInv
<1>14. TakenInv'
  <2>1. \A l \in Legs : Has(l, "ORIGINATING") \/ l \in taken => Has(l, "ORIGINATING")' \/ l \in taken'
    BY DEF Apart
  <2>2. \A l \in slots : Has(l, "ORIGINATING") \/ l \in taken => Has(l, "ORIGINATING")' \/ l \in taken'
    BY <2>1, <1>5
  <2>3. \A l \in Legs : l \in taken' => ~Has(l, "ORIGINATING")' BY DEF Apart
  <2>4. pc' \in {"losehang", "cleanhang"} => Dialled'[i'] \notin safe'
    <3> SUFFICES ASSUME pc \in {"losehang", "cleanhang"} PROVE Dialled[i] \notin safe'
      BY <1>1, <1>2
    <3>1. Dialled[i] \in Legs /\ Dialled[i] \in Doomed BY <1>0, <1>5 DEF PlaceInv, Doomed
    <3> QED BY <1>0, <3>1 DEF TakenInv, Apart
  <2>5. pc' \in Creating \cup Waiting => \A l \in slots' : Has(l, "ORIGINATING")' \/ l \in taken'
    BY <1>0, <1>1, <2>2 DEF TakenInv
  <2>6. pc' \in Cleaning => \A k \in i' .. N' : Dialled'[k] \in slots' =>
                              "ORIGINATING" \in flags'[Dialled'[k]] \/ Dialled'[k] \in taken'
    BY <1>0, <1>1, <1>2, <2>2 DEF TakenInv, Has
  <2> QED BY <2>3, <2>4, <2>5, <2>6 DEF TakenInv, Has
<1> QED BY <1>8, <1>9, <1>10, <1>11, <1>12, <1>13, <1>14 DEF CallInv
\* A step that leaves locks, sessions and takers alone.
LEMMA StaysApart ==
    ASSUME CallInv, NEW l \in Legs, LegStays(l), UNCHANGED <<freed, locks, collect, taken, safe>>
    PROVE  Apart(l)
BY DEF CallInv, LegInv, TakenInv, LegStays, LegMoves, Apart, Has

LEMMA OutsideStep ==
    ASSUME CallInv, Tick \/ CallerHangsUp \/ Cancel
    PROVE  CallInv'
<1>0. TypeOK /\ CallTyped /\ RestTyped /\ LegsTyped BY TypeParts DEF CallInv
<1>1. UNCHANGED <<call, abandoned, freed, locks, collect, taken, safe, leg>>
  BY DEF Tick, CallerHangsUp, Cancel, outside, sessions
<1>2. \A l \in Legs : Apart(l) BY <1>0, <1>1, SameLegs, StaysApart
<1>3. LegsTyped' BY <1>0, <1>1, SameLegs
<1>4. CallTyped' BY <1>0, <1>1 DEF CallTyped, call, dialling, scan, verdict
<1>5. elapsed' \in 0 .. MaxElapsed
  BY <1>0, OriginateAssumption DEF RestTyped, MaxElapsed, Tick, CallerHangsUp, Cancel
<1>6. /\ caller' \in {"none", "up", "down"} /\ cancel' \in BOOLEAN
      /\ caller = "down" => caller' = "down"
  BY <1>0 DEF RestTyped, Tick, CallerHangsUp, Cancel, outside
<1>7. RestTyped' BY <1>0, <1>1, <1>5, <1>6 DEF RestTyped
<1> QED BY <1>1, <1>2, <1>3, <1>4, <1>6, <1>7, TypePartsNext, ApartKeeps

LEMMA LegStep ==
    ASSUME CallInv, NEW l \in Legs,
           \/ LegRun(l) \/ Destroy(l) \/ Take(l)
           \/ CollectStart(l) \/ CollectKey(l) \/ CollectFails(l) \/ CollectEnd(l)
           \/ \E f \in opt.media : Remote(l, f)
           \/ \E why \in IF opt.reject = "cause" THEN {"listed", "other"} ELSE {"other"} : LegHangup(l, why)
    PROVE  CallInv'
<1>0. TypeOK /\ CallTyped /\ RestTyped /\ LegsTyped /\ LegInv /\ TakenInv /\ HeldInv
  BY TypeParts DEF CallInv
<1>1. UNCHANGED <<call, abandoned, elapsed, caller, cancel>>
  BY DEF LegRun, Destroy, Take, CollectStart, CollectKey, CollectFails, CollectEnd, Remote, LegHangup,
         sessions, outside
<1>2. CallTyped' BY <1>0, <1>1 DEF CallTyped, call, dialling, scan, verdict
<1> SUFFICES RestTyped' /\ LegsTyped' /\ \A m \in Legs : Apart(m)
  BY <1>1, <1>2, TypePartsNext, ApartKeeps
<1>a. ASSUME UNCHANGED <<outside, sessions>> PROVE RestTyped'
  BY <1>a, <1>0, <1>1 DEF RestTyped, outside, sessions
<1>b. ASSUME UNCHANGED <<outside, sessions>>, \A m \in Legs : LegStays(m) PROVE \A m \in Legs : Apart(m)
  BY <1>b, StaysApart DEF outside, sessions
<1>3. CASE LegRun(l)
  <2>1. UNCHANGED <<outside, sessions>> /\ UNCHANGED <<flags, cause, started>> BY <1>3 DEF LegRun
  <2>2. PICK s \in State : /\ state' = [state EXCEPT ![l] = s] /\ s # CS_NEW /\ Created(l)
                           /\ ~IsUp(l) => Down(s) /\ state[l] # CS_DESTROY
    BY <1>3, StatesAre DEF LegRun, Created, IsUp
  <2>3. LegsTyped' BY <1>0, <2>1, <2>2 DEF LegsTyped
  <2>4. ASSUME NEW m \in Legs PROVE LegStays(m)
    <3>1. CASE m = l
      <4>1. state'[l] = s BY <1>0, <2>2 DEF LegsTyped
      <4>2. state[l] # CS_DESTROY BY <1>3, StatesAre DEF LegRun, CS_INIT, CS_ROUTING, CS_HANGUP, CS_DESTROY
      <4> QED BY <2>1, <2>2, <3>1, <4>1, <4>2 DEF LegStays, LegMoves, Created, IsUp, Has
    <3>2. CASE m # l
      <4>1. state'[m] = state[m] BY <1>0, <2>2, <3>2 DEF LegsTyped
      <4> QED BY <2>1, <4>1 DEF LegStays, LegMoves, Created, IsUp, Has
    <3> QED BY <3>1, <3>2
  <2> QED BY <1>a, <1>b, <2>1, <2>3, <2>4
<1>4. CASE Destroy(l)
  <2>1. UNCHANGED leg /\ UNCHANGED <<locks, collect, taken, safe>> /\ freed' = [freed EXCEPT ![l] = TRUE]
    BY <1>4 DEF Destroy, outside
  <2>2. LegsTyped' /\ \A m \in Legs : LegStays(m) BY <1>0, <2>1, SameLegs
  <2>3. RestTyped' BY <1>0, <1>1, <2>1 DEF RestTyped
  <2>4. ASSUME NEW m \in Legs PROVE Apart(m)
    <3>1. state[l] = CS_DESTROY /\ locks[l] = {} BY <1>4 DEF Destroy
    <3>2. freed'[m] => m = l \/ freed[m] BY <1>0, <2>1 DEF RestTyped
    <3>3. ~Created(m) => m # l BY <3>1, StatesAre DEF Created
    <3>4. LegStays(m) BY <2>2
    <3>5. state'[m] = state[m] /\ locks'[m] = locks[m] BY <2>1 DEF leg
    <3> QED BY <1>0, <2>1, <3>1, <3>2, <3>3, <3>4, <3>5 DEF LegInv, TakenInv, LegStays, Apart, Has
  <2> QED BY <2>2, <2>3, <2>4
<1>5. CASE Take(l)
  <2>1. /\ taken' = taken \cup {l} /\ safe' = safe \cup ({l} \ Doomed)
        /\ flags' = [flags EXCEPT ![l] = @ \ {"ORIGINATING"}]
        /\ state' = [state EXCEPT ![l] = CS_ROUTING]
        /\ UNCHANGED <<cause, started, freed, locks, collect>>
    BY <1>5 DEF Take, sessions
  <2>2. IsUp(l) /\ "call" \in locks[l] BY <1>5 DEF Take
  <2>3. Created(l) /\ ~freed[l] BY <1>0, <2>2 DEF LegInv
  <2>4. RestTyped' BY <1>0, <1>1, <2>1 DEF RestTyped
  <2>5. LegsTyped' BY <1>0, <2>1, StatesAre DEF LegsTyped
  <2>6. ASSUME NEW m \in Legs PROVE Apart(m)
    <3>1. CASE m = l
      <4>1. state'[m] = CS_ROUTING /\ flags'[m] = flags[m] \ {"ORIGINATING"} BY <1>0, <2>1, <3>1 DEF LegsTyped
      <4>2. state[m] # CS_DESTROY BY <2>2, <3>1, StatesAre DEF IsUp
      <4>3. LegMoves(m) BY <2>2, <2>3, <3>1, <4>1, <4>2, StatesAre DEF LegMoves, Created, IsUp, Has
      <4>4. ~Has(m, "ORIGINATING")' BY <4>1 DEF Has
      <4> QED BY <2>1, <2>2, <2>3, <3>1, <4>3, <4>4 DEF Apart
    <3>2. CASE m # l
      <4>1. state'[m] = state[m] /\ flags'[m] = flags[m] BY <1>0, <2>1, <3>2 DEF LegsTyped
      <4>2. LegMoves(m) BY <4>1 DEF LegMoves, Created, IsUp, Has
      <4>3. Has(m, "ORIGINATING")' <=> Has(m, "ORIGINATING") BY <4>1 DEF Has
      <4>4. (m \in taken' <=> m \in taken) /\ (m \in safe' <=> m \in safe) BY <2>1, <3>2
      <4> QED BY <1>0, <2>1, <4>1, <4>2, <4>3, <4>4 DEF LegInv, TakenInv, Apart
    <3> QED BY <3>1, <3>2
  <2> QED BY <2>4, <2>5, <2>6
<1>6. ASSUME \/ CollectStart(l) \/ CollectKey(l) \/ CollectEnd(l)
      PROVE  RestTyped' /\ LegsTyped' /\ \A m \in Legs : Apart(m)
  <2>1. PICK L \in SUBSET {"call", "collect"}, c \in {"ask", "done"} :
          /\ locks' = [locks EXCEPT ![l] = L] /\ collect' = [collect EXCEPT ![l] = c]
          /\ "call" \in L <=> "call" \in locks[l]
          /\ ~IsUp(l) => L \subseteq locks[l]
    <3>1. CASE CollectStart(l)
      <4>1. CASE IsUp(l)
        <5>1. PICK L : L = locks[l] \cup {"collect"} OBVIOUS
        <5>2. L \in SUBSET {"call", "collect"} /\ ("call" \in L <=> "call" \in locks[l])
          BY <1>0, <5>1 DEF RestTyped
        <5>3. locks' = [locks EXCEPT ![l] = L] /\ collect' = [collect EXCEPT ![l] = "ask"]
          BY <3>1, <4>1, <5>1 DEF CollectStart
        <5> QED BY <4>1, <5>2, <5>3
      <4>2. CASE ~IsUp(l)
        <5>1. locks' = [locks EXCEPT ![l] = locks[l]] BY <1>0, <3>1, <4>2 DEF CollectStart, RestTyped
        <5> QED BY <1>0, <3>1, <4>2, <5>1 DEF CollectStart, RestTyped
      <4> QED BY <4>1, <4>2
    <3>2. CASE CollectKey(l) \/ CollectEnd(l)
      <4>1. /\ collect' = [collect EXCEPT ![l] = "done"]
            /\ locks' = [locks EXCEPT ![l] = locks[l] \ {"collect"}]
        BY <3>2 DEF CollectKey, CollectEnd, CollectLeaves
      <4> QED BY <1>0, <4>1 DEF RestTyped
    <3> QED BY <1>6, <3>1, <3>2
  <2>2. UNCHANGED <<freed, taken, safe, state, cause, started>>
    BY <1>6 DEF CollectStart, CollectKey, CollectEnd, outside, leg
  <2>3. /\ flags' \in [Legs -> SUBSET Flags]
        /\ \A m \in Legs : /\ Has(m, "ORIGINATING")' <=> Has(m, "ORIGINATING")
                           /\ Has(m, "WINNER") => Has(m, "WINNER")'
    <3>1. CASE CollectKey(l)
      <4>1. flags' = [flags EXCEPT ![l] = @ \cup {"WINNER"}] BY <3>1 DEF CollectKey
      <4> QED BY <1>0, <4>1 DEF LegsTyped, Flags, Has
    <3>2. CASE CollectStart(l) \/ CollectEnd(l)
      <4>1. flags' = flags BY <3>2 DEF CollectStart, CollectEnd, leg
      <4> QED BY <1>0, <4>1 DEF LegsTyped, Has
    <3> QED BY <1>6, <3>1, <3>2
  <2>4. RestTyped' BY <1>0, <1>1, <2>1, <2>2 DEF RestTyped
  <2>5. LegsTyped' BY <1>0, <2>2, <2>3 DEF LegsTyped
  <2>6. Created(l)
    <3>1. collect[l] # "none" BY <1>6 DEF CollectStart, CollectKey, CollectEnd
    <3> QED BY <1>0, <3>1 DEF LegInv
  <2>7. ASSUME NEW m \in Legs PROVE Apart(m)
    <3>1. LegStays(m) BY <2>2, <2>3 DEF LegStays, LegMoves, Created, IsUp, Has
    <3>2. CASE m = l
      <4>1. locks'[m] = L /\ collect'[m] = c BY <1>0, <2>1, <3>2 DEF RestTyped
      <4>2. freed[m] => ~IsUp(m) /\ locks[m] = {} /\ state[m] = CS_DESTROY BY <1>0, StatesAre DEF LegInv, IsUp
      <4>3. freed'[m] => state'[m] = CS_DESTROY /\ locks'[m] = {} BY <2>1, <2>2, <3>2, <4>1, <4>2
      <4> QED BY <1>0, <2>1, <2>2, <2>6, <3>1, <3>2, <4>1, <4>3 DEF TakenInv, LegStays, Apart
    <3>3. CASE m # l
      <4>1. locks'[m] = locks[m] /\ collect'[m] = collect[m] BY <1>0, <2>1, <3>3 DEF RestTyped
      <4> QED BY <1>0, <2>2, <3>1, <4>1 DEF LegInv, TakenInv, LegStays, Apart
    <3> QED BY <3>2, <3>3
  <2> QED BY <2>4, <2>5, <2>7
<1>7. CASE CollectFails(l)
  <2>1. UNCHANGED <<outside, sessions>> /\ HangUp({l}, "other") /\ collect[l] = "ask"
    BY <1>7 DEF CollectFails
  <2>2. Created(l) BY <1>0, <2>1 DEF LegInv
  <2>3. LegsTyped' /\ \A m \in Legs : LegStays(m) BY <1>0, <2>1, <2>2, HangUpStays DEF Causes
  <2> QED BY <1>a, <1>b, <2>1, <2>3
<1>8. ASSUME NEW f \in opt.media, Remote(l, f) PROVE RestTyped' /\ LegsTyped' /\ \A m \in Legs : Apart(m)
  <2>1. /\ UNCHANGED <<outside, sessions>> /\ UNCHANGED <<state, cause, started>>
        /\ flags' = [flags EXCEPT ![l] = @ \cup {f}]
    BY <1>8 DEF Remote
  <2>2. f \in Media BY <1>0, OptionsTyped DEF CallTyped
  <2>3. LegsTyped' BY <1>0, <2>1, <2>2 DEF LegsTyped, Flags
  <2>4. \A m \in Legs, g \in {"WINNER", "ORIGINATING"} : g \in flags'[m] <=> g \in flags[m]
    BY <1>0, <2>1, <2>2 DEF LegsTyped, Media
  <2>5. \A m \in Legs : LegStays(m) BY <2>1, <2>4 DEF LegStays, LegMoves, Created, IsUp, Has
  <2> QED BY <1>a, <1>b, <2>1, <2>3, <2>5
<1>9. ASSUME NEW why \in IF opt.reject = "cause" THEN {"listed", "other"} ELSE {"other"}, LegHangup(l, why)
      PROVE RestTyped' /\ LegsTyped' /\ \A m \in Legs : Apart(m)
  <2>1. UNCHANGED <<outside, sessions>> /\ HangUp({l}, why) /\ Created(l) BY <1>9 DEF LegHangup
  <2>2. why \in Causes BY DEF Causes
  <2>3. LegsTyped' /\ \A m \in Legs : LegStays(m) BY <1>0, <2>1, <2>2, HangUpStays
  <2> QED BY <1>a, <1>b, <2>1, <2>3
<1> QED BY <1>3, <1>4, <1>5, <1>6, <1>7, <1>8, <1>9
-----------------------------------------------------------------------------
(* The steps of the call while it creates the legs of a group and waits for *)
(* them: the legs it holds are the ones in its slots.                       *)

LEMMA WaitingStep ==
    ASSUME CallInv, TypeOK', pc \in (Creating \cup Waiting) \ {"done"},
           UNCHANGED <<opt, group, slots, freed, locks, taken, safe, abandoned>>,
           \A l \in Legs : LegStays(l),
           \A l \in Legs : ~Created(l) => collect'[l] = collect[l],
           pc' \in Waiting \/ (pc = "create" /\ pc' = "create" /\ i < N /\ i' = i + 1),
           pc = "lock" => ~IsUp(Dialled[i]),
           pc' = "losehang" => i' <= N /\ Dialled[i'] \in slots /\ Dialled[i'] \notin safe
    PROVE  /\ PlaceInv' /\ FreshInv' /\ LegInv' /\ HeldInv' /\ TakenInv'
           /\ \A l \in Legs : Gone(l) => Gone(l)'
           /\ \A l \in Legs : Created(l)' => Holds(l)' \/ (pc' = "lock" /\ l = Dialled'[i']) \/ Gone(l)'
           /\ Dialled' = Dialled /\ N' = N /\ ~status
<1>0. TypeOK /\ PlaceInv /\ FreshInv /\ LegInv /\ HeldInv /\ WinnerInv /\ GoneInv /\ TakenInv
  BY DEF CallInv
<1>1. Dialled' = Dialled /\ N' = N BY DEF Dialled, N
<1>2. \A l \in Legs : Gone(l) => Gone(l)' BY DEF LegStays, LegMoves, Gone
<1>3. \A l \in Legs : Created(l)' <=> Created(l) BY DEF LegStays, LegMoves
<1>4. ~status BY <1>0 DEF WinnerInv, Creating, Waiting, Cleaning
<1>5. pc \in InGroup /\ group # 0 BY <1>0 DEF PlaceInv, InGroup
<1>6. abandoned = {} BY <1>5, LegsOfCall
<1>7. PlaceInv'
  <2>1. pc' \in Creating => pc' = "create" BY DEF Creating, Waiting
  <2>2. pc' = "create" => i \in Nat /\ i' <= N /\ \A k \in i' .. N : Dialled[k] \notin slots
    BY <1>0, LegsOfCall, <1>5 DEF PlaceInv, Waiting
  <2>3. pc' # "cleanhang" /\ pc' # "lock" BY DEF Waiting
  <2> QED BY <1>0, <1>1, <1>5, <1>6, <2>1, <2>2, <2>3 DEF PlaceInv
<1>8. FreshInv'
  <2>1. \A g \in DOMAIN opt.dial : \A k \in DOMAIN opt.dial[g] : opt.dial[g][k] \in Legs /\ k \in Nat
    BY <1>0, OptionsTyped DEF TypeOK
  <2>2. pc' # "lock" BY DEF Waiting
  <2>3. pc' = "create" => pc = "create" /\ i' = i + 1 /\ i \in Nat BY <1>0 DEF Waiting, TypeOK
  <2>4. ASSUME NEW g \in DOMAIN opt.dial, NEW k \in DOMAIN opt.dial[g],
               g > group \/ (g = group /\ pc' = "create" /\ k >= i')
        PROVE  ~Created(opt.dial[g][k])
    BY <1>0, <2>1, <2>3, <2>4 DEF FreshInv
  <2> QED BY <1>3, <2>1, <2>2, <2>4 DEF FreshInv, Created
<1>9. LegInv'
  <2> SUFFICES ASSUME NEW l \in Legs
               PROVE  /\ ~Created(l)' => /\ ~freed'[l] /\ locks'[l] = {} /\ collect'[l] = "none"
                                         /\ l \notin slots' /\ l \notin taken'
                      /\ freed'[l] => state'[l] = CS_DESTROY /\ locks'[l] = {}
    BY DEF LegInv
  <2>1. state[l] = CS_DESTROY => state'[l] = CS_DESTROY BY DEF LegStays, LegMoves
  <2> QED BY <1>0, <1>3, <2>1 DEF LegInv
<1>10. pc' \in Creating \cup Waiting BY DEF Creating, Waiting
<1>11. \A l \in Legs : Holds(l)' <=> l \in slots
  BY <1>6, <1>10 DEF Holds, Creating, Waiting, Cleaning
<1>12. HeldInv' BY <1>0, <1>11, LegsOfCall DEF HeldInv
<1>13. TakenInv'
  <2>1. \A l \in Legs : Has(l, "ORIGINATING")' <=> Has(l, "ORIGINATING") BY DEF LegStays
  <2>2. \A l \in Legs : l \in taken' => ~Has(l, "ORIGINATING")' BY <1>0, <2>1 DEF TakenInv
  <2>3. \A l \in slots' : Has(l, "ORIGINATING")' \/ l \in taken'
    BY <1>0, <2>1, LegsOfCall DEF TakenInv
  <2>4. pc' \notin Cleaning BY <1>10 DEF Creating, Waiting, Cleaning
  <2>5. pc' \in {"losehang", "cleanhang"} => Dialled'[i'] \notin safe' BY <1>1, <1>10 DEF Creating, Waiting
  <2> QED BY <2>2, <2>3, <2>4, <2>5 DEF TakenInv
<1>14. \A l \in Legs : Created(l)' => Holds(l)' \/ (pc' = "lock" /\ l = Dialled'[i']) \/ Gone(l)'
  <2> SUFFICES ASSUME NEW l \in Legs, Created(l), l \notin slots PROVE Gone(l)
    BY <1>2, <1>3, <1>11
  <2>1. Holds(l) \/ (pc = "lock" /\ l = Dialled[i]) \/ Gone(l) BY <1>0 DEF GoneInv
  <2> QED BY <2>1, LegsOfCall DEF Gone
<1> QED BY <1>1, <1>2, <1>4, <1>7, <1>8, <1>9, <1>12, <1>13, <1>14
\* The same, for the steps that neither end the group nor look at a winner.
LEMMA WaitingKeeps ==
    ASSUME CallInv, TypeOK', pc \in (Creating \cup Waiting) \ {"done"},
           UNCHANGED <<opt, group, slots, freed, locks, taken, safe, abandoned>>,
           \A l \in Legs : LegStays(l),
           \A l \in Legs : ~Created(l) => collect'[l] = collect[l],
           pc' \in Waiting \/ (pc = "create" /\ pc' = "create" /\ i < N /\ i' = i + 1),
           pc = "lock" => ~IsUp(Dialled[i]),
           ~status', pc' \notin {"lose", "losehang", "answer"},
           pc' = "limits" => idx' \notin Legs,
           pc' = "notready" /\ caller' # "down" =>
             (idx' \in Legs => idx' \in slots /\ (opt.key => Has(idx', "WINNER")))
    PROVE  CallInv'
<1>1. /\ PlaceInv' /\ FreshInv' /\ LegInv' /\ HeldInv' /\ TakenInv'
      /\ \A l \in Legs : Created(l)' => Holds(l)' \/ (pc' = "lock" /\ l = Dialled'[i']) \/ Gone(l)'
  BY WaitingStep
<1>2. WinnerInv'
  <2>1. \A l \in slots : Has(l, "WINNER") => "WINNER" \in flags'[l]
    BY LegsOfCall DEF LegStays, LegMoves, Has
  <2>2. pc' # "returned" BY DEF Waiting
  <2> QED BY <2>1, <2>2 DEF WinnerInv, Has
<1>3. GoneInv' BY <1>1 DEF GoneInv
<1> QED BY <1>1, <1>2, <1>3 DEF CallInv

LEMMA CreateEnds ==
    ASSUME CallInv, TypeOK', CreateLate \/ (LockLeg /\ ~IsUp(Dialled[i]))
    PROVE  CallInv'
<1>1. /\ pc' = "done" /\ pc \in Creating /\ ~status' /\ (pc = "lock" => ~IsUp(Dialled[i]))
      /\ UNCHANGED <<opt, group, slots, freed, locks, collect, taken, safe, abandoned, leg>>
  BY DEF CreateLate, LockLeg, Creating, dialling, world, outside, sessions, leg
<1>2. \A l \in Legs : LegStays(l) BY <1>1, SameLegs DEF CallInv
<1> QED BY <1>1, <1>2, WaitingKeeps DEF Creating, Waiting

LEMMA CreateGoesOn ==
    ASSUME CallInv, TypeOK', NEW why \in Causes, CreateRefused(why),
           ~(opt.reject = "any" \/ (opt.reject = "cause" /\ why = "listed"))
    PROVE  CallInv'
<1>1. /\ pc = "create" /\ NextLeg
      /\ UNCHANGED <<opt, group, slots, freed, locks, collect, taken, safe, abandoned, status, leg>>
  BY DEF CreateRefused, dialling, outside
<1>2. \A l \in Legs : LegStays(l) BY <1>1, SameLegs DEF CallInv
<1>3. pc' = "launch" \/ (pc' = "create" /\ i < N /\ i' = i + 1) BY <1>1 DEF NextLeg
<1>4. ~status' BY <1>1 DEF CallInv, WinnerInv, Cleaning
<1> QED BY <1>1, <1>2, <1>3, <1>4, WaitingKeeps DEF Creating, Waiting

LEMMA LaunchKeeps == ASSUME CallInv, TypeOK', Launch PROVE CallInv'
<1>1. /\ pc = "launch"
      /\ UNCHANGED <<opt, group, slots, freed, locks, collect, taken, safe, abandoned, caller>>
  BY DEF Launch, outside, sessions
<1>2. UNCHANGED leg \/ CheckTimeouts BY DEF Launch
<1>3. \A l \in Legs : LegStays(l) BY <1>2, SameLegs, CheckTimeoutsStays, LegsOfCall DEF CallInv
<1>4. pc' \in {"launch", "check", "notready", "done"} BY <1>1 DEF Launch
<1>5. pc' = "notready" => caller' = "down" \/ idx' = "timeout" BY <1>1 DEF Launch
<1>6. ~status BY <1>1 DEF CallInv, WinnerInv, Cleaning
<1>7. ~status' BY <1>6 DEF Launch
<1> QED BY <1>1, <1>3, <1>4, <1>5, <1>7, WaitingKeeps, NoneIsNoLeg DEF Creating, Waiting

LEMMA CheckKeeps == ASSUME CallInv, TypeOK', Check PROVE CallInv'
<1> DEFINE winners == {k \in 1 .. N : Wins(Dialled[k])}
<1>1. /\ pc = "check"
      /\ UNCHANGED <<opt, group, slots, freed, locks, taken, safe, abandoned, status, state, cause, started>>
  BY DEF Check, dialling, verdict, outside
<1>2. /\ idx' = IF winners = {} THEN "nada" ELSE Dialled[Min(winners)]
      /\ pc' \in {"limits", "notready"} /\ (winners # {} => pc' = "notready")
  BY DEF Check
<1>3. N \in Nat /\ \A k \in 1 .. N : Dialled[k] \in Legs BY <1>1, LegsOfCall DEF InGroup, Waiting
<1>4. winners # {} => Min(winners) \in winners BY <1>3, MinIs
<1>5. idx' \in Legs => idx' \in slots /\ (opt.key => Has(idx', "WINNER"))
  <2>1. CASE winners = {} BY <1>2, <2>1, NoneIsNoLeg
  <2>2. CASE winners # {}
    <3>1. Wins(idx') BY <1>2, <1>4, <2>2
    <3> QED BY <3>1 DEF Wins, Candidate
  <2> QED BY <2>1, <2>2
<1>6. pc' = "limits" => idx' \notin Legs BY <1>2, NoneIsNoLeg
<1> HIDE DEF winners
<1>7. PICK asked \in SUBSET slots :
        /\ flags' = [l \in Legs |-> flags[l] \cup (IF l \in asked THEN {"TAGGED"} ELSE {})]
        /\ collect' = [l \in Legs |-> IF l \in asked THEN "new" ELSE collect[l]]
  <2> DEFINE w == {k \in 1 .. N : Wins(Dialled[k])}
             seen == 1 .. (IF w = {} THEN N ELSE Min(w))
             alive == {k \in seen : Dialled[k] \in slots}
             A == {l \in {Dialled[k] : k \in alive} :
                     opt.key /\ Candidate(l) /\ Accepted(l) /\ ~Has(l, "TAGGED")}
  <2>1. A \in SUBSET slots OBVIOUS
  <2>2. /\ flags' = [l \in Legs |-> flags[l] \cup (IF l \in A THEN {"TAGGED"} ELSE {})]
        /\ collect' = [l \in Legs |-> IF l \in A THEN "new" ELSE collect[l]]
    BY DEF Check
  <2> HIDE DEF A
  <2> QED BY <2>1, <2>2
<1>8. \A l \in Legs, f \in {"WINNER", "ORIGINATING"} : f \in flags'[l] <=> f \in flags[l] BY <1>7
<1>9. \A l \in Legs : LegStays(l) BY <1>1, <1>8 DEF LegStays, LegMoves, Created, IsUp, Has
<1>10. \A l \in Legs : ~Created(l) => collect'[l] = collect[l] BY <1>7, LegsOfCall
<1>11. ~status' BY <1>1 DEF CallInv, WinnerInv, Cleaning
<1> QED BY <1>1, <1>2, <1>5, <1>6, <1>9, <1>10, <1>11, WaitingKeeps DEF Creating, Waiting

LEMMA WaitingEnds ==
    ASSUME CallInv, TypeOK', CheckLate \/ CallerLeaves
    PROVE  CallInv'
<1>1. /\ pc' = "notready" /\ pc \in {"check", "limits"} /\ (pc = "limits" \/ caller = "down")
      /\ UNCHANGED <<opt, group, slots, freed, locks, collect, taken, safe, abandoned, leg, idx, status, caller>>
  BY DEF CheckLate, CallerLeaves, dialling, verdict, world, outside, sessions
<1>2. \A l \in Legs : LegStays(l) BY <1>1, SameLegs DEF CallInv
<1>3. ~status' /\ (pc = "limits" => idx \notin Legs) BY <1>1 DEF CallInv, WinnerInv, Cleaning
<1> QED BY <1>1, <1>2, <1>3, WaitingKeeps DEF Creating, Waiting

LEMMA LimitsKeeps == ASSUME CallInv, TypeOK', Limits PROVE CallInv'
<1>1. /\ pc = "limits"
      /\ UNCHANGED <<opt, group, slots, freed, locks, collect, taken, safe, abandoned, caller, status>>
  BY DEF Limits, outside, sessions
<1>2. UNCHANGED leg \/ CheckTimeouts BY DEF Limits
<1>3. \A l \in Legs : LegStays(l) BY <1>2, SameLegs, CheckTimeoutsStays, LegsOfCall DEF CallInv
<1>4. pc' \in {"check", "notready"} BY DEF Limits
<1>5. pc' = "notready" => idx' \in {"cancel", "timeout"} BY DEF Limits
<1>6. ~status' BY <1>1 DEF CallInv, WinnerInv, Cleaning
<1> QED BY <1>1, <1>3, <1>4, <1>5, <1>6, WaitingKeeps, NoneIsNoLeg DEF Creating, Waiting

LEMMA NoWinnerKeeps == ASSUME CallInv, TypeOK', NoWinner PROVE CallInv'
<1>1. /\ pc = "answer" /\ pc' = "done" /\ ~status'
      /\ UNCHANGED <<opt, group, slots, freed, locks, collect, taken, safe, abandoned, leg>>
  BY DEF NoWinner, dialling, world, outside, sessions
<1>2. \A l \in Legs : LegStays(l) BY <1>1, SameLegs DEF CallInv
<1> QED BY <1>1, <1>2, WaitingKeeps DEF Creating, Waiting
-----------------------------------------------------------------------------
(* Losers and the winner *)

LEMMA NotReadyKeeps == ASSUME CallInv, TypeOK', NotReady PROVE CallInv'
<1>1. /\ pc = "notready" /\ pc' = "lose" /\ i' = 1 /\ idx' = (IF caller = "down" THEN "cancel" ELSE idx)
      /\ UNCHANGED <<opt, group, slots, freed, locks, collect, taken, safe, abandoned, leg, status, bleg>>
  BY DEF NotReady, dialling, verdict, world, outside, sessions
<1>2. \A l \in Legs : LegStays(l) BY <1>1, SameLegs DEF CallInv
<1>3. /\ PlaceInv' /\ FreshInv' /\ LegInv' /\ HeldInv' /\ TakenInv' /\ ~status
      /\ \A l \in Legs : Created(l)' => Holds(l)' \/ (pc' = "lock" /\ l = Dialled'[i']) \/ Gone(l)'
  BY <1>1, <1>2, WaitingStep DEF Creating, Waiting
<1>4. flags' = flags BY <1>1 DEF leg
<1>5. WinnerInv' BY <1>1, <1>3, <1>4, NoneIsNoLeg DEF CallInv, WinnerInv, Has
<1>6. \A k \in 1 .. N' : ~(k < i') BY <1>1
<1>7. GoneInv' BY <1>1, <1>3, <1>6 DEF GoneInv
<1> QED BY <1>3, <1>5, <1>7 DEF CallInv

LEMMA LoseTestKeeps == ASSUME CallInv, TypeOK', LoseTest PROVE CallInv'
<1>1. /\ pc = "lose"
      /\ UNCHANGED <<opt, group, slots, freed, locks, collect, taken, safe, abandoned, leg, idx, status, bleg>>
  BY DEF LoseTest, dialling, verdict, world, outside, sessions
<1>2. /\ flags' = flags
      /\ \A l \in Legs : LegStays(l)
  BY <1>1, SameLegs DEF CallInv, leg
<1>3. TakenInv /\ GoneInv /\ WinnerInv /\ safe \subseteq taken BY DEF CallInv, TypeOK
<1>4. N \in Nat /\ i \in Nat \ {0} /\ \A k \in 1 .. N : Dialled[k] \in Legs
  BY <1>1, LegsOfCall DEF InGroup, Waiting
<1>5. /\ pc' \in {"lose", "losehang", "answer"}
      /\ pc' = "losehang" => i' <= N /\ Dialled[i'] \in slots /\ Dialled[i'] \notin safe
  <2>1. CASE i <= N /\ Eligible(Dialled[i]) /\ Dialled[i] # idx /\ pc' = "losehang" /\ UNCHANGED i
    <3>1. Dialled[i] \in Legs /\ Dialled[i] \in slots /\ Has(Dialled[i], "ORIGINATING")
      BY <2>1, <1>4 DEF Eligible
    <3> QED BY <1>3, <2>1, <3>1 DEF TakenInv
  <2>2. CASE pc' = "lose" BY <2>2
  <2>3. CASE pc' = "answer" BY <2>3
  <2> QED BY <1>1, <2>1, <2>2, <2>3 DEF LoseTest
<1>6. /\ PlaceInv' /\ FreshInv' /\ LegInv' /\ HeldInv' /\ TakenInv' /\ ~status
      /\ \A l \in Legs : Created(l)' => Holds(l)' \/ (pc' = "lock" /\ l = Dialled'[i']) \/ Gone(l)'
      /\ \A l \in Legs : Gone(l) => Gone(l)'
      /\ Dialled' = Dialled /\ N' = N
  BY <1>1, <1>2, <1>5, WaitingStep DEF Creating, Waiting
<1>7. WinnerInv' BY <1>1, <1>2, <1>3, <1>5, <1>6 DEF WinnerInv, Has
<1>8. \A k \in 1 .. N : k < i /\ Dialled[k] \in slots /\ Dialled[k] # idx => Gone(Dialled[k])
  BY <1>1, <1>3 DEF GoneInv
<1>9. \A k \in 1 .. N : Gone(Dialled[k]) => Gone(Dialled[k])'
  BY <1>1, <1>4, <1>6 DEF Gone, IsUp, leg
<1>10. GoneInv'
  <2>1. CASE pc' = "losehang" /\ UNCHANGED i
    <3>1. \A k \in 1 .. N' : k < i' /\ Dialled'[k] \in slots' /\ Dialled'[k] # idx' => Gone(Dialled[k])'
      BY <1>1, <1>6, <1>8, <1>9, <2>1
    <3> QED BY <1>1, <1>6, <2>1, <3>1 DEF GoneInv, Gone, IsUp
  <2>2. CASE /\ pc' = "lose" /\ i' = i + 1 /\ i <= N
             /\ ~(Eligible(Dialled[i]) /\ Dialled[i] # idx)
    <3>1. Dialled[i] \in slots /\ Dialled[i] # idx => Gone(Dialled[i])
      BY <1>1, <1>3, <2>2 DEF Eligible, TakenInv, Gone, Waiting
    <3>2. \A k \in 1 .. N : k < i' => k < i \/ k = i BY <1>4, <2>2
    <3>3. \A k \in 1 .. N : k < i' /\ Dialled[k] \in slots /\ Dialled[k] # idx => Gone(Dialled[k])
      BY <1>8, <3>1, <3>2
    <3>4. \A k \in 1 .. N' : k < i' /\ Dialled'[k] \in slots' /\ Dialled'[k] # idx' => Gone(Dialled[k])'
      BY <1>1, <1>6, <1>9, <3>3
    <3> QED BY <1>1, <1>6, <2>2, <3>4 DEF GoneInv, Gone, IsUp
  <2>3. CASE pc' = "answer" /\ i > N
    <3>1. ASSUME NEW l \in slots, l # idx PROVE Gone(l)
      <4>1. PICK k \in 1 .. N : l = Dialled[k] BY <1>1, LegsOfCall DEF InGroup, Waiting
      <4>2. k < i BY <1>4, <2>3
      <4> QED BY <1>8, <3>1, <4>1, <4>2
    <3>2. \A l \in slots' : l # idx' => Gone(l)' BY <1>1, <1>6, <3>1, LegsOfCall
    <3> QED BY <1>1, <1>6, <2>3, <3>2 DEF GoneInv
  <2> QED BY <1>1, <2>1, <2>2, <2>3 DEF LoseTest
<1> QED BY <1>6, <1>7, <1>10 DEF CallInv

LEMMA LoseHangKeeps == ASSUME CallInv, TypeOK', LoseHang PROVE CallInv'
<1>1. /\ pc = "losehang" /\ pc' = "lose" /\ i' = i + 1 /\ HangUp({Dialled[i]}, "other")
      /\ UNCHANGED <<opt, group, slots, freed, locks, collect, taken, safe, abandoned, idx, status, bleg>>
  BY DEF LoseHang, dialling, verdict, outside, sessions
<1>2. i <= N /\ Dialled[i] \in slots /\ i \in Nat \ {0} /\ N \in Nat
  BY <1>1, LegsOfCall DEF CallInv, PlaceInv, InGroup, Waiting
<1>3. Dialled[i] \in Legs /\ Created(Dialled[i]) BY <1>2, LegsOfCall
<1>4. /\ \A l \in Legs : LegStays(l)
      /\ ~Down(state'[Dialled[i]]) = FALSE
  <2>1. PICK d \in Legs : d = Dialled[i] /\ Created(d) /\ HangUp({d}, "other") BY <1>1, <1>3
  <2>2. /\ \A l \in Legs : LegStays(l)
        /\ ~IsUp(d)'
    BY <2>1, HangUpStays DEF CallInv, Causes
  <2> QED BY <2>1, <2>2 DEF IsUp
<1>5. /\ PlaceInv' /\ FreshInv' /\ LegInv' /\ HeldInv' /\ TakenInv' /\ ~status
      /\ \A l \in Legs : Created(l)' => Holds(l)' \/ (pc' = "lock" /\ l = Dialled'[i']) \/ Gone(l)'
      /\ \A l \in Legs : Gone(l) => Gone(l)'
      /\ Dialled' = Dialled /\ N' = N
  BY <1>1, <1>4, WaitingStep DEF Creating, Waiting
<1>6. \A l \in slots : Has(l, "WINNER") => "WINNER" \in flags'[l]
  BY <1>4, LegsOfCall DEF LegStays, LegMoves, Has
<1>7. WinnerInv' BY <1>1, <1>5, <1>6 DEF CallInv, WinnerInv, Has
<1>8. GoneInv'
  <2>1. ASSUME NEW k \in 1 .. N, k < i', Dialled[k] \in slots, Dialled[k] # idx
        PROVE  Down(state'[Dialled[k]]) \/ Dialled[k] \in taken'
    <3>1. CASE k = i BY <1>4, <3>1
    <3>2. CASE k # i
      <4>1. k < i BY <1>1, <1>2, <2>1, <3>2
      <4>2. PICK d \in Legs : d = Dialled[k] BY <2>1, LegsOfCall
      <4>3. Gone(d) BY <1>1, <2>1, <4>1, <4>2 DEF CallInv, GoneInv
      <4>4. Gone(d)' BY <1>5, <4>3
      <4> QED BY <4>2, <4>4 DEF Gone, IsUp
    <3> QED BY <3>1, <3>2
  <2>2. \A k \in 1 .. N' : k < i' /\ Dialled'[k] \in slots' /\ Dialled'[k] # idx' => Gone(Dialled[k])'
    BY <1>1, <1>5, <2>1 DEF Gone, IsUp
  <2> QED BY <1>1, <1>5, <2>2 DEF GoneInv, Gone, IsUp
<1> QED BY <1>5, <1>7, <1>8 DEF CallInv

LEMMA AnswerKeeps == ASSUME CallInv, TypeOK', NEW ok \in BOOLEAN, Answer(ok) PROVE CallInv'
<1>1. /\ pc = "answer" /\ idx \in Legs /\ pc' = "done"
      /\ UNCHANGED leg \/ HangUp({idx}, "other")
      /\ status' = Accepted(idx) /\ bleg' = (IF Accepted(idx) THEN idx ELSE bleg)
      /\ UNCHANGED <<opt, group, slots, freed, locks, collect, taken, safe, abandoned, idx>>
  BY DEF Answer, dialling, outside, sessions
<1>2. idx \in slots /\ (opt.key => Has(idx, "WINNER")) BY <1>1 DEF CallInv, WinnerInv
<1>3. \A l \in Legs : LegStays(l) BY <1>1, <1>2, LegsOfCall, SameLegs, HangUpStays DEF CallInv, Causes
<1>4. /\ PlaceInv' /\ FreshInv' /\ LegInv' /\ HeldInv' /\ TakenInv' /\ ~status
      /\ \A l \in Legs : Created(l)' => Holds(l)' \/ (pc' = "lock" /\ l = Dialled'[i']) \/ Gone(l)'
      /\ \A l \in Legs : Gone(l) => Gone(l)'
  BY <1>1, <1>3, WaitingStep DEF Creating, Waiting
<1>5. status' => bleg' = idx BY <1>1
<1>6. \A l \in slots : Has(l, "WINNER") => "WINNER" \in flags'[l]
  BY <1>3, LegsOfCall DEF LegStays, LegMoves, Has
<1>7. WinnerInv' BY <1>1, <1>2, <1>5, <1>6 DEF WinnerInv, Has
<1>8. \A l \in slots : l # idx => Gone(l) BY <1>1 DEF CallInv, GoneInv
<1>9. \A l \in slots' : l # idx => Gone(l)' BY <1>1, <1>4, <1>8, LegsOfCall
<1>10. GoneInv' BY <1>1, <1>4, <1>5, <1>9 DEF GoneInv
<1> QED BY <1>4, <1>7, <1>10 DEF CallInv
-----------------------------------------------------------------------------
(* Groups and their legs *)

\* A step of the call between groups, or from one leg to clean up to the next,
\* that touches no leg and no lock.
LEMMA QuietStep ==
    ASSUME CallInv, TypeOK', UNCHANGED <<opt, group, slots, world>>,
           pc \notin Creating, pc' \in Cleaning \cup {"group", "next", "return", "returned"},
           pc' \in Cleaning \cup {"next"} => group # 0,
           pc' = "cleanhang" => i' <= N /\ Dialled[i'] \in slots /\ ~status' /\ Dialled[i'] \notin safe,
           abandoned # {} => pc' \in {"return", "returned"} /\ ~status',
           \A l \in Legs : Holds(l)' <=> Holds(l),
           status' => status /\ pc' \in Cleaning \cup {"return", "returned"} /\ bleg' = bleg,
           pc' = "returned" => (status' <=> bleg' # None),
           pc' \in Cleaning => \A k \in i' .. N : Dialled[k] \in slots =>
                                 Has(Dialled[k], "ORIGINATING") \/ Dialled[k] \in taken
    PROVE  CallInv'
<1>0. TypeOK /\ PlaceInv /\ FreshInv /\ LegInv /\ HeldInv /\ WinnerInv /\ GoneInv /\ TakenInv
  BY DEF CallInv
<1>1. Dialled' = Dialled /\ N' = N BY DEF Dialled, N
<1>2. UNCHANGED <<state, flags, freed, locks, collect, abandoned, taken, safe, caller>>
  BY DEF world, leg, sessions, outside
<1>3. \A l \in Legs : (Created(l)' <=> Created(l)) /\ (Gone(l)' <=> Gone(l))
  BY <1>2 DEF Created, Gone, IsUp
<1>4. pc' \notin Creating \cup Waiting /\ pc' # "lock" /\ pc' # "create"
  BY DEF Creating, Waiting, Cleaning
<1>5. PlaceInv'
  <2>1. pc' \in InGroup \cup {"next"} => group' # 0 BY <1>4 DEF InGroup
  <2>2. pc' # "losehang" BY <1>4 DEF Waiting
  <2> QED BY <1>0, <1>1, <1>2, <1>4, <2>1, <2>2 DEF PlaceInv
<1>6. FreshInv' BY <1>0, <1>2, <1>4 DEF FreshInv, Created
<1>7. LegInv' BY <1>0, <1>2 DEF LegInv, Created
<1>8. HeldInv' BY <1>0, <1>2 DEF HeldInv
<1>9. WinnerInv' BY <1>0, <1>2, <1>4 DEF WinnerInv, Has, Waiting
<1>10. GoneInv'
  <2>1. pc # "lock" BY DEF Creating
  <2>2. \A l \in Legs : Created(l)' => Holds(l)' \/ Gone(l)' BY <1>0, <1>3, <2>1 DEF GoneInv
  <2>3. status' => \A l \in slots' : l # bleg' => Gone(l)' BY <1>0, <1>3, LegsOfCall DEF GoneInv
  <2>4. pc' \notin {"lose", "losehang", "answer"} BY <1>4 DEF Waiting
  <2> QED BY <2>2, <2>3, <2>4 DEF GoneInv
<1>11. TakenInv'
  <2>1. pc' # "losehang" BY <1>4 DEF Waiting
  <2> QED BY <1>0, <1>1, <1>2, <1>4, <2>1 DEF TakenInv, Has
<1> QED BY <1>5, <1>6, <1>7, <1>8, <1>9, <1>10, <1>11 DEF CallInv

LEMMA StartGroupKeeps == ASSUME CallInv, TypeOK', StartGroup PROVE CallInv'
<1>0. TypeOK /\ PlaceInv /\ FreshInv /\ LegInv /\ HeldInv /\ WinnerInv /\ GoneInv /\ TakenInv
  BY DEF CallInv
<1>1. pc = "group" /\ UNCHANGED <<opt, status, bleg, world>> BY DEF StartGroup
<1>2. ~status /\ abandoned = {} BY <1>0, <1>1 DEF WinnerInv, PlaceInv, Cleaning
<1>3. \A l \in Legs : ~Holds(l) BY <1>1, <1>2 DEF Holds, Kept, Creating, Waiting, Cleaning
<1>4. UNCHANGED <<state, flags, freed, locks, collect, abandoned, taken, safe, caller>>
  BY <1>1 DEF world, leg, sessions, outside
<1>5. CASE AGroupIsLeft
  <2>1. /\ pc' = "create" /\ group' = group + 1 /\ i' = 1 /\ slots' = {} /\ group < Len(opt.dial)
    BY <1>5 DEF StartGroup, AGroupIsLeft
  <2>2. group \in Nat /\ group + 1 \in DOMAIN opt.dial BY <1>0, <2>1, OptionsTyped DEF TypeOK
  <2>3. opt.dial[group + 1] \in Seq(Legs) /\ opt.dial[group + 1] # <<>> BY <1>0, <2>2, OptionsTyped DEF TypeOK
  <2>4. N' = Len(opt.dial[group + 1]) BY <1>1, <2>1 DEF N, Dialled
  <2>5. N' \in Nat \ {0} BY <2>3, <2>4
  <2>6. \A l \in Legs : ~Holds(l)' BY <1>2, <1>4, <2>1 DEF Holds, Cleaning
  <2>7. PlaceInv' BY <1>2, <1>4, <2>1, <2>2, <2>5 DEF PlaceInv
  <2>8. FreshInv'
    <3>1. \A g \in DOMAIN opt.dial : g \in Nat BY <1>0, OptionsTyped DEF TypeOK
    <3>2. ASSUME NEW g \in DOMAIN opt.dial, g > group + 1 \/ g = group + 1 PROVE g > group
      BY <2>2, <3>1, <3>2
    <3> QED BY <1>0, <1>1, <1>4, <2>1, <3>2 DEF FreshInv, Created
  <2>9. LegInv' BY <1>0, <1>4, <2>1 DEF LegInv, Created
  <2>10. HeldInv' BY <1>0, <1>3, <1>4, <2>6 DEF HeldInv
  <2>11. WinnerInv' BY <1>1, <1>2, <2>1 DEF WinnerInv
  <2>12. GoneInv'
    <3>1. \A l \in Legs : Created(l)' => Gone(l)' BY <1>0, <1>1, <1>3, <1>4 DEF GoneInv, Created, Gone, IsUp
    <3> QED BY <1>1, <1>2, <2>1, <3>1 DEF GoneInv
  <2>13. TakenInv' BY <1>0, <1>4, <2>1 DEF TakenInv, Has, Cleaning
  <2> QED BY <2>7, <2>8, <2>9, <2>10, <2>11, <2>12, <2>13 DEF CallInv
<1>6. CASE ~AGroupIsLeft
  <2>1. pc' = "return" /\ UNCHANGED <<group, slots>> BY <1>6 DEF StartGroup
  <2>2. \A l \in Legs : ~Holds(l)' BY <1>1, <1>2, <1>4, <2>1 DEF Holds, Kept, Creating, Waiting, Cleaning
  <2> QED BY <1>1, <1>2, <1>3, <2>1, <2>2, QuietStep DEF Creating, Cleaning
<1> QED BY <1>5, <1>6

LEMMA CreateAbandons ==
    ASSUME CallInv, TypeOK', NEW why \in Causes, CreateRefused(why),
           opt.reject = "any" \/ (opt.reject = "cause" /\ why = "listed")
    PROVE  CallInv'
<1>0. TypeOK /\ PlaceInv /\ FreshInv /\ LegInv /\ HeldInv /\ WinnerInv /\ GoneInv /\ TakenInv
  BY DEF CallInv
<1>1. /\ pc = "create" /\ pc' = "return" /\ ~status' /\ abandoned' = abandoned \cup slots
      /\ UNCHANGED <<opt, group, slots, freed, locks, collect, taken, safe, state, flags, i>>
  BY DEF CreateRefused, dialling, outside, leg
<1>2. abandoned' = slots /\ \A l \in Legs : Holds(l) <=> l \in slots BY <1>1, LegsOfCall DEF Creating
<1>3. Dialled' = Dialled /\ N' = N BY <1>1 DEF Dialled, N
<1>4. \A l \in Legs : Holds(l)' <=> l \in slots BY <1>1, <1>2 DEF Holds, Kept, Creating, Waiting, Cleaning
<1>5. PlaceInv' BY <1>0, <1>1, <1>3 DEF PlaceInv, InGroup, Creating, Waiting, Cleaning
<1>6. FreshInv' BY <1>0, <1>1 DEF FreshInv, Created
<1>7. LegInv' BY <1>0, <1>1 DEF LegInv, Created
<1>8. HeldInv' BY <1>0, <1>1, <1>2, <1>4 DEF HeldInv
<1>9. WinnerInv' BY <1>1 DEF WinnerInv
<1>10. \A l \in Legs : Created(l)' => Holds(l)' \/ Gone(l)'
  BY <1>0, <1>1, <1>2, <1>4 DEF GoneInv, Created, Gone, IsUp
<1>11. GoneInv' BY <1>1, <1>10 DEF GoneInv
<1>12. TakenInv' BY <1>0, <1>1 DEF TakenInv, Has, Creating, Waiting, Cleaning
<1> QED BY <1>5, <1>6, <1>7, <1>8, <1>9, <1>11, <1>12 DEF CallInv
LEMMA CreateLegKeeps == ASSUME CallInv, TypeOK', CreateLeg PROVE CallInv'
<1>0. TypeOK /\ PlaceInv /\ FreshInv /\ LegInv /\ HeldInv /\ WinnerInv /\ GoneInv /\ TakenInv
  BY DEF CallInv
<1>1. /\ pc = "create" /\ pc' = "lock" /\ state' = [state EXCEPT ![Dialled[i]] = CS_INIT]
      /\ UNCHANGED <<opt, group, i, slots, idx, status, bleg, flags, freed, locks, collect, taken, safe,
                     abandoned, caller>>
  BY DEF CreateLeg, dialling, verdict, outside, sessions
<1>2. Dialled' = Dialled /\ N' = N BY <1>1 DEF Dialled, N
<1>3. group # 0 /\ i \in 1 .. N
  BY <1>0, <1>1, LegsOfCall DEF PlaceInv, InGroup, Creating
<1>4. group \in DOMAIN opt.dial /\ DOMAIN opt.dial[group] = 1 .. N BY <1>0, <1>3, DialledTyped DEF Dialled
<1>5. PICK d \in Legs : d = Dialled[i] BY <1>0, <1>3, DialledTyped
<1>6. ~Created(d)
  <2>1. i \in DOMAIN opt.dial[group] /\ i >= i /\ opt.dial[group][i] = d BY <1>3, <1>4, <1>5 DEF Dialled
  <2> QED BY <1>0, <1>1, <1>4, <2>1 DEF FreshInv
<1>7. state'[d] = CS_INIT /\ \A l \in Legs : l # d => state'[l] = state[l] BY <1>0, <1>1, <1>5 DEF TypeOK
<1>8. \A l \in Legs : Holds(l)' <=> Holds(l)
  BY <1>0, <1>1 DEF Holds, PlaceInv, Creating, Waiting, Cleaning
<1>9. PlaceInv'
  <2>1. d \notin slots /\ d \notin taken BY <1>0, <1>6 DEF LegInv
  <2>2. Created(Dialled[i])' BY <1>1, <1>2, <1>5, <1>7, StatesAre DEF Created
  <2> QED BY <1>0, <1>1, <1>2, <1>3, <1>5, <2>1, <2>2 DEF PlaceInv, InGroup, Creating
<1>10. FreshInv'
  <2> SUFFICES ASSUME NEW g \in DOMAIN opt.dial, NEW k \in DOMAIN opt.dial[g],
                      g > group \/ (g = group /\ k > i)
               PROVE  state'[opt.dial[g][k]] = CS_NEW
    BY <1>1 DEF FreshInv, Created
  <2>1. opt.dial[g][k] \in Legs /\ k \in Nat /\ g \in Nat /\ group \in Nat
    BY <1>0, OptionsTyped DEF TypeOK
  <2>2. ~Created(opt.dial[g][k]) BY <1>0, <1>1, <1>3, <2>1 DEF FreshInv
  <2>3. opt.dial[g][k] # d
    <3>1. Fresh(opt.dial) BY <1>0, OptionsTyped DEF TypeOK
    <3>2. ~(g = group /\ k = i) BY <1>3, <2>1
    <3> QED BY <1>3, <1>4, <1>5, <3>1, <3>2 DEF Fresh, Dialled
  <2> QED BY <1>7, <2>1, <2>2, <2>3 DEF Created
<1>11. LegInv'
  <2> SUFFICES ASSUME NEW l \in Legs
               PROVE  /\ ~Created(l)' => /\ ~freed'[l] /\ locks'[l] = {} /\ collect'[l] = "none"
                                         /\ l \notin slots' /\ l \notin taken'
                      /\ freed'[l] => state'[l] = CS_DESTROY /\ locks'[l] = {}
    BY DEF LegInv
  <2>1. CASE l = d BY <1>0, <1>1, <1>6, <1>7, <2>1, StatesAre DEF LegInv, Created
  <2>2. CASE l # d BY <1>0, <1>1, <1>7, <2>2 DEF LegInv, Created
  <2> QED BY <2>1, <2>2
<1>12. HeldInv' BY <1>0, <1>1, <1>8 DEF HeldInv
<1>13. ~status BY <1>0, <1>1 DEF WinnerInv, Cleaning
<1>14. WinnerInv' BY <1>1, <1>13 DEF WinnerInv
<1>15. GoneInv'
  <2>1. ASSUME NEW l \in Legs, l # d, Created(l)' PROVE Holds(l)' \/ Gone(l)'
    BY <1>0, <1>1, <1>7, <1>8, <2>1 DEF GoneInv, Created, Gone, IsUp
  <2> QED BY <1>1, <1>2, <1>5, <1>13, <2>1 DEF GoneInv
<1>16. TakenInv' BY <1>0, <1>1 DEF TakenInv, Has, Creating, Cleaning
<1> QED BY <1>9, <1>10, <1>11, <1>12, <1>14, <1>15, <1>16 DEF CallInv

LEMMA LockLegKeeps == ASSUME CallInv, TypeOK', LockLeg, IsUp(Dialled[i]) PROVE CallInv'
<1>0. TypeOK /\ PlaceInv /\ FreshInv /\ LegInv /\ HeldInv /\ WinnerInv /\ GoneInv /\ TakenInv
  BY DEF CallInv
<1>1. /\ pc = "lock" /\ NextLeg /\ locks' = [locks EXCEPT ![Dialled[i]] = @ \cup {"call"}]
      /\ slots' = slots \cup {Dialled[i]}
      /\ UNCHANGED <<opt, group, idx, status, bleg, state, freed, collect, taken, safe, abandoned, caller>>
  BY DEF LockLeg, outside
<1>2. Dialled' = Dialled /\ N' = N BY <1>1 DEF Dialled, N
<1>3. group # 0 /\ i \in 1 .. N /\ N \in Nat
  BY <1>0, <1>1, LegsOfCall DEF PlaceInv, InGroup, Creating
<1>4. PICK d \in Legs : d = Dialled[i] BY <1>0, <1>3, DialledTyped
<1>5. /\ pc' \in {"create", "launch"}
      /\ pc' = "create" => i' = i + 1 /\ i < N
  BY <1>1 DEF NextLeg
<1>6. Created(d) /\ d \notin taken /\ d \notin slots /\ ~freed[d]
  <2>1. ~freed[d] BY <1>0, <1>4, StatesAre DEF LegInv, IsUp
  <2>2. Created(d) /\ d \notin taken /\ \A k \in i .. N : Dialled[k] \notin slots BY <1>0, <1>1, <1>4 DEF PlaceInv
  <2> QED BY <1>3, <1>4, <2>1, <2>2
<1>7. "call" \in locks'[d] /\ \A l \in Legs : l # d => locks'[l] = locks[l] BY <1>0, <1>1, <1>4 DEF TypeOK
<1>8. PICK block :
        /\ flags' = [flags EXCEPT ![d] = @ \cup {"ORIGINATING"} \cup block]
        /\ "ORIGINATING" \notin block
  <2>1. PICK b : /\ flags' = [flags EXCEPT ![d] = @ \cup {"ORIGINATING"} \cup b]
                 /\ b = IF limits[d].delay > 0 /\ ~started[d] THEN {"BLOCK_STATE"} ELSE {}
    BY <1>4 DEF LockLeg
  <2>2. "ORIGINATING" \notin b BY <2>1
  <2> QED BY <2>1, <2>2
<1>9. /\ "ORIGINATING" \in flags'[d]
      /\ \A l \in Legs : l # d => flags'[l] = flags[l]
  BY <1>0, <1>8 DEF TypeOK
<1>10. abandoned = {} /\ \A l \in Legs : Holds(l) <=> l \in slots BY <1>1, LegsOfCall DEF Creating
<1>11. \A l \in Legs : Holds(l)' <=> l \in slots \cup {d}
  BY <1>1, <1>4, <1>5, <1>10 DEF Holds, Creating, Waiting, Cleaning
<1>12. ~status BY <1>0, <1>1 DEF WinnerInv, Cleaning
<1>13. PlaceInv'
  <2>1. \A l \in slots' : \E k \in 1 .. N' : l = Dialled'[k] BY <1>0, <1>1, <1>2, <1>3 DEF PlaceInv
  <2>2. pc' = "create" => \A k \in i' .. N' : Dialled'[k] \notin slots'
    <3> SUFFICES ASSUME pc' = "create", NEW k \in i' .. N PROVE Dialled[k] \notin slots \cup {Dialled[i]}
      BY <1>1, <1>2
    <3>1. k \in i .. N /\ k \in 1 .. N /\ k # i BY <1>3, <1>5
    <3> QED BY <1>0, <1>1, <1>3, <3>1, DialledTyped DEF PlaceInv
  <2>3. pc' = "create" => i' <= N' BY <1>2, <1>3, <1>5
  <2> QED BY <1>1, <1>3, <1>5, <1>10, <2>1, <2>2, <2>3 DEF PlaceInv, Creating
<1>14. FreshInv'
  <2> SUFFICES ASSUME NEW g \in DOMAIN opt.dial, NEW k \in DOMAIN opt.dial[g],
                      g > group \/ (g = group /\ pc' = "create" /\ k >= i')
               PROVE  state[opt.dial[g][k]] = CS_NEW
    BY <1>1, <1>5 DEF FreshInv, Created
  <2>1. k \in Nat BY <1>0, OptionsTyped DEF TypeOK
  <2>2. g > group \/ (g = group /\ k > i) BY <1>3, <1>5, <2>1
  <2> QED BY <1>0, <1>1, <2>2 DEF FreshInv, Created
<1>15. LegInv'
  <2> SUFFICES ASSUME NEW l \in Legs
               PROVE  /\ ~Created(l)' => /\ ~freed'[l] /\ locks'[l] = {} /\ collect'[l] = "none"
                                         /\ l \notin slots' /\ l \notin taken'
                      /\ freed'[l] => state'[l] = CS_DESTROY /\ locks'[l] = {}
    BY DEF LegInv
  <2>1. CASE l = d BY <1>1, <1>6, <2>1 DEF Created
  <2>2. CASE l # d BY <1>0, <1>1, <1>4, <1>7, <2>2 DEF LegInv, Created
  <2> QED BY <2>1, <2>2
<1>16. HeldInv' BY <1>0, <1>7, <1>10, <1>11 DEF HeldInv
<1>17. WinnerInv' BY <1>1, <1>5, <1>12 DEF WinnerInv
<1>18. GoneInv'
  <2>1. ASSUME NEW l \in Legs, Created(l)' PROVE Holds(l)' \/ Gone(l)'
    BY <1>0, <1>1, <1>4, <1>10, <1>11, <2>1 DEF GoneInv, Created, Gone, IsUp
  <2> QED BY <1>1, <1>5, <1>12, <2>1 DEF GoneInv
<1>19. TakenInv'
  <2>1. \A l \in Legs : l \in taken' => ~Has(l, "ORIGINATING")' BY <1>0, <1>1, <1>6, <1>9 DEF TakenInv, Has
  <2>2. \A l \in slots' : Has(l, "ORIGINATING")' \/ l \in taken'
    <3> SUFFICES ASSUME NEW l \in slots \cup {d} PROVE "ORIGINATING" \in flags'[l] \/ l \in taken
      BY <1>1, <1>4 DEF Has
    <3>1. CASE l = d BY <1>9, <3>1
    <3>2. CASE l # d BY <1>0, <1>1, <1>9, <3>2, LegsOfCall DEF TakenInv, Has, Creating
    <3> QED BY <3>1, <3>2
  <2> QED BY <1>5, <2>1, <2>2 DEF TakenInv, Cleaning
<1> QED BY <1>13, <1>14, <1>15, <1>16, <1>17, <1>18, <1>19 DEF CallInv
-----------------------------------------------------------------------------
(* Cleaning up *)

LEMMA DoneKeeps == ASSUME CallInv, TypeOK', Done PROVE CallInv'
<1>0. TypeOK /\ PlaceInv /\ HeldInv /\ WinnerInv /\ TakenInv BY DEF CallInv
<1>1. /\ pc = "done" /\ pc' = "clean" /\ i' = 1 /\ status' = (status /\ caller # "down")
      /\ UNCHANGED <<opt, group, slots, bleg, world>>
  BY DEF Done, dialling
<1>2. abandoned = {} /\ abandoned' = {} /\ group # 0
  BY <1>0, <1>1 DEF PlaceInv, InGroup, Waiting, world, sessions
<1>3. Dialled' = Dialled /\ N' = N BY <1>1 DEF Dialled, N
<1>4. \A l \in slots : \E k \in 1 .. N : l = Dialled[k] BY <1>0, <1>2 DEF PlaceInv
<1>5. ASSUME NEW l \in Legs PROVE Holds(l)' <=> Holds(l)
  <2>1. Holds(l) <=> l \in slots BY <1>1, LegsOfCall DEF Waiting
  <2>2. Kept(l)' => l \in slots BY <1>0, <1>1 DEF Kept, WinnerInv
  <2>3. Holds(l)' <=> (l \in slots /\ \E k \in 1 .. N : l = Dialled[k]) \/ Kept(l)'
    BY <1>1, <1>2, <1>3 DEF Holds, Creating, Waiting, Cleaning
  <2> QED BY <1>4, <2>1, <2>2, <2>3
<1>6. \A k \in i' .. N : Dialled[k] \in slots => Has(Dialled[k], "ORIGINATING") \/ Dialled[k] \in taken
  BY <1>0, <1>1 DEF TakenInv, Waiting
<1> QED BY <1>1, <1>2, <1>5, <1>6, QuietStep DEF Creating, Cleaning

LEMMA CleanPassKeeps == ASSUME CallInv, TypeOK', CleanPass PROVE CallInv'
<1>0. TypeOK /\ PlaceInv /\ HeldInv /\ WinnerInv /\ TakenInv BY DEF CallInv
<1>1. pc = "clean" /\ UNCHANGED <<opt, group, slots, status, bleg, world>>
  BY DEF CleanPass, dialling, verdict
<1>2. abandoned = {} /\ abandoned' = {} /\ group # 0 /\ safe \subseteq taken
  BY <1>0, <1>1 DEF PlaceInv, InGroup, Cleaning, world, sessions, TypeOK
<1>3. Dialled' = Dialled /\ N' = N BY <1>1 DEF Dialled, N
<1>4. /\ N \in Nat /\ i \in Nat /\ \A k \in 1 .. N : Dialled[k] \in Legs
      /\ \A l \in slots : \E k \in 1 .. N : l = Dialled[k]
  BY <1>1, LegsOfCall DEF InGroup, Cleaning
<1>5. \A l \in Legs : Kept(l)' <=> Kept(l) BY <1>1 DEF Kept
<1>6. \A l \in Legs : Holds(l) <=> (l \in slots /\ \E k \in i .. N : l = Dialled[k]) \/ Kept(l)
  BY <1>1, <1>2 DEF Holds, Creating, Waiting, Cleaning
<1>7. \A k \in i .. N : Dialled[k] \in slots => Has(Dialled[k], "ORIGINATING") \/ Dialled[k] \in taken
  BY <1>0, <1>1 DEF TakenInv, Cleaning
<1>8. CASE i <= N /\ Dialled[i] \notin slots /\ i' = i + 1 /\ pc' = pc
  <2>1. \A l \in Legs : Holds(l)' <=> (l \in slots /\ \E k \in i' .. N : l = Dialled[k]) \/ Kept(l)
    BY <1>1, <1>2, <1>3, <1>5, <1>8 DEF Holds, Creating, Waiting, Cleaning
  <2>2. \A k \in i .. N : k = i \/ k \in i' .. N BY <1>4, <1>8
  <2>3. \A k \in i' .. N : k \in i .. N BY <1>4, <1>8
  <2>4. \A l \in Legs : Holds(l)' <=> Holds(l) BY <1>6, <1>8, <2>1, <2>2, <2>3
  <2>5. \A k \in i' .. N : Dialled[k] \in slots => Has(Dialled[k], "ORIGINATING") \/ Dialled[k] \in taken
    BY <1>7, <2>3
  <2> QED BY <1>1, <1>2, <1>8, <2>4, <2>5, QuietStep DEF Creating, Cleaning
<1>9. CASE i <= N /\ Dialled[i] \in slots /\ ToHangUp(Dialled[i]) /\ pc' = "cleanhang" /\ i' = i
  <2>1. \A l \in Legs : Holds(l)' <=> Holds(l)
    BY <1>1, <1>2, <1>3, <1>5, <1>6, <1>9 DEF Holds, Creating, Waiting, Cleaning
  <2>2. Dialled[i] \notin safe
    BY <1>0, <1>2, <1>9, LegsOfCall DEF ToHangUp, TakenInv
  <2>3. ~status BY <1>9 DEF ToHangUp
  <2> QED BY <1>1, <1>2, <1>7, <1>9, <2>1, <2>2, <2>3, QuietStep DEF Creating, Cleaning
<1>10. CASE i > N /\ pc' = (IF status THEN "return" ELSE "next") /\ i' = i
  <2>1. \A k \in i .. N : FALSE BY <1>4, <1>10
  <2>2. \A l \in Legs : Holds(l) <=> Kept(l) BY <1>6, <2>1
  <2>3. \A l \in Legs : Holds(l)' <=> Kept(l)
    BY <1>1, <1>2, <1>5, <1>10 DEF Holds, Kept, Creating, Waiting, Cleaning
  <2>4. \A l \in Legs : Holds(l)' <=> Holds(l) BY <2>2, <2>3
  <2> QED BY <1>1, <1>2, <1>10, <2>4, QuietStep DEF Creating, Cleaning
<1> QED BY <1>1, <1>8, <1>9, <1>10 DEF CleanPass

LEMMA NextGroupKeeps == ASSUME CallInv, TypeOK', NextGroup PROVE CallInv'
<1>0. PlaceInv /\ WinnerInv BY DEF CallInv
<1>1. /\ pc = "next" /\ pc' \in {"return", "group"}
      /\ UNCHANGED <<opt, group, slots, status, bleg, world>>
  BY DEF NextGroup, dialling, verdict
<1>2. ~status /\ abandoned = {} /\ abandoned' = {}
  BY <1>0, <1>1 DEF PlaceInv, WinnerInv, Cleaning, world, sessions
<1>3. \A l \in Legs : ~Holds(l) /\ ~Holds(l)'
  BY <1>1, <1>2 DEF Holds, Kept, Creating, Waiting, Cleaning
<1> QED BY <1>1, <1>2, <1>3, QuietStep DEF Creating, Cleaning

LEMMA ReturnKeeps == ASSUME CallInv, TypeOK', Return PROVE CallInv'
<1>0. TypeOK /\ PlaceInv /\ WinnerInv BY DEF CallInv
<1>1. /\ pc = "return" /\ pc' = "returned" /\ bleg' = (IF status THEN bleg ELSE None)
      /\ status' = (status /\ bleg # None)
      /\ UNCHANGED <<opt, group, slots, world>>
  BY DEF Return, dialling
<1>2. status => bleg # None BY <1>0, LegsOfCall, NoneIsNoLeg DEF WinnerInv
<1>3. UNCHANGED abandoned /\ (abandoned # {} => ~status)
  BY <1>0, <1>1 DEF PlaceInv, world, sessions
<1>4. (status' <=> status) /\ (status => bleg' = bleg) /\ (~status => bleg' = None)
  BY <1>0, <1>1, <1>2 DEF TypeOK
<1>5. \A l \in Legs : Kept(l)' <=> Kept(l) BY <1>4 DEF Kept
<1>6. \A l \in Legs : Holds(l)' <=> Holds(l)
  BY <1>1, <1>3, <1>5 DEF Holds, Creating, Waiting, Cleaning
<1> QED BY <1>1, <1>2, <1>3, <1>4, <1>6, QuietStep DEF Creating, Cleaning

\* The leg at i is done with: it is the one that is kept, or nobody's any more.
LEMMA LegIsCleaned ==
    ASSUME CallInv, TypeOK', pc \in Cleaning, pc' = "clean", i <= N, i' = i + 1,
           NEW d \in slots, d = Dialled[i],
           UNCHANGED <<opt, group, slots, status, bleg, freed, collect, taken, safe, abandoned>>,
           \A l \in Legs : LegMoves(l),
           \A l \in Legs : l # d => locks'[l] = locks[l] /\ (Has(l, "ORIGINATING")' <=> Has(l, "ORIGINATING")),
           ~Has(d, "ORIGINATING")', locks'[d] \subseteq locks[d],
           "call" \in locks'[d] <=> Kept(d), Kept(d) \/ Gone(d)'
    PROVE  CallInv'
<1>0. TypeOK /\ PlaceInv /\ FreshInv /\ LegInv /\ HeldInv /\ WinnerInv /\ GoneInv /\ TakenInv
  BY DEF CallInv
<1>1. Dialled' = Dialled /\ N' = N BY DEF Dialled, N
<1>2. /\ group # 0 /\ abandoned = {} /\ d \in Legs
      /\ N \in Nat /\ i \in Nat \ {0} /\ \A k \in 1 .. N : Dialled[k] \in Legs
      /\ \A k, m \in 1 .. N : Dialled[k] = Dialled[m] => k = m
  BY <1>0, LegsOfCall DEF PlaceInv, InGroup, Cleaning
<1>3. /\ \A k \in i .. N : k = i \/ k \in i' .. N
      /\ \A k \in i' .. N : k \in i .. N /\ k \in 1 .. N /\ k # i
  BY <1>2
<1>4. \A k \in i' .. N : Dialled[k] # d BY <1>2, <1>3
<1>5. \A l \in Legs : Kept(l)' <=> Kept(l) BY DEF Kept
<1>6. \A l \in Legs : Holds(l) <=> (l \in slots /\ \E k \in i .. N : l = Dialled[k]) \/ Kept(l)
  BY <1>2 DEF Holds, Creating, Waiting, Cleaning
<1>7. \A l \in Legs : Holds(l)' <=> (l \in slots /\ \E k \in i' .. N : l = Dialled[k]) \/ Kept(l)
  BY <1>1, <1>2, <1>5 DEF Holds, Creating, Waiting, Cleaning
<1>8. Holds(d)' <=> Kept(d) BY <1>2, <1>4, <1>7
<1>9. \A l \in Legs : l # d => (Holds(l)' <=> Holds(l)) BY <1>3, <1>6, <1>7
<1>10. \A l \in Legs : (Created(l)' <=> Created(l)) /\ (Gone(l) => Gone(l)') BY DEF LegMoves, Gone
<1>11. PlaceInv' BY <1>0, <1>1, <1>2 DEF PlaceInv, Creating
<1>12. FreshInv'
  <2>1. \A g \in DOMAIN opt.dial : \A k \in DOMAIN opt.dial[g] : opt.dial[g][k] \in Legs
    BY <1>0, OptionsTyped DEF TypeOK
  <2> QED BY <1>0, <1>10, <2>1 DEF FreshInv
<1>13. LegInv'
  <2> SUFFICES ASSUME NEW l \in Legs
               PROVE  /\ ~Created(l)' => /\ ~freed'[l] /\ locks'[l] = {} /\ collect'[l] = "none"
                                         /\ l \notin slots' /\ l \notin taken'
                      /\ freed'[l] => state'[l] = CS_DESTROY /\ locks'[l] = {}
    BY DEF LegInv
  <2>1. locks'[l] \subseteq locks[l] OBVIOUS
  <2>2. state[l] = CS_DESTROY => state'[l] = CS_DESTROY BY DEF LegMoves
  <2> QED BY <1>0, <1>10, <2>1, <2>2 DEF LegInv
<1>14. HeldInv' BY <1>0, <1>8, <1>9 DEF HeldInv
<1>15. WinnerInv'
  <2>1. \A l \in slots : Has(l, "WINNER") => "WINNER" \in flags'[l] BY LegsOfCall DEF LegMoves, Has
  <2> QED BY <1>0, <2>1 DEF WinnerInv, Has, Cleaning
<1>16. GoneInv'
  <2>1. pc # "lock" BY DEF Cleaning
  <2>2. ASSUME NEW l \in Legs, Created(l)' PROVE Holds(l)' \/ Gone(l)'
    <3>1. CASE l = d BY <1>8, <3>1
    <3>2. CASE l # d BY <1>0, <1>9, <1>10, <2>1, <2>2, <3>2 DEF GoneInv
    <3> QED BY <3>1, <3>2
  <2>3. status' => \A l \in slots' : l # bleg' => Gone(l)' BY <1>0, <1>10, LegsOfCall DEF GoneInv
  <2> QED BY <2>2, <2>3 DEF GoneInv
<1>17. TakenInv'
  <2>1. \A l \in Legs : l \in taken' => ~Has(l, "ORIGINATING")' BY <1>0 DEF TakenInv
  <2>2. \A k \in i' .. N' : Dialled'[k] \in slots' =>
          "ORIGINATING" \in flags'[Dialled'[k]] \/ Dialled'[k] \in taken'
    <3> SUFFICES ASSUME NEW k \in i' .. N, Dialled[k] \in slots
                 PROVE  "ORIGINATING" \in flags'[Dialled[k]] \/ Dialled[k] \in taken
      BY <1>1
    <3>1. PICK e \in Legs : e = Dialled[k] /\ e # d BY <1>2, <1>3, <1>4
    <3>2. Has(e, "ORIGINATING") \/ e \in taken BY <1>0, <1>3, <3>1 DEF TakenInv
    <3> QED BY <3>1, <3>2 DEF Has
  <2> QED BY <2>1, <2>2 DEF TakenInv, Has, Creating, Waiting
<1> QED BY <1>11, <1>12, <1>13, <1>14, <1>15, <1>16, <1>17 DEF CallInv

LEMMA CleanKeeps == ASSUME CallInv, TypeOK', Clean PROVE CallInv'
<1>0. TypeOK /\ LegInv /\ HeldInv /\ GoneInv /\ TakenInv BY DEF CallInv
<1>1. /\ pc = "clean" /\ i <= N /\ Dialled[i] \in slots /\ ~ToHangUp(Dialled[i])
      /\ flags' = [flags EXCEPT ![Dialled[i]] = @ \ {"ORIGINATING"}]
      /\ UNCHANGED <<opt, group, slots, status, bleg, state, freed, collect, taken, safe, abandoned>>
  BY DEF Clean, dialling, verdict, outside
<1>2. PICK d \in slots : d = Dialled[i] BY <1>1
<1>3. d \in Legs /\ i \in Nat \ {0} /\ N \in Nat BY <1>1, LegsOfCall DEF InGroup, Cleaning
<1>4. pc' = "clean" /\ i' = i + 1 BY <1>1 DEF Clean, LetGo
<1>5. Holds(d) BY <1>1, <1>2, <1>3 DEF Holds, Cleaning
<1>6. "call" \in locks[d] BY <1>0, <1>3, <1>5 DEF HeldInv
<1>7. /\ \A l \in Legs : l # d => locks'[l] = locks[l]
      /\ locks'[d] \subseteq locks[d] /\ ("call" \in locks'[d] <=> Kept(d))
  <2>1. CASE Kept(d) BY <1>2, <1>6, <2>1 DEF Clean
  <2>2. CASE ~Kept(d)
    <3>1. locks' = [locks EXCEPT ![d] = @ \ {"call"}] BY <1>2, <2>2 DEF Clean, LetGo
    <3> QED BY <1>0, <1>3, <2>2, <3>1 DEF TypeOK
  <2> QED BY <2>1, <2>2
<1>8. /\ flags'[d] = flags[d] \ {"ORIGINATING"}
      /\ \A l \in Legs : l # d => flags'[l] = flags[l]
  BY <1>0, <1>1, <1>2, <1>3 DEF TypeOK
<1>9. ~Has(d, "ORIGINATING")' BY <1>8 DEF Has
<1>10. \A l \in Legs : l # d => (Has(l, "ORIGINATING")' <=> Has(l, "ORIGINATING")) BY <1>8 DEF Has
<1>11. ASSUME NEW l \in Legs PROVE LegMoves(l)
  <2>1. "WINNER" \in flags[l] => "WINNER" \in flags'[l] BY <1>8
  <2> QED BY <1>1, <2>1 DEF LegMoves, Created, IsUp, Has
<1>12. Kept(d) \/ Gone(d)
  <2>1. CASE status BY <1>0, <2>1 DEF Kept, GoneInv
  <2>2. CASE ~status
    <3>1. ~IsUp(d) \/ ~Has(d, "ORIGINATING") BY <1>1, <1>2, <2>2 DEF ToHangUp
    <3>2. i \in i .. N BY <1>1, <1>3
    <3>3. Has(d, "ORIGINATING") \/ d \in taken BY <1>0, <1>1, <1>2, <3>2 DEF TakenInv, Cleaning
    <3> QED BY <3>1, <3>3 DEF Gone
  <2> QED BY <2>1, <2>2
<1>13. Kept(d) \/ Gone(d)' BY <1>1, <1>12 DEF Gone, IsUp
<1> QED BY <1>1, <1>2, <1>4, <1>7, <1>9, <1>10, <1>11, <1>13, LegIsCleaned DEF Cleaning

LEMMA CleanHangKeeps == ASSUME CallInv, TypeOK', CleanHang PROVE CallInv'
<1>0. TypeOK /\ PlaceInv BY DEF CallInv
<1>1. /\ pc = "cleanhang" /\ pc' = "clean" /\ i' = i + 1
      /\ state' = [state EXCEPT ![Dialled[i]] = IF IsUp(Dialled[i]) THEN CS_HANGUP ELSE @]
      /\ flags' = [flags EXCEPT ![Dialled[i]] = @ \ {"ORIGINATING", "BLOCK_STATE"}]
      /\ locks' = [locks EXCEPT ![Dialled[i]] = @ \ {"call"}]
      /\ UNCHANGED <<opt, group, slots, status, bleg, freed, collect, taken, safe, abandoned>>
  BY DEF CleanHang, LetGo, dialling, verdict, outside
<1>2. i <= N /\ Dialled[i] \in slots /\ ~status BY <1>0, <1>1 DEF PlaceInv
<1>3. PICK d \in slots : d = Dialled[i] BY <1>2
<1>4. d \in Legs /\ Created(d) BY LegsOfCall
<1>5. /\ \A l \in Legs : l # d => locks'[l] = locks[l] /\ flags'[l] = flags[l] /\ state'[l] = state[l]
      /\ locks'[d] = locks[d] \ {"call"} /\ flags'[d] = flags[d] \ {"ORIGINATING", "BLOCK_STATE"}
      /\ state'[d] = IF IsUp(d) THEN CS_HANGUP ELSE state[d]
  BY <1>0, <1>1, <1>3, <1>4 DEF TypeOK
<1>6. ASSUME NEW l \in Legs PROVE LegMoves(l)
  <2>1. "WINNER" \in flags[l] => "WINNER" \in flags'[l] BY <1>5
  <2>2. CASE l = d BY <1>4, <1>5, <2>1, <2>2, StatesAre DEF LegMoves, Created, IsUp, Has
  <2>3. CASE l # d BY <1>5, <2>1, <2>3 DEF LegMoves, Created, IsUp, Has
  <2> QED BY <2>2, <2>3
<1>7. \A l \in Legs : l # d => locks'[l] = locks[l] /\ (Has(l, "ORIGINATING")' <=> Has(l, "ORIGINATING"))
  BY <1>5 DEF Has
<1>8. /\ ~Has(d, "ORIGINATING")' /\ locks'[d] \subseteq locks[d] /\ "call" \notin locks'[d]
  BY <1>5 DEF Has
<1>9. ~Kept(d) /\ Gone(d)' BY <1>2, <1>5, StatesAre DEF Kept, Gone, IsUp
<1> QED BY <1>1, <1>2, <1>3, <1>6, <1>7, <1>8, <1>9, LegIsCleaned DEF Cleaning
-----------------------------------------------------------------------------
(* The theorems *)

LEMMA CallKeeps == ASSUME CallInv, Call PROVE CallInv'
<1>1. TypeOK' BY CallTypes DEF CallInv
<1>2. ASSUME NEW why \in Causes \ {"none"}, CreateRefused(why) PROVE CallInv'
  BY <1>1, <1>2, CreateGoesOn, CreateAbandons
<1>3. ASSUME LockLeg PROVE CallInv' BY <1>1, <1>3, CreateEnds, LockLegKeeps
<1>4. ASSUME NEW ok \in BOOLEAN, Answer(ok) PROVE CallInv' BY <1>1, <1>4, AnswerKeeps
<1>5. ASSUME StartGroup \/ CreateLate \/ CreateLeg PROVE CallInv'
  BY <1>1, <1>5, StartGroupKeeps, CreateEnds, CreateLegKeeps
<1>6. ASSUME Launch \/ Check \/ CheckLate \/ Limits \/ CallerLeaves PROVE CallInv'
  BY <1>1, <1>6, LaunchKeeps, CheckKeeps, WaitingEnds, LimitsKeeps
<1>7. ASSUME NotReady \/ LoseTest \/ LoseHang \/ NoWinner PROVE CallInv'
  BY <1>1, <1>7, NotReadyKeeps, LoseTestKeeps, LoseHangKeeps, NoWinnerKeeps
<1>8. ASSUME Done \/ Clean \/ CleanPass \/ CleanHang \/ NextGroup \/ Return PROVE CallInv'
  BY <1>1, <1>8, DoneKeeps, CleanKeeps, CleanPassKeeps, CleanHangKeeps, NextGroupKeeps, ReturnKeeps
<1> QED BY <1>2, <1>3, <1>4, <1>5, <1>6, <1>7, <1>8, Zenon DEF Call

LEMMA Inductive == CallInv /\ [Next]_vars => CallInv'
<1> SUFFICES ASSUME CallInv, [Next]_vars PROVE CallInv' OBVIOUS
<1>1. CASE Call BY <1>1, CallKeeps
<1>2. CASE Tick \/ CallerHangsUp \/ Cancel BY <1>2, OutsideStep
<1>3. ASSUME NEW l \in Legs,
             \/ LegRun(l) \/ Destroy(l) \/ Take(l)
             \/ CollectStart(l) \/ CollectKey(l) \/ CollectFails(l) \/ CollectEnd(l)
             \/ \E f \in opt.media : Remote(l, f)
             \/ \E why \in IF opt.reject = "cause" THEN {"listed", "other"} ELSE {"other"} : LegHangup(l, why)
      PROVE  CallInv'
  BY <1>3, LegStep
<1>4. CASE UNCHANGED vars
  <2>1. /\ UNCHANGED <<call, abandoned, caller, freed, locks, collect, taken, safe, leg, elapsed, cancel>>
    BY <1>4 DEF vars, world, outside, sessions
  <2>2. TypeOK /\ CallTyped /\ RestTyped BY TypeParts DEF CallInv
  <2>3. LegsTyped' /\ \A l \in Legs : LegStays(l) BY <2>1, <2>2, SameLegs
  <2>4. \A l \in Legs : Apart(l) BY <2>1, <2>3, StaysApart
  <2>5. CallTyped' BY <2>1, <2>2 DEF CallTyped, call, dialling, scan, verdict
  <2>6. RestTyped' BY <2>1, <2>2 DEF RestTyped
  <2> QED BY <2>1, <2>3, <2>4, <2>5, <2>6, TypePartsNext, ApartKeeps
<1> QED BY <1>1, <1>2, <1>3, <1>4, Zenon DEF Next

\* The inductive invariant holds in every state of every call.
THEOREM Invariance == Spec => []CallInv
<1> QED BY InitInv, Inductive, PTL DEF Spec

\* The variables have their types.
THEOREM TypeCorrect == Spec => []TypeOK
<1>1. CallInv => TypeOK BY DEF CallInv
<1> QED BY <1>1, Invariance, PTL

\* No session is destroyed under the call: while a leg is dialled, wins, loses or
\* is cleaned up, and when it is returned, the call holds a read lock on it, and a
\* session is destroyed only when nobody does.
THEOREM NoneDestroyedUnderCall == Spec => []LegIsLive
<1>1. CallInv => LegIsLive
  <2> SUFFICES ASSUME CallInv PROVE LegIsLive OBVIOUS
  <2>1. LegInv /\ HeldInv /\ WinnerInv BY DEF CallInv
  <2>2. \A l \in Legs : Holds(l) => ~freed[l] BY <2>1 DEF LegInv, HeldInv
  <2>3. pc \in Creating \cup Waiting => \A l \in slots : ~freed[l] BY <2>2, LegsOfCall
  <2>4. pc \in Cleaning => \A k \in i .. N : Dialled[k] \in slots => ~freed[Dialled[k]]
    BY <2>2, LegsOfCall DEF Holds
  <2>5. pc \in Cleaning \cup {"return", "returned"} /\ status => ~freed[bleg]
    <3> SUFFICES ASSUME pc \in Cleaning \cup {"return", "returned"}, status PROVE ~freed[bleg] OBVIOUS
    <3>1. bleg \in Legs BY <2>1, LegsOfCall DEF WinnerInv
    <3>2. Holds(bleg) BY DEF Holds, Kept
    <3> QED BY <2>2, <3>1, <3>2
  <2> QED BY <2>3, <2>4, <2>5 DEF LegIsLive
<1> QED BY <1>1, Invariance, PTL

\* A call that has returned holds a lock on the leg it returns and on no other,
\* and no other leg rings on: whatever the legs, the caller and others did, and
\* whichever way each group ended.
THEOREM NothingIsLeftBehind == Spec => []NoneLeftBehind
<1>1. CallInv => NoneLeftBehind
  <2> SUFFICES ASSUME CallInv, pc = "returned", NEW l \in Legs \ abandoned
               PROVE  /\ "call" \in locks[l] <=> l = bleg
                      /\ Created(l) /\ l # bleg => ~IsUp(l) \/ l \in taken
    BY DEF NoneLeftBehind
  <2>1. HeldInv /\ WinnerInv /\ GoneInv BY DEF CallInv
  <2>2. Holds(l) <=> Kept(l) BY DEF Holds, Creating, Waiting, Cleaning
  <2>3. Kept(l) <=> l = bleg BY <2>1, NoneIsNoLeg DEF Kept, WinnerInv
  <2>4. "call" \in locks[l] <=> l = bleg BY <2>1, <2>2, <2>3 DEF HeldInv
  <2>5. Created(l) /\ l # bleg => ~IsUp(l) \/ l \in taken BY <2>1, <2>2, <2>3 DEF GoneInv, Gone
  <2> QED BY <2>4, <2>5
<1> QED BY <1>1, Invariance, PTL

\* With group_confirm_key the leg that is returned has confirmed.
THEOREM WinnerHasConfirmed == Spec => []ConfirmedWins
<1>1. CallInv => ConfirmedWins BY DEF CallInv, WinnerInv, ConfirmedWins
<1> QED BY <1>1, Invariance, PTL

\* A leg that another thread has transferred away is not hung up as a loser or
\* with the remains of a failed group, unless that was decided before.
THEOREM TransferredIsKept == Spec => TakenIsKept
<1> DEFINE Hangs == pc \in {"losehang", "cleanhang"} /\ pc' # pc
           Keeps == \A l \in safe : IsUp(l) => ~Down(state'[l])
<1>1. CallInv /\ [Next]_vars => [Hangs => Keeps]_vars
  <2> SUFFICES ASSUME CallInv, Next, Hangs PROVE Keeps OBVIOUS
  <2>0. TypeOK /\ PlaceInv /\ TakenInv BY DEF CallInv
  <2>1. LoseHang \/ CleanHang
    <3>1. pc' # pc /\ pc \in {"losehang", "cleanhang"} OBVIOUS
    <3>2. Call
      BY <3>1 DEF Next, Tick, CallerHangsUp, Cancel, LegRun, Destroy, Take, CollectStart, CollectKey,
                  CollectFails, CollectEnd, Remote, LegHangup, call
    <3> QED BY <3>1, <3>2
      DEF Call, StartGroup, CreateLate, CreateLeg, LockLeg, CreateRefused, Launch, Check, CheckLate, Limits,
          CallerLeaves, NotReady, LoseTest, NoWinner, Answer, Done, Clean, CleanPass, NextGroup, Return
  <2>2. Dialled[i] \in slots /\ Dialled[i] \notin safe BY <2>0 DEF PlaceInv, TakenInv
  <2>3. PICK d \in Legs : d = Dialled[i] /\ d \notin safe /\ Created(d) BY <2>2, LegsOfCall
  <2>4. \A l \in Legs : l # d => state'[l] = state[l]
    <3>1. CASE LoseHang
      <4>1. HangUp({d}, "other") BY <2>3, <3>1 DEF LoseHang
      <4> QED BY <2>0, <2>3, <4>1, HangUpStays DEF Causes
    <3>2. CASE CleanHang
      <4>1. state' = [state EXCEPT ![d] = IF IsUp(d) THEN CS_HANGUP ELSE @] BY <2>3, <3>2 DEF CleanHang
      <4> QED BY <2>0, <4>1 DEF TypeOK
    <3> QED BY <2>1, <3>1, <3>2
  <2>5. safe \subseteq Legs BY <2>0 DEF TypeOK
  <2> QED BY <2>3, <2>4, <2>5 DEF IsUp
<1> QED BY <1>1, Invariance, PTL DEF Spec, TakenIsKept
=============================================================================
