---------------------------- MODULE BridgeProofs ----------------------------
(***************************************************************************)
(* Proofs about the bridge of two sessions, for any number of other        *)
(* threads, any requests of theirs and any flags and variables of the      *)
(* legs: its types, that the read locks on the sessions balance, and that  *)
(* a leg that is transferred away is not hung up by the bridge.            *)
(***************************************************************************)
EXTENDS Bridge, TLAPS

-----------------------------------------------------------------------------
(* Channel states *)

LEMMA StatesTyped ==
    /\ CS_NEW \in State /\ CS_ROUTING \in State /\ CS_EXECUTE \in State
    /\ CS_EXCHANGE_MEDIA \in State /\ CS_PARK \in State /\ CS_CONSUME_MEDIA \in State
    /\ CS_HIBERNATE \in State /\ CS_RESET \in State /\ CS_HANGUP \in State
BY DEF State, CS_NEW, CS_ROUTING, CS_EXECUTE, CS_EXCHANGE_MEDIA, CS_PARK, CS_CONSUME_MEDIA,
       CS_HIBERNATE, CS_RESET, CS_HANGUP, CS_DESTROY

\* No change that the table accepts brings a channel that is down up again.
LEMMA DownForGood ==
    ASSUME NEW r \in State, NEW s \in State, Down(r), Legal(r, s)
    PROVE  Down(s)
<1> USE DEF CS_NEW, CS_INIT, CS_ROUTING, CS_SOFT_EXECUTE, CS_EXECUTE, CS_EXCHANGE_MEDIA, CS_PARK,
            CS_CONSUME_MEDIA, CS_HIBERNATE, CS_RESET, CS_HANGUP, CS_REPORTING, CS_DESTROY
<1>1. r \in {CS_HANGUP, CS_REPORTING, CS_DESTROY} BY DEF Down, State
<1>2. r \notin {CS_NEW, CS_RESET} /\ r \notin Up BY <1>1 DEF Up, Working
<1>3. \/ r = CS_HANGUP /\ s \in {CS_REPORTING, CS_DESTROY}
      \/ r = CS_REPORTING /\ s = CS_DESTROY
  BY <1>1, <1>2 DEF Legal
<1> QED BY <1>3 DEF Down

\* What a step does to the state of a leg: it keeps its type, and a leg that is
\* down stays down.
StateMoves == state' \in [Legs -> State] /\ \A l \in Legs : IsDown(l) => IsDown(l)'

LEMMA BecomesMoves ==
    ASSUME TypeOK, NEW l \in Legs, NEW s \in State, Becomes(l, s)
    PROVE  StateMoves
BY DownForGood DEF TypeOK, Becomes, StateMoves, IsDown

LEMMA HungUpMoves ==
    ASSUME TypeOK, NEW l \in Legs, HungUp(l)
    PROVE  StateMoves /\ IsDown(l)'
<1>1. Down(CS_HANGUP) BY DEF Down, CS_HANGUP
<1> QED BY <1>1, StatesTyped DEF TypeOK, HungUp, StateMoves, IsDown

LEMMA UnchangedMoves ==
    ASSUME TypeOK, UNCHANGED state
    PROVE  StateMoves
BY DEF TypeOK, StateMoves, IsDown

LEMMA DropMoves ==
    ASSUME TypeOK, NEW l \in Legs, Drop(l)
    PROVE  /\ StateMoves /\ IsDown(l)'
           /\ dropped' \subseteq dropped \cup {l}
BY HungUpMoves DEF Drop

LEMMA DropIfMoves ==
    ASSUME TypeOK, NEW l \in Legs, NEW p, DropIf(p, l)
    PROVE  /\ StateMoves
           /\ dropped' \subseteq dropped \cup {l}
           /\ dropped' # dropped => p /\ IsDown(l)'
BY DropMoves, UnchangedMoves DEF DropIf

-----------------------------------------------------------------------------
(* The inductive invariant *)

\* Once a leg was transferred out of the bridge, neither leg is anywhere a bridge
\* thread hangs the other up, or can come there again: leg b has lost the state
\* handlers of the bridge when it is out of it.  And the leg has CF_TRANSFER until
\* its own thread has decided what follows the bridge, or has the bridge behind it.
Staying == {"loop", "turn", "leave", "held", "verdict"}

PastJoining ==
    /\ pc[a] \notin {"start", "lock", "answer", "exchange", "join", "wait"}
    /\ pc[b] \notin {"data", "join", "wait"}
    /\ pc[b] \in Staying \/ ~handlers

Marked(l) ==
    /\ \/ Has(l, "TRANSFER")
       \/ l = b /\ pc[b] \notin Staying
       \/ l = a /\ pc[a] \in {"elsewhere", "destroyed"}
    /\ l = a => pc[a] \notin {"after", "past"}

\* What the bridge has hung up is down, which a leg is not when it is transferred.
KeptInv ==
    /\ \A l \in dropped : IsDown(l)
    /\ moved # {} => PastJoining
    /\ \A l \in moved : Marked(l)
    /\ TransferIsKept

\* A session is destroyed when it is down, so that nobody locks it any more, and
\* nobody has it locked.
GoneInv == \A l \in Legs : pc[l] = "destroyed" => IsDown(l) /\ locks[l] = 0

BridgeInv == TypeOK /\ LocksBalance /\ KeptInv /\ GoneInv

LEMMA InitInv == Init => BridgeInv
<1> SUFFICES ASSUME Init PROVE BridgeInv OBVIOUS
<1> USE BridgeAssumption
<1>1. TypeOK
  <2>1. pc = [l \in Legs |-> IF l = a THEN "start" ELSE "top"] BY DEF Init
  <2>2. pc \in [Legs -> InThread \cup PointsA \cup PointsB] /\ pc[a] = "start" /\ pc[b] = "top"
    BY <2>1 DEF Legs, a, b, PointsA, PointsB
  <2>3. pc[a] \in InThread \cup PointsA /\ pc[b] \in InThread \cup PointsB
    BY <2>2 DEF PointsA, PointsB
  <2>4. state \in [Legs -> State] /\ running \in [Legs -> State]
    BY StatesTyped DEF Init
  <2>5. flags \in [Legs -> SUBSET Flags] BY DEF Init, Flags
  <2>6. plan \in Plans /\ after \in [Legs -> After] BY DEF Init
  <2>7. request \in [Outsiders -> [at : Stages, leg : Legs, both : BOOLEAN]]
    BY DEF Init, Idle, Stages, Legs
  <2>8. clean \in [Legs -> BOOLEAN] /\ handlers \in BOOLEAN /\ data \in BOOLEAN /\ early \in BOOLEAN
    BY DEF Init
  <2>9. locks \in [Legs -> 0 .. 3] /\ requests \in 0 .. MaxRequests
    BY DEF Init
  <2> QED BY <2>2, <2>3, <2>4, <2>5, <2>6, <2>7, <2>8, <2>9 DEF Init, TypeOK
<1>2. LocksBalance BY DEF Init, LocksBalance, Legs, a, b, InThread
<1>3. KeptInv BY DEF Init, KeptInv, TransferIsKept
<1>4. GoneInv BY DEF Init, GoneInv
<1> QED BY <1>1, <1>2, <1>3, <1>4 DEF BridgeInv

\* The parts of a step that leave the program points and the locks alone.
OutsideKeeps ==
    /\ UNCHANGED <<pc, locks, running, data, clean, after, plan, dropped, expired>>
    /\ StateMoves
    /\ flags' \in [Legs -> SUBSET Flags]
    /\ \A l \in Legs : Has(l, "TRANSFER") => Has(l, "TRANSFER")'
    /\ handlers' \in BOOLEAN /\ (handlers' => handlers)
    /\ request' \in [Outsiders -> [at : Stages, leg : Legs, both : BOOLEAN]]
    /\ requests' \in 0 .. MaxRequests /\ early' \in BOOLEAN

\* Another thread, and the far end, disturb neither.
LEMMA OutsideStep ==
    ASSUME BridgeInv, OutsideKeeps, UNCHANGED moved
    PROVE  BridgeInv'
<1> USE DEF BridgeInv, OutsideKeeps
<1>1. TypeOK' BY DEF TypeOK, StateMoves
<1>2. LocksBalance' BY DEF LocksBalance
<1>3. KeptInv'
  <2>1. \A l \in dropped' : IsDown(l)' BY DEF KeptInv, StateMoves, TypeOK
  <2>2. PastJoining => PastJoining' BY DEF PastJoining
  <2>3. \A l \in moved' : Marked(l)' BY DEF KeptInv, Marked, TypeOK
  <2> QED BY <2>1, <2>2, <2>3 DEF KeptInv, TransferIsKept
<1>4. GoneInv' BY DEF GoneInv, StateMoves
<1> QED BY <1>1, <1>2, <1>3, <1>4

LEMMA RequestsStep ==
    ASSUME BridgeInv, NEW o \in Outsiders,
           \/ Continue(o)
           \/ \E l \in Legs : HangUp(o, l) \/ Hold(o, l) \/ Transfer(o, l) \/ Intercept(o, l)
    PROVE  BridgeInv'
<1> USE BridgeAssumption DEF BridgeInv
<1> DEFINE R == [at : Stages, leg : Legs, both : BOOLEAN]
<1>0. /\ request[o] \in R /\ Other(request[o].leg) \in Legs /\ Idle \in R
      /\ \A l \in Legs : Other(l) \in Legs
  BY DEF TypeOK, Other, Idle, Legs, Stages
<1>a. ASSUME NEW at \in Stages, Step(o, at)
      PROVE  request' \in [Outsiders -> R]
  BY <1>a, <1>0 DEF Step, TypeOK
<1>b. ASSUME Done(o)
      PROVE  request' \in [Outsiders -> R]
  BY <1>b, <1>0 DEF Done, TypeOK
<1>c. ASSUME NEW r, Ask(o, r)
      PROVE  requests' \in 0 .. MaxRequests
  BY <1>c DEF Ask, TypeOK
<1>d. ASSUME NEW p \in BOOLEAN, Redirects(p)
      PROVE  early' \in BOOLEAN
  BY <1>d DEF Redirects, TypeOK
<1>1. CASE TransferState(o)
  <2>1. StateMoves BY <1>1, <1>0, BecomesMoves, StatesTyped DEF TransferState
  <2> QED BY <1>1, <2>1, <1>b, OutsideStep
          DEF TransferState, OutsideKeeps, TypeOK, bridge, history, Has
<1>2. CASE InterceptPark(o)
  <2>1. StateMoves BY <1>2, <1>0, BecomesMoves, StatesTyped DEF InterceptPark
  <2>2. request' \in [Outsiders -> R] BY <1>2, <1>a DEF InterceptPark, Stages
  <2> QED BY <1>2, <2>1, <2>2, OutsideStep
          DEF InterceptPark, OutsideKeeps, TypeOK, bridge, history, Has
<1>3. CASE InterceptPartner(o)
  <2>1. StateMoves BY <1>3, <1>0, BecomesMoves, StatesTyped DEF InterceptPartner
  <2>2. request' \in [Outsiders -> R] BY <1>3, <1>a DEF InterceptPartner, Stages
  <2> QED BY <1>3, <2>1, <2>2, OutsideStep
          DEF InterceptPartner, OutsideKeeps, TypeOK, bridge, history, Has
<1>4. CASE InterceptMark(o) \/ InterceptRedirect(o) \/ InterceptFlag(o)
  <2> DEFINE l == request[o].leg
  <2>1. StateMoves BY <1>4, UnchangedMoves DEF InterceptMark, InterceptRedirect, InterceptFlag
  <2>2. request' \in [Outsiders -> R]
    BY <1>4, <1>a DEF InterceptMark, InterceptRedirect, InterceptFlag, Stages
  <2>3. flags' = flags \/ \E f \in Flags : flags' = [flags EXCEPT ![l] = @ \cup {f}]
    BY <1>4 DEF InterceptMark, InterceptRedirect, InterceptFlag, Flags
  <2>4. /\ flags' \in [Legs -> SUBSET Flags]
        /\ \A k \in Legs : Has(k, "TRANSFER") => Has(k, "TRANSFER")'
    BY <2>3, <1>0 DEF TypeOK, Has
  <2> QED BY <1>4, <2>1, <2>2, <2>4, OutsideStep
          DEF InterceptMark, InterceptRedirect, InterceptFlag, OutsideKeeps, TypeOK, bridge, history
<1>12. CASE InterceptHandlers(o)
  <2>1. StateMoves BY <1>12, UnchangedMoves DEF InterceptHandlers
  <2>2. request' \in [Outsiders -> R] BY <1>12, <1>a DEF InterceptHandlers, Stages
  <2>3. handlers' \in BOOLEAN /\ (handlers' => handlers) BY <1>12 DEF InterceptHandlers, TypeOK
  <2> QED BY <1>12, <2>1, <2>2, <2>3, OutsideStep
          DEF InterceptHandlers, OutsideKeeps, TypeOK, bridge, history, Has
<1>5. CASE InterceptHibernate(o)
  <2>1. StateMoves BY <1>5, <1>0, BecomesMoves, StatesTyped DEF InterceptHibernate
  <2>2. request' \in [Outsiders -> R] BY <1>5, <1>a DEF InterceptHibernate, Stages
  <2> QED BY <1>5, <2>1, <2>2, OutsideStep
          DEF InterceptHibernate, OutsideKeeps, TypeOK, bridge, history, Has
<1>6. CASE InterceptPickOff(o)
  <2>1. StateMoves BY <1>6, <1>0, HungUpMoves, UnchangedMoves DEF InterceptPickOff
  <2> QED BY <1>6, <2>1, <1>b, OutsideStep
          DEF InterceptPickOff, OutsideKeeps, TypeOK, bridge, history, Has
<1>7. ASSUME NEW l \in Legs, HangUp(o, l)
      PROVE  BridgeInv'
  <2>1. StateMoves BY <1>7, HungUpMoves DEF HangUp
  <2> QED BY <1>7, <2>1, <1>c, OutsideStep
          DEF HangUp, OutsideKeeps, TypeOK, bridge, history, Has
<1>8. ASSUME NEW l \in Legs, Hold(o, l)
      PROVE  BridgeInv'
  <2>1. StateMoves BY <1>8, UnchangedMoves DEF Hold
  <2>2. /\ flags' \in [Legs -> SUBSET Flags]
        /\ \A k \in Legs : Has(k, "TRANSFER") => Has(k, "TRANSFER")'
    BY <1>8 DEF Hold, TypeOK, Has, Flags
  <2> QED BY <1>8, <2>1, <2>2, <1>c, OutsideStep
          DEF Hold, OutsideKeeps, TypeOK, bridge, history
<1>9. ASSUME NEW l \in Legs, Transfer(o, l)
      PROVE  BridgeInv'
  <2>1. StateMoves BY <1>9, UnchangedMoves DEF Transfer
  <2>2. request' \in [Outsiders -> R] BY <1>9 DEF Transfer, TypeOK, Stages
  <2>3. handlers' \in BOOLEAN /\ (handlers' => handlers) BY <1>9 DEF Transfer, TypeOK
  <2>4. early' \in BOOLEAN BY <1>9, <1>d DEF Transfer
  <2> QED BY <1>9, <2>1, <2>2, <2>3, <2>4, <1>c, OutsideStep
          DEF Transfer, OutsideKeeps, TypeOK, bridge, history, Has
<1>10. ASSUME NEW l \in Legs, Intercept(o, l)
       PROVE  BridgeInv'
  <2>1. StateMoves BY <1>10, UnchangedMoves DEF Intercept
  <2>2. request' \in [Outsiders -> R]
    BY <1>10 DEF Intercept, TypeOK, Stages, Has
  <2>3. /\ flags' \in [Legs -> SUBSET Flags]
        /\ \A k \in Legs : Has(k, "TRANSFER") => Has(k, "TRANSFER")'
    BY <1>10 DEF Intercept, TypeOK, Has, Flags
  <2>4. early' \in BOOLEAN BY <1>10 DEF Intercept, Redirects, TypeOK
  <2> QED BY <1>10, <2>1, <2>2, <2>3, <2>4, <1>c, OutsideStep
          DEF Intercept, OutsideKeeps, TypeOK, bridge, history
<1>11. CASE TransferFlag(o)
  <2>0. PICK l \in Legs : l = request[o].leg BY <1>0 DEF TypeOK
  <2>1. StateMoves BY <1>11, UnchangedMoves DEF TransferFlag
  <2>2. request' \in [Outsiders -> R] BY <1>11, <1>a DEF TransferFlag, Stages
  <2>3. /\ flags' \in [Legs -> SUBSET Flags]
        /\ \A k \in Legs : Has(k, "TRANSFER") => Has(k, "TRANSFER")'
        /\ Has(l, "TRANSFER")'
    <3>1. flags' = [flags EXCEPT ![l] = @ \cup {"TRANSFER"}] BY <1>11, <2>0 DEF TransferFlag
    <3> QED BY <3>1 DEF TypeOK, Has, Flags
  <2>4. OutsideKeeps
    BY <1>11, <2>1, <2>2, <2>3 DEF TransferFlag, OutsideKeeps, TypeOK, bridge
  <2>5. CASE UNCHANGED moved BY <2>4, <2>5, OutsideStep
  <2>6. CASE moved' = moved \cup {l} /\ ~IsDown(l) /\ InBridge
    <3>1. TypeOK' /\ LocksBalance'
      BY <2>4, <2>6 DEF OutsideKeeps, TypeOK, StateMoves, LocksBalance
    <3>2. dropped' = dropped /\ l \notin dropped /\ \A k \in dropped' : IsDown(k)'
      BY <2>4, <2>6 DEF OutsideKeeps, StateMoves, KeptInv, TypeOK
    <3>3. PastJoining'
      <4>1. /\ pc[a] \in (InThread \ {"join", "wait"}) \cup {"peer", "unbridge", "verdict"}
            /\ pc[b] \in (InThread \ {"join", "wait"}) \cup {"peer", "unbridge", "verdict"}
        BY <2>6 DEF InBridge, Legs
      <4>2. pc[b] \notin {"peer", "unbridge"} BY DEF TypeOK, PointsB, InThread
      <4>3. pc' = pc BY <2>4 DEF OutsideKeeps
      <4> QED BY <4>1, <4>2, <4>3 DEF PastJoining, Staying, InThread
    <3>4. \A k \in moved' : Marked(k)'
      <4>1. \A k \in moved : Marked(k)' BY <2>4 DEF OutsideKeeps, KeptInv, Marked, TypeOK
      <4>2. pc'[a] \notin {"after", "past"}
        BY <2>4, <2>6 DEF OutsideKeeps, InBridge, Legs, InThread
      <4>3. Marked(l)' BY <2>3, <4>2 DEF Marked
      <4> QED BY <4>1, <4>3, <2>6, Zenon
    <3>5. GoneInv' BY <2>4 DEF OutsideKeeps, GoneInv, StateMoves
    <3>6. TransferIsKept' BY <3>2, <2>4, <2>6 DEF OutsideKeeps, KeptInv, TransferIsKept
    <3> QED BY <3>1, <3>2, <3>3, <3>4, <3>5, <3>6, <2>6 DEF KeptInv
  <2> QED BY <1>11, <2>0, <2>5, <2>6 DEF TransferFlag
<1> QED BY <1>1, <1>2, <1>3, <1>4, <1>5, <1>6, <1>7, <1>8, <1>9, <1>10, <1>11, <1>12 DEF Continue

-----------------------------------------------------------------------------
(* The steps of the two session threads *)

\* A session that is destroyed by the step is down and not locked, and none that
\* was destroyed is locked by it.
GoneStep ==
    \A l \in Legs : pc'[l] = "destroyed" => locks'[l] = 0 /\ (pc[l] = "destroyed" \/ IsDown(l))

\* What is left to show of a step of a session thread.
LEMMA ThreadStep ==
    ASSUME BridgeInv, TypeOK', LocksBalance', StateMoves, moved' = moved,
           \A l \in dropped' \ dropped : IsDown(l)' /\ (l \in moved => l \in expired'),
           expired \subseteq expired',
           moved # {} => PastJoining',
           \A l \in moved : Marked(l)',
           GoneStep
    PROVE  BridgeInv'
<1>1. \A l \in dropped' : IsDown(l)' BY DEF BridgeInv, KeptInv, StateMoves, TypeOK
<1>2. GoneInv' BY DEF BridgeInv, GoneInv, GoneStep, StateMoves
<1>3. TransferIsKept' BY DEF BridgeInv, KeptInv, TransferIsKept
<1> QED BY <1>1, <1>2, <1>3, Zenon DEF BridgeInv, KeptInv

\* Before both legs were in the bridge nothing was transferred out of it.
LEMMA NoneMovedYet ==
    ASSUME BridgeInv,
           \/ pc[a] \in {"start", "lock", "answer", "exchange", "join", "wait"}
           \/ pc[b] \in {"data", "join", "wait"}
    PROVE  moved = {}
BY DEF BridgeInv, KeptInv, PastJoining

\* The calling leg before the bridge.
LEMMA CallStep ==
    ASSUME BridgeInv, BridgeStart \/ BridgeLock \/ BridgeAnswer \/ BridgeExchange
    PROVE  BridgeInv'
<1> USE DEF BridgeInv
<1>0. a \in Legs /\ b \in Legs /\ a # b BY DEF Legs, a, b
<1>1. moved = {} /\ moved' = {} /\ expired' = expired
  BY NoneMovedYet DEF BridgeStart, BridgeLock, BridgeAnswer, BridgeExchange, history
<1>2. StateMoves /\ dropped' \subseteq Legs /\ \A l \in dropped' \ dropped : IsDown(l)'
  <2>1. CASE BridgeStart
    BY <2>1, <1>0, DropMoves, UnchangedMoves DEF BridgeStart, Abort, TypeOK
  <2>2. CASE BridgeLock
    BY <2>2, <1>0, BecomesMoves, StatesTyped DEF BridgeLock, history, TypeOK
  <2>3. CASE BridgeAnswer
    BY <2>3, <1>0, DropMoves, UnchangedMoves DEF BridgeAnswer, AbortLocked, Abort, TypeOK
  <2>4. CASE BridgeExchange
    BY <2>4, <1>0, DropMoves, BecomesMoves, StatesTyped
       DEF BridgeExchange, AbortLocked, Abort, TypeOK
  <2> QED BY <2>1, <2>2, <2>3, <2>4
<1>3. pc' \in [Legs -> InThread \cup PointsA \cup PointsB]
      /\ pc'[a] \in InThread \cup PointsA /\ pc'[b] = pc[b]
  <2>1. \E at \in InThread \cup PointsA : Goto(a, at)
    BY DEF BridgeStart, BridgeLock, BridgeAnswer, BridgeExchange, AbortLocked, Abort, InThread, PointsA
  <2> QED BY <2>1, <1>0 DEF Goto, TypeOK
<1>4. LocksBalance' /\ locks' \in [Legs -> 0 .. 3]
  <2> USE <1>0 DEF LocksBalance, TypeOK, Goto, InThread
  <2>1. CASE BridgeStart BY <2>1 DEF BridgeStart, Abort, bridge
  <2>2. CASE BridgeLock BY <2>2 DEF BridgeLock
  <2>3. CASE BridgeAnswer BY <2>3 DEF BridgeAnswer, AbortLocked, Abort
  <2>4. CASE BridgeExchange BY <2>4 DEF BridgeExchange, AbortLocked, Abort
  <2> QED BY <2>1, <2>2, <2>3, <2>4
<1>5. flags' \in [Legs -> SUBSET Flags]
  BY <1>0 DEF BridgeStart, BridgeLock, BridgeAnswer, BridgeExchange, Answered, TypeOK, Flags
<1>6. TypeOK'
  BY <1>1, <1>2, <1>3, <1>4, <1>5
     DEF TypeOK, StateMoves, BridgeStart, BridgeLock, BridgeAnswer, BridgeExchange, bridge, outside
<1>7. GoneStep
  BY <1>0 DEF BridgeStart, BridgeLock, BridgeAnswer, BridgeExchange, AbortLocked, Abort, Goto, bridge,
              GoneStep, GoneInv, LocksBalance, TypeOK, Legs, InThread
<1> QED BY <1>1, <1>2, <1>4, <1>6, <1>7, ThreadStep

\* A bridge thread, what ends a turn of its loop, and the end of a session, for either
\* leg.
AnyTurn(l) == Thread(l) \/ TurnFails(l) \/ AnswerTimeout(l)

LEMMA BridgeThreadStep ==
    ASSUME BridgeInv, NEW l \in Legs, AnyTurn(l)
    PROVE  BridgeInv'
<1> USE DEF BridgeInv
<1>0. /\ a \in Legs /\ b \in Legs /\ a # b /\ Legs = {a, b}
      /\ Other(l) \in Legs /\ Other(l) # l /\ (l = a => Other(l) = b) /\ (l = b => Other(l) = a)
  BY DEF Legs, a, b, Other
<1>1. StateMoves
  <2>1. CASE ThreadJoin(l) BY <2>1, UnchangedMoves DEF ThreadJoin
  <2>2. CASE ThreadWait(l) BY <2>2, <1>0, DropIfMoves, UnchangedMoves DEF ThreadWait
  <2>3. CASE ThreadLoop(l) BY <2>3, UnchangedMoves DEF ThreadLoop, channel
  <2>4. CASE ThreadLeave(l)
    BY <2>4, BecomesMoves, UnchangedMoves, StatesTyped DEF ThreadLeave
  <2>5. CASE ThreadHeld(l) BY <2>5, <1>0, HungUpMoves, UnchangedMoves DEF ThreadHeld
  <2>6. CASE Destroy(l) BY <2>6, UnchangedMoves DEF Destroy, channel
  <2>7. CASE ThreadTurn(l) BY <2>7, UnchangedMoves DEF ThreadTurn
  <2>8. CASE TurnFails(l) BY <2>8, UnchangedMoves DEF TurnFails, channel
  <2>9. CASE AnswerTimeout(l) BY <2>9, DropMoves DEF AnswerTimeout
  <2> QED BY <2>1, <2>2, <2>3, <2>4, <2>5, <2>6, <2>7, <2>8, <2>9 DEF Thread, AnyTurn
<1>2. /\ moved' = moved /\ expired \subseteq expired' /\ expired' \subseteq Legs
      /\ dropped' \subseteq Legs
      /\ \A k \in dropped' \ dropped : IsDown(k)' /\ (k \in moved => k \in expired')
  <2>1. CASE ThreadWait(l)
    <3>1. moved = {} BY <2>1, <1>0, NoneMovedYet DEF ThreadWait
    <3> QED BY <2>1, <3>1, <1>0, DropIfMoves DEF ThreadWait, TypeOK
  <2>2. CASE AnswerTimeout(l)
    BY <2>2, DropMoves DEF AnswerTimeout, TypeOK
  <2>3. CASE ~ThreadWait(l) /\ ~AnswerTimeout(l)
    BY <2>3 DEF AnyTurn, Thread, ThreadJoin, ThreadLoop, ThreadTurn, TurnFails, ThreadLeave,
                ThreadHeld, Destroy, history, TypeOK
  <2> QED BY <2>1, <2>2, <2>3
<1>3. LocksBalance' /\ locks' \in [Legs -> 0 .. 3]
  <2> USE <1>0 DEF LocksBalance, TypeOK, Goto, InThread
  <2>1. CASE ThreadJoin(l)
    <3>1. CASE l = a BY <2>1, <3>1 DEF ThreadJoin, Returns
    <3>2. CASE l = b BY <2>1, <3>2 DEF ThreadJoin, Returns
    <3> QED BY <3>1, <3>2
  <2>2. CASE ThreadWait(l)
    <3>1. CASE l = a BY <2>2, <3>1 DEF ThreadWait, bridge
    <3>2. CASE l = b BY <2>2, <3>2 DEF ThreadWait, bridge
    <3> QED BY <3>1, <3>2
  <2>3. CASE ThreadLoop(l)
    <3>1. CASE l = a BY <2>3, <3>1 DEF ThreadLoop
    <3>2. CASE l = b BY <2>3, <3>2 DEF ThreadLoop
    <3> QED BY <3>1, <3>2
  <2>4. CASE ThreadLeave(l)
    <3>1. CASE l = a BY <2>4, <3>1 DEF ThreadLeave, bridge
    <3>2. CASE l = b BY <2>4, <3>2 DEF ThreadLeave, bridge
    <3> QED BY <3>1, <3>2
  <2>5. CASE ThreadHeld(l)
    <3>1. CASE l = a BY <2>5, <3>1 DEF ThreadHeld, Returns
    <3>2. CASE l = b BY <2>5, <3>2 DEF ThreadHeld, Returns
    <3> QED BY <3>1, <3>2
  <2>6. CASE Destroy(l)
    <3>1. CASE l = a BY <2>6, <3>1 DEF Destroy, bridge
    <3>2. CASE l = b BY <2>6, <3>2 DEF Destroy, bridge
    <3> QED BY <3>1, <3>2
  <2>7. CASE ThreadTurn(l)
    <3>1. CASE l = a BY <2>7, <3>1 DEF ThreadTurn, bridge
    <3>2. CASE l = b BY <2>7, <3>2 DEF ThreadTurn, bridge
    <3> QED BY <3>1, <3>2
  <2>8. CASE TurnFails(l)
    <3>1. CASE l = a BY <2>8, <3>1 DEF TurnFails, bridge
    <3>2. CASE l = b BY <2>8, <3>2 DEF TurnFails, bridge
    <3> QED BY <3>1, <3>2
  <2>9. CASE AnswerTimeout(l)
    <3>1. CASE l = a BY <2>9, <3>1 DEF AnswerTimeout, bridge
    <3>2. CASE l = b BY <2>9, <3>2 DEF AnswerTimeout, bridge
    <3> QED BY <3>1, <3>2
  <2> QED BY <2>1, <2>2, <2>3, <2>4, <2>5, <2>6, <2>7, <2>8, <2>9 DEF Thread, AnyTurn
<1>4. /\ pc' \in [Legs -> InThread \cup PointsA \cup PointsB]
      /\ pc'[a] \in InThread \cup PointsA /\ pc'[b] \in InThread \cup PointsB
  <2>1. CASE UNCHANGED pc BY <2>1 DEF TypeOK
  <2>2. CASE \E at \in InThread \cup {"destroyed"} : Goto(l, at)
    BY <2>2, <1>0 DEF Goto, TypeOK, PointsA, PointsB
  <2>3. CASE Returns(l)
    BY <2>3, <1>0 DEF Returns, Goto, TypeOK, PointsA, PointsB
  <2> QED BY <2>1, <2>2, <2>3
          DEF AnyTurn, Thread, ThreadJoin, ThreadWait, ThreadLoop, ThreadTurn, TurnFails,
              AnswerTimeout, ThreadLeave, ThreadHeld, Destroy, InThread
<1>5. /\ flags' \in [Legs -> SUBSET Flags]
      /\ \A k \in Legs : Has(k, "TRANSFER") => Has(k, "TRANSFER")'
  <2> USE <1>0 DEF TypeOK, Has
  <2>1. CASE ThreadJoin(l) BY <2>1 DEF ThreadJoin, Flags
  <2>2. CASE ThreadWait(l) BY <2>2 DEF ThreadWait
  <2>3. CASE ThreadLoop(l) BY <2>3 DEF ThreadLoop, channel
  <2>4. CASE ThreadLeave(l)
    <3>1. \/ flags' = [flags EXCEPT ![l] = (flags[l] \ {"BRIDGED"}) \cup {"RESET"}]
          \/ flags' = [flags EXCEPT ![l] = flags[l] \ {"BRIDGED"}]
      BY <2>4 DEF ThreadLeave
    <3> QED BY <3>1 DEF Flags
  <2>5. CASE ThreadHeld(l) BY <2>5 DEF ThreadHeld
  <2>6. CASE Destroy(l) BY <2>6 DEF Destroy, channel
  <2>7. CASE ThreadTurn(l) BY <2>7 DEF ThreadTurn, Answered, Flags
  <2>8. CASE TurnFails(l) BY <2>8 DEF TurnFails, channel
  <2>9. CASE AnswerTimeout(l) BY <2>9 DEF AnswerTimeout
  <2> QED BY <2>1, <2>2, <2>3, <2>4, <2>5, <2>6, <2>7, <2>8, <2>9 DEF Thread, AnyTurn
<1>6. clean' \in [Legs -> BOOLEAN]
  <2>1. CASE ThreadLoop(l)
    <3>1. \E p \in BOOLEAN : clean' = [clean EXCEPT ![l] = p]
      BY <2>1 DEF ThreadLoop, Has
    <3> QED BY <3>1 DEF TypeOK
  <2>2. CASE ~ThreadLoop(l)
    BY <2>2 DEF AnyTurn, Thread, ThreadJoin, ThreadWait, ThreadTurn, TurnFails, AnswerTimeout,
                ThreadLeave, ThreadHeld, Destroy, bridge, TypeOK
  <2> QED BY <2>1, <2>2
<1>7. after' \in [Legs -> After]
  BY <1>0 DEF AnyTurn, Thread, ThreadJoin, ThreadWait, ThreadLoop, ThreadTurn, TurnFails,
              AnswerTimeout, ThreadLeave, ThreadHeld, Destroy, bridge, TypeOK, After
<1>8. UNCHANGED <<running, handlers, data, plan, outside>>
  BY DEF AnyTurn, Thread, ThreadJoin, ThreadWait, ThreadLoop, ThreadTurn, TurnFails,
         AnswerTimeout, ThreadLeave, ThreadHeld, Destroy, bridge, channel
<1>9. TypeOK'
  BY <1>1, <1>2, <1>3, <1>4, <1>5, <1>6, <1>7, <1>8 DEF TypeOK, StateMoves, outside
<1>10. moved # {} => PastJoining'
  <2> SUFFICES ASSUME moved # {} PROVE PastJoining' OBVIOUS
  <2>1. PastJoining /\ pc[l] \notin {"join", "wait"} BY <1>0 DEF KeptInv, PastJoining
  <2>2. CASE l = a
    BY <2>1, <2>2, <1>0, <1>8
       DEF PastJoining, Staying, AnyTurn, Thread, ThreadJoin, ThreadWait, ThreadLoop, ThreadTurn,
           TurnFails, AnswerTimeout, ThreadLeave, ThreadHeld, Destroy, Goto, Returns, TypeOK
  <2>3. CASE l = b
    BY <2>1, <2>3, <1>0, <1>8
       DEF PastJoining, Staying, AnyTurn, Thread, ThreadJoin, ThreadWait, ThreadLoop, ThreadTurn,
           TurnFails, AnswerTimeout, ThreadLeave, ThreadHeld, Destroy, Goto, Returns, TypeOK
  <2> QED BY <1>0, <2>2, <2>3
<1>11. \A k \in moved : Marked(k)'
  <2> SUFFICES ASSUME NEW k \in moved PROVE Marked(k)' OBVIOUS
  <2>0. k \in Legs /\ Marked(k) BY DEF TypeOK, KeptInv
  <2>a. k = a => pc'[a] \notin {"after", "past"}
    BY <2>0, <1>0
       DEF Marked, AnyTurn, Thread, ThreadJoin, ThreadWait, ThreadLoop, ThreadTurn, TurnFails,
           AnswerTimeout, ThreadLeave, ThreadHeld, Destroy, Goto, Returns, TypeOK
  <2>1. CASE Has(k, "TRANSFER") BY <2>0, <2>1, <2>a, <1>5 DEF Marked
  <2>2. CASE k = b /\ pc[b] \notin Staying
    <3>1. pc[b] \notin {"data", "join", "wait"} BY DEF KeptInv, PastJoining
    <3>2. pc'[b] \notin Staying
      BY <3>1, <2>2, <1>0
         DEF Staying, AnyTurn, Thread, ThreadJoin, ThreadWait, ThreadLoop, ThreadTurn, TurnFails,
             AnswerTimeout, ThreadLeave, ThreadHeld, Destroy, Goto, Returns, TypeOK
    <3> QED BY <3>2, <2>2, <1>0 DEF Marked
  <2>3. CASE k = a /\ pc[a] \in {"elsewhere", "destroyed"}
    <3>1. pc'[a] \in {"elsewhere", "destroyed"}
      BY <2>3, <1>0
         DEF AnyTurn, Thread, ThreadJoin, ThreadWait, ThreadLoop, ThreadTurn, TurnFails,
             AnswerTimeout, ThreadLeave, ThreadHeld, Destroy, Goto, Returns, TypeOK
    <3> QED BY <3>1, <2>3 DEF Marked
  <2> QED BY <2>0, <2>1, <2>2, <2>3 DEF Marked
<1>12. GoneStep
  <2> USE <1>0 DEF GoneStep, GoneInv, TypeOK, Goto
  <2>1. CASE ThreadJoin(l) BY <2>1 DEF ThreadJoin, Returns
  <2>2. CASE ThreadWait(l) BY <2>2 DEF ThreadWait, bridge
  <2>3. CASE ThreadLoop(l) BY <2>3 DEF ThreadLoop
  <2>4. CASE ThreadLeave(l) BY <2>4 DEF ThreadLeave, bridge
  <2>5. CASE ThreadHeld(l) BY <2>5, <1>3 DEF ThreadHeld, Returns, LocksBalance, InThread
  <2>6. CASE Destroy(l) BY <2>6 DEF Destroy, bridge
  <2>7. CASE ThreadTurn(l) BY <2>7 DEF ThreadTurn, bridge
  <2>8. CASE TurnFails(l) BY <2>8 DEF TurnFails, bridge
  <2>9. CASE AnswerTimeout(l) BY <2>9 DEF AnswerTimeout, bridge
  <2> QED BY <2>1, <2>2, <2>3, <2>4, <2>5, <2>6, <2>7, <2>8, <2>9 DEF Thread, AnyTurn
<1> QED BY <1>1, <1>2, <1>3, <1>9, <1>10, <1>11, <1>12, ThreadStep

\* The calling leg after its bridge thread.
LEMMA AfterStep ==
    ASSUME BridgeInv,
           \/ BridgePeer \/ BridgeCause \/ BridgeVerdict \/ BridgeRedirect
           \/ CallerUnlock \/ CallerEnter
    PROVE  BridgeInv'
<1> USE DEF BridgeInv
<1>0. a \in Legs /\ b \in Legs /\ a # b BY DEF Legs, a, b
<1>1. CASE BridgeCause \/ BridgeVerdict
  <2> DEFINE Ends == /\ UNCHANGED <<state, dropped>> \/ Drop(a)
                     /\ \/ UNCHANGED flags
                        \/ flags' = [flags EXCEPT ![a] = @ \cup {"TRANSFER"}]
  <2>0. a \in moved => pc[a] \notin {"after", "past"} /\ (pc[a] = "unbridge" => Moving(a))
    BY <1>0 DEF KeptInv, Marked, Moving
  <2>1. \/ ParkAfter(a) /\ UNCHANGED dropped
        \/ TransferAfter(a) /\ UNCHANGED dropped
        \/ Ends
    BY <1>1 DEF BridgeCause, BridgeVerdict, DropIf
  <2>2. StateMoves
    BY <2>1, <1>0, BecomesMoves, UnchangedMoves, DropMoves, StatesTyped DEF ParkAfter, TransferAfter
  <2>a. a \in moved => UNCHANGED dropped
    BY <1>1, <2>0 DEF BridgeCause, BridgeVerdict, DropIf
  <2>3. dropped' \subseteq Legs /\ \A l \in dropped' \ dropped : IsDown(l)' /\ l \notin moved
    BY <2>1, <2>a, <1>0, DropMoves DEF TypeOK
  <2>4. /\ flags' \in [Legs -> SUBSET Flags]
        /\ \A l \in Legs : Has(l, "TRANSFER") => Has(l, "TRANSFER")'
    BY <2>1, <1>0 DEF ParkAfter, TransferAfter, TypeOK, Has, Flags
  <2>5. PICK at \in {"after", "past", "redirect"} :
          /\ pc[a] \in {"unbridge", "after", "past"} /\ pc' = [pc EXCEPT ![a] = at]
          /\ a \in moved => at = "redirect"
          /\ UNCHANGED <<running, handlers, bridge, outside, moved, expired>>
    BY <1>1, <2>0 DEF BridgeCause, BridgeVerdict, Goto
  <2>6. LocksBalance' BY <2>5, <1>0 DEF LocksBalance, bridge, TypeOK, InThread
  <2>7. TypeOK' BY <2>2, <2>3, <2>4, <2>5, <1>0 DEF TypeOK, StateMoves, bridge, outside, PointsA
  <2>8. moved # {} => PastJoining' BY <2>5, <1>0 DEF KeptInv, PastJoining, TypeOK
  <2>9. \A l \in moved : Marked(l)' BY <2>4, <2>5, <1>0 DEF KeptInv, Marked, TypeOK
  <2>10. GoneStep BY <2>5, <1>0 DEF GoneStep, GoneInv, TypeOK, bridge
  <2> QED BY <2>2, <2>3, <2>5, <2>6, <2>7, <2>8, <2>9, <2>10, ThreadStep
<1>2. CASE BridgeRedirect
  <2>1. StateMoves BY <1>2, <1>0, BecomesMoves, UnchangedMoves, StatesTyped DEF BridgeRedirect
  <2>2. /\ flags' \in [Legs -> SUBSET Flags]
        /\ \A l \in Legs : Has(l, "TRANSFER") => Has(l, "TRANSFER")'
    BY <1>2, <1>0 DEF BridgeRedirect, TypeOK, Has, Flags
  <2>3. /\ pc[a] = "redirect" /\ pc' = [pc EXCEPT ![a] = "returned"]
        /\ UNCHANGED <<running, handlers, bridge, outside, history>>
    BY <1>2 DEF BridgeRedirect, Goto
  <2>4. LocksBalance' BY <2>3, <1>0 DEF LocksBalance, bridge, TypeOK, InThread
  <2>5. TypeOK'
    BY <2>1, <2>2, <2>3, <1>0 DEF TypeOK, StateMoves, bridge, outside, history, PointsA
  <2>6. moved # {} => PastJoining' BY <2>3, <1>0 DEF KeptInv, PastJoining, TypeOK
  <2>7. \A l \in moved : Marked(l)' BY <2>2, <2>3, <1>0 DEF KeptInv, Marked, TypeOK
  <2>8. GoneStep BY <2>3, <1>0 DEF GoneStep, GoneInv, TypeOK, bridge
  <2> QED BY <2>1, <2>3, <2>4, <2>5, <2>6, <2>7, <2>8, ThreadStep DEF history
<1>3. CASE BridgePeer \/ CallerUnlock
  <2>1. StateMoves BY <1>3, UnchangedMoves DEF BridgePeer, CallerUnlock, channel
  <2>2. LocksBalance' /\ locks' \in [Legs -> 0 .. 3]
    BY <1>3, <1>0 DEF LocksBalance, BridgePeer, CallerUnlock, Goto, TypeOK, InThread
  <2>3. TypeOK'
    BY <1>3, <2>2, <1>0 DEF TypeOK, BridgePeer, CallerUnlock, Goto, channel, outside, history, PointsA
  <2>4. moved # {} => PastJoining'
    BY <1>3, <1>0 DEF KeptInv, PastJoining, BridgePeer, CallerUnlock, Goto, channel, history, TypeOK
  <2>5. \A l \in moved : Marked(l)'
    BY <1>3, <1>0 DEF KeptInv, Marked, Has, BridgePeer, CallerUnlock, Goto, channel, history, TypeOK
  <2>6. UNCHANGED <<moved, dropped, expired>> BY <1>3 DEF BridgePeer, CallerUnlock, history
  <2>7. GoneStep
    BY <1>3, <1>0 DEF GoneStep, GoneInv, LocksBalance, TypeOK, BridgePeer, CallerUnlock, Goto, Legs, InThread
  <2> QED BY <2>1, <2>2, <2>3, <2>4, <2>5, <2>6, <2>7, ThreadStep
<1>4. CASE CallerEnter
  <2>1. /\ pc[a] = "elsewhere" /\ flags' = [flags EXCEPT ![a] = @ \ {"TRANSFER", "REDIRECT"}]
        /\ running' = [running EXCEPT ![a] = state[a]]
        /\ UNCHANGED <<state, handlers, bridge, pc, outside, history>>
    BY <1>4 DEF CallerEnter
  <2>2. StateMoves BY <2>1, UnchangedMoves
  <2>3. TypeOK' BY <2>1, <1>0 DEF TypeOK, bridge, outside, history
  <2>4. LocksBalance' /\ GoneStep BY <2>1 DEF LocksBalance, GoneStep, GoneInv, bridge
  <2>5. moved # {} => PastJoining' BY <2>1 DEF KeptInv, PastJoining, history
  <2>6. \A l \in moved : Marked(l)' BY <2>1, <1>0 DEF KeptInv, Marked, Has, TypeOK, Legs, history
  <2> QED BY <2>1, <2>2, <2>3, <2>4, <2>5, <2>6, ThreadStep DEF history
<1> QED BY <1>1, <1>2, <1>3, <1>4

\* Leg b out of its bridge thread.
LEMMA PeerStep ==
    ASSUME BridgeInv, PeerEnter \/ PeerRouting \/ PeerData \/ PeerVerdict \/ PeerPark
    PROVE  BridgeInv'
<1> USE DEF BridgeInv
<1>0. a \in Legs /\ b \in Legs /\ a # b BY DEF Legs, a, b
<1>1. CASE PeerEnter
  <2>1. PICK at \in {"routing", "data", "top"} :
           pc' = [pc EXCEPT ![b] = at] /\ (at = "data" => handlers)
    <3>1. CASE state[b] = CS_ROUTING
      BY <1>1, <3>1 DEF PeerEnter, Goto, CS_ROUTING, CS_EXCHANGE_MEDIA
    <3>2. CASE state[b] # CS_ROUTING /\ state[b] = CS_EXCHANGE_MEDIA /\ handlers
      BY <1>1, <3>2 DEF PeerEnter, Goto
    <3>3. CASE state[b] # CS_ROUTING /\ ~(state[b] = CS_EXCHANGE_MEDIA /\ handlers)
      BY <1>1, <3>3 DEF PeerEnter, Goto
    <3> QED BY <3>1, <3>2, <3>3
  <2>2. StateMoves BY <1>1, UnchangedMoves DEF PeerEnter
  <2>3. LocksBalance' BY <1>1, <2>1, <1>0 DEF LocksBalance, PeerEnter, bridge, TypeOK, InThread
  <2>4. TypeOK'
    BY <1>1, <2>1, <1>0 DEF TypeOK, PeerEnter, bridge, outside, history, PointsB
  <2>5. moved # {} => PastJoining'
    BY <1>1, <2>1, <1>0 DEF KeptInv, PastJoining, Staying, PeerEnter, history, TypeOK
  <2>6. \A l \in moved : Marked(l)'
    BY <1>1, <2>1, <1>0 DEF KeptInv, Marked, Staying, Has, PeerEnter, history, TypeOK, Legs
  <2>7. UNCHANGED <<moved, dropped, expired>> BY <1>1 DEF PeerEnter, history
  <2>8. GoneStep BY <1>1, <2>1, <1>0 DEF GoneStep, GoneInv, TypeOK, PeerEnter, bridge
  <2> QED BY <2>2, <2>3, <2>4, <2>5, <2>6, <2>7, <2>8, ThreadStep
<1>2. CASE PeerRouting \/ PeerPark
  <2>1. StateMoves
    BY <1>2, <1>0, BecomesMoves, UnchangedMoves, StatesTyped DEF PeerRouting, PeerPark
  <2>2. /\ pc[b] \in {"routing", "park"} /\ pc' = [pc EXCEPT ![b] = "top"]
        /\ UNCHANGED <<running, flags, handlers, bridge, outside, history>>
    BY <1>2 DEF PeerRouting, PeerPark, Goto
  <2>3. LocksBalance' BY <2>2, <1>0 DEF LocksBalance, bridge, TypeOK, InThread
  <2>4. TypeOK' BY <2>1, <2>2, <1>0 DEF TypeOK, StateMoves, bridge, outside, history, PointsB
  <2>5. moved # {} => PastJoining'
    BY <2>2, <1>0 DEF KeptInv, PastJoining, Staying, history, TypeOK
  <2>6. \A l \in moved : Marked(l)' BY <2>2, <1>0 DEF KeptInv, Marked, Staying, Has, history, TypeOK
  <2>7. GoneStep BY <2>2, <1>0 DEF GoneStep, GoneInv, TypeOK, bridge
  <2> QED BY <2>1, <2>2, <2>3, <2>4, <2>5, <2>6, <2>7, ThreadStep DEF history
<1>3. CASE PeerData
  <2>1. moved = {} BY <1>3, NoneMovedYet DEF PeerData
  <2>2. /\ StateMoves /\ dropped' \subseteq Legs
        /\ \A l \in dropped' \ dropped : IsDown(l)'
    BY <1>3, <1>0, DropMoves, UnchangedMoves DEF PeerData, TypeOK
  <2>3. PICK at \in {"join", "verdict"} : pc' = [pc EXCEPT ![b] = at]
    BY <1>3 DEF PeerData, Goto
  <2>4. LocksBalance' BY <1>3, <2>3, <1>0 DEF LocksBalance, PeerData, TypeOK, InThread
  <2>5. TypeOK'
    BY <1>3, <2>2, <2>3, <1>0 DEF TypeOK, StateMoves, PeerData, outside, PointsB, InThread
  <2>6. GoneStep BY <1>3, <2>3, <1>0 DEF GoneStep, GoneInv, TypeOK, PeerData
  <2> QED BY <1>3, <2>1, <2>2, <2>4, <2>5, <2>6, ThreadStep DEF PeerData
<1>4. CASE PeerVerdict
  <2> DEFINE Sent == /\ ParkAfter(b) \/ TransferAfter(b)
                     /\ UNCHANGED dropped
             Kept == flags' = [flags EXCEPT ![b] = @ \ {"INTERCEPTED"}] /\ UNCHANGED <<state, dropped>>
             Ends == /\ UNCHANGED flags
                     /\ \/ UNCHANGED <<state, dropped>>
                        \/ Drop(b) /\ ~Moving(b)
  <2>1. Sent \/ Kept \/ Ends BY <1>4 DEF PeerVerdict, DropIf
  <2>2. PICK at \in {"park", "top"} : pc' = [pc EXCEPT ![b] = at] BY <1>4 DEF PeerVerdict, Goto
  <2>3. StateMoves
    BY <2>1, <1>0, BecomesMoves, UnchangedMoves, DropMoves, StatesTyped DEF ParkAfter, TransferAfter
  <2>4. b \in moved => Moving(b) BY <1>4, <1>0 DEF PeerVerdict, KeptInv, Marked, Staying, Moving
  <2>5. dropped' \subseteq Legs /\ \A l \in dropped' \ dropped : IsDown(l)' /\ l \notin moved
    BY <2>1, <2>4, <1>0, DropMoves DEF TypeOK
  <2>6. /\ flags' \in [Legs -> SUBSET Flags]
        /\ \A l \in Legs : Has(l, "TRANSFER") => Has(l, "TRANSFER")'
    BY <2>1, <1>0 DEF ParkAfter, TransferAfter, TypeOK, Has, Flags
  <2>7. /\ pc[b] = "verdict" /\ handlers' = FALSE
        /\ UNCHANGED <<running, bridge, outside, moved, expired>>
    BY <1>4 DEF PeerVerdict
  <2>8. LocksBalance' BY <2>2, <2>7, <1>0 DEF LocksBalance, bridge, TypeOK, InThread
  <2>9. TypeOK'
    BY <2>2, <2>3, <2>5, <2>6, <2>7, <1>0 DEF TypeOK, StateMoves, bridge, outside, PointsB
  <2>10. moved # {} => PastJoining' BY <2>2, <2>7, <1>0 DEF KeptInv, PastJoining, Staying, TypeOK
  <2>11. \A l \in moved : Marked(l)' BY <2>2, <2>6, <2>7, <1>0 DEF KeptInv, Marked, Staying, TypeOK
  <2>12. GoneStep BY <2>2, <2>7, <1>0 DEF GoneStep, GoneInv, TypeOK, bridge
  <2> QED BY <2>3, <2>5, <2>7, <2>8, <2>9, <2>10, <2>11, <2>12, ThreadStep
<1> QED BY <1>1, <1>2, <1>3, <1>4

-----------------------------------------------------------------------------
(* The theorems *)

LEMMA Inductive == BridgeInv /\ [Next]_vars => BridgeInv'
<1> SUFFICES ASSUME BridgeInv, [Next]_vars PROVE BridgeInv' OBVIOUS
<1>0. a \in Legs /\ b \in Legs BY DEF Legs
<1>1. CASE LegA BY <1>0, <1>1, CallStep, BridgeThreadStep, AfterStep DEF LegA, AnyTurn
<1>2. CASE LegB BY <1>0, <1>2, PeerStep, BridgeThreadStep DEF LegB, AnyTurn
<1>6. ASSUME NEW l \in Legs, TurnFails(l) \/ AnswerTimeout(l)
      PROVE  BridgeInv'
  BY <1>6, BridgeThreadStep DEF AnyTurn
<1>3. CASE PeerAnswers
  <2>1. StateMoves BY <1>3, UnchangedMoves DEF PeerAnswers, BridgeInv
  <2>2. /\ flags' \in [Legs -> SUBSET Flags]
        /\ \A l \in Legs : Has(l, "TRANSFER") => Has(l, "TRANSFER")'
    BY <1>3, <1>0 DEF PeerAnswers, BridgeInv, TypeOK, Has, Flags
  <2> QED BY <1>3, <2>1, <2>2, OutsideStep
          DEF PeerAnswers, OutsideKeeps, BridgeInv, TypeOK, bridge, outside, history
<1>4. ASSUME NEW o \in Outsiders,
             \/ Continue(o)
             \/ \E l \in Legs : HangUp(o, l) \/ Hold(o, l) \/ Transfer(o, l) \/ Intercept(o, l)
      PROVE  BridgeInv'
  BY <1>4, RequestsStep
<1>5. CASE UNCHANGED vars
  <2>1. StateMoves BY <1>5, UnchangedMoves DEF vars, channel, BridgeInv
  <2>2. OutsideKeeps
    BY <1>5, <2>1 DEF OutsideKeeps, BridgeInv, TypeOK, Has, vars, channel, bridge, outside, history
  <2> QED BY <1>5, <2>2, OutsideStep DEF vars, history
<1> QED BY <1>1, <1>2, <1>3, <1>4, <1>5, <1>6 DEF Next

\* The inductive invariant holds of every bridge.
THEOREM Invariance == Spec => []BridgeInv
BY InitInv, Inductive, PTL DEF Spec

\* Every variable of the bridge keeps its type, the count of read locks on a
\* session among them: at most one by the other leg's thread, one by the bridge call
\* and one by its caller.
THEOREM TypeCorrect == Spec => []TypeOK
<1>1. BridgeInv => TypeOK BY DEF BridgeInv
<1> QED BY <1>1, Invariance, PTL

\* On all the paths that abandon a bridge, and however many others hang up,
\* transfer, intercept or hold the legs meanwhile, the read locks on the sessions are
\* those of the threads that use them.
THEOREM LocksAreBalanced == Spec => []LocksBalance
<1>1. BridgeInv => LocksBalance BY DEF BridgeInv
<1> QED BY <1>1, Invariance, PTL

\* A leg that other threads transfer out of the bridge is not hung up by the bridge,
\* however many requests there are and however their steps fall between those of the
\* bridge threads, unless its own answer timeout is over.
THEOREM TransferKept == Spec => []TransferIsKept
<1>1. BridgeInv => TransferIsKept BY DEF BridgeInv, KeptInv
<1> QED BY <1>1, Invariance, PTL

\* A session that a thread has in its hands: the other leg's in a leg's bridge thread,
\* leg b's in the calling leg until the caller has given its lock back.
UsedIsThere ==
    /\ \A l \in Legs : pc[l] \in InThread \ {"join"} => pc[Other(l)] # "destroyed"
    /\ pc[a] \notin {"elsewhere", "destroyed"} => pc[b] # "destroyed"

\* No thread uses a session that its own thread has destroyed (switch_core_session_perform_destroy
\* waits for the read locks): while one has the other leg's session in its hands it is there.
THEOREM NoneUsedIsDestroyed == Spec => []UsedIsThere
<1>1. BridgeInv => UsedIsThere
  BY DEF BridgeInv, GoneInv, LocksBalance, UsedIsThere, Legs, Other, a, b, InThread
<1> QED BY <1>1, Invariance, PTL
=============================================================================
