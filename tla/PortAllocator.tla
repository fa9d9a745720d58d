--------------------------- MODULE PortAllocator ---------------------------
(***************************************************************************)
(* switch_core_port_allocator.c: the RTP ports of one address, handed out  *)
(* from a random place of the range and rested after their release.        *)
(*                                                                         *)
(* A request holds the allocator's mutex from Request to its last step;    *)
(* each turn of its outer loop is one step, since nothing but other        *)
(* programs' sockets can change in between.  A release is one step.        *)
(***************************************************************************)
EXTENDS Integers, FiniteSets

CONSTANTS
    Clients,        \* the media engines that use the allocator
    NoClient,
    Start, End,     \* the range asked for
    Flags,          \* which of SPF_EVEN and SPF_ODD it was asked with
    Robust,         \* which of SPF_ROBUST_UDP and SPF_ROBUST_TCP are set
    Others          \* may other programs bind and release ports?

ASSUME RangeAssumption ==
    Start \in Nat \ {0} /\ End \in Nat /\ Start < End /\ End < 65535
ASSUME FlagsAssumption ==
    /\ Flags \subseteq {"even", "odd"} /\ Robust \subseteq {"udp", "tcp"}
    /\ Others \in BOOLEAN
ASSUME ClientsAssumption == NoClient \notin Clients

Every == Flags = {"even", "odd"}

\* The range is cut to ports of the parity asked for.
First == IF (Flags = {"even"} /\ Start % 2 = 1) \/ (Flags = {"odd"} /\ Start % 2 = 0)
         THEN Start + 1 ELSE Start
Last  == IF (Flags = {"even"} /\ End % 2 = 1) \/ (Flags = {"odd"} /\ End % 2 = 0)
         THEN End - 1 ELSE End

\* Mutant: the length is not halved.
LengthOfAll == Last - First + 2

Length == IF Every THEN Last - First + 2 ELSE (Last - First + 2) \div 2    \* track_len

Slots == 0 .. Length - 1
PortOf(i) == IF Every THEN i + First ELSE 2 * (i + First \div 2)
SlotOf(p) == IF Every THEN p - First ELSE (p - First) \div 2
Ports == {PortOf(i) : i \in Slots}

Rest == -4      \* what a released or refused slot starts from

VARIABLES
    track,      \* 1: handed out, 0: free, below: passes left until it is free
    used,       \* track_used
    holder,     \* the client whose request holds the mutex
    mine,       \* the ports each client was handed and has not released
    past,       \* the ports it has released and still remembers
    robbed,     \* history: the ports it was handed and has not released, that
                \* were given back meanwhile by another's stale release
    bound       \* the ports other programs' sockets are bound to

vars == <<track, used, holder, mine, past, robbed, bound>>

Init ==
    /\ track = [i \in Slots |-> 0]
    /\ used = 0
    /\ holder = NoClient
    /\ mine = [c \in Clients |-> {}]
    /\ past = [c \in Clients |-> {}]
    /\ robbed = [c \in Clients |-> {}]
    /\ bound = [p \in {"udp", "tcp"} |-> {}]

-----------------------------------------------------------------------------
(* One turn of the loop in request_port, from the random slot i. *)

Ahead(i, j) == IF j < i THEN j - i + Length ELSE j - i  \* steps from i up to j

\* The slots that are walked over: from i on, up to the first free one.
Passed(i) ==
    {j \in Slots : \A k \in Slots : Ahead(i, k) <= Ahead(i, j) => track[k] # 0}

\* Mutant: the walk stops at a slot that is handed out.
StopsAtUsed(i, j) ==
    /\ track[j] >= 0
    /\ \A k \in Slots : Ahead(i, k) < Ahead(i, j) => k \in Passed(i)

\* The free slot the walk stops at, if there is one.
StopsAt(i, j) ==
    /\ track[j] = 0
    /\ \A k \in Slots : Ahead(i, k) < Ahead(i, j) => k \in Passed(i)

\* Mutant: slots at rest are not counted up.
CooledNone(i) == track

\* Slots at rest come closer to being free each time they are walked over.
Cooled(i) ==
    [j \in Slots |-> IF j \in Passed(i) /\ track[j] < 0 THEN track[j] + 1 ELSE track[j]]

\* Can the port be bound?  The TCP test's result replaces the UDP test's.
TestPort(p) ==
    IF "tcp" \in Robust THEN p \notin bound["tcp"]
    ELSE "udp" \in Robust => p \notin bound["udp"]

Request(c) ==
    /\ holder = NoClient
    /\ holder' = c
    /\ UNCHANGED <<track, used, mine, past, robbed, bound>>

\* A client that is handed a port it was robbed of keeps both references; the
\* older one is from now on one more that it may release.
Grant(c, i) ==
    /\ holder = c /\ used < Length
    /\ \E j \in Slots :
        /\ StopsAt(i, j) /\ TestPort(PortOf(j))
        /\ track' = [Cooled(i) EXCEPT ![j] = 1]
        /\ mine' = [mine EXCEPT ![c] = @ \cup {PortOf(j)}]
        /\ past' = [past EXCEPT ![c] = @ \cup (mine[c] \cap {PortOf(j)})]
        /\ robbed' = [robbed EXCEPT ![c] = @ \ {PortOf(j)}]
    /\ used' = used + 1
    /\ holder' = NoClient
    /\ UNCHANGED bound

\* The port cannot be bound: it rests, and the loop goes on.
Refuse(c, i) ==
    /\ holder = c /\ used < Length
    /\ \E j \in Slots :
        /\ StopsAt(i, j) /\ ~TestPort(PortOf(j))
        /\ track' = [Cooled(i) EXCEPT ![j] = Rest]
    /\ UNCHANGED <<used, holder, mine, past, robbed, bound>>

\* No slot is free; each was walked over once, and the loop goes on.
Pass(c, i) ==
    /\ holder = c /\ used < Length
    /\ Passed(i) = Slots
    /\ track' = Cooled(i)
    /\ UNCHANGED <<used, holder, mine, past, robbed, bound>>

\* Every port is handed out: no port.
Full(c) ==
    /\ holder = c /\ used >= Length
    /\ holder' = NoClient
    /\ UNCHANGED <<track, used, mine, past, robbed, bound>>

-----------------------------------------------------------------------------
(* free_port, and other programs. *)

\* Mutant: the first port of the range is taken for one below it.
FreeFirst(p) ==
    LET i == SlotOf(p) IN
    IF p > First /\ track[i] > 0
    THEN track' = [track EXCEPT ![i] = Rest] /\ used' = used - 1
    ELSE UNCHANGED <<track, used>>
\* A port below the range, or one that is not handed out, is left alone.
FreePort(p) ==
    LET i == SlotOf(p) IN
    IF p >= First /\ track[i] > 0
    THEN track' = [track EXCEPT ![i] = Rest] /\ used' = used - 1
    ELSE UNCHANGED <<track, used>>

\* When p is given back, those of S that had it are robbed of it.
Robbing(S, p) ==
    [d \in Clients |-> IF d \in S /\ p \in mine[d] THEN robbed[d] \cup {p} ELSE robbed[d]]

Release(c, p) ==
    /\ holder = NoClient
    /\ p \in mine[c]
    /\ FreePort(p)
    /\ mine' = [mine EXCEPT ![c] = @ \ {p}]
    /\ past' = [past EXCEPT ![c] = @ \cup {p}]
    /\ robbed' = [Robbing(Clients \ {c}, p) EXCEPT ![c] = @ \ {p}]
    /\ UNCHANGED <<holder, bound>>

\* A client releases again what it has released, whoever has been given the
\* port since.
ReleaseAgain(c, p) ==
    /\ holder = NoClient
    /\ p \in past[c]
    /\ FreePort(p)
    /\ past' = [past EXCEPT ![c] = @ \ {p}]
    /\ robbed' = Robbing(Clients, p)
    /\ UNCHANGED <<holder, mine, bound>>

Bind(proto, p) ==
    /\ Others
    /\ p \notin bound[proto]
    /\ bound' = [bound EXCEPT ![proto] = @ \cup {p}]
    /\ UNCHANGED <<track, used, holder, mine, past, robbed>>

Unbind(proto, p) ==
    /\ p \in bound[proto]
    /\ bound' = [bound EXCEPT ![proto] = @ \ {p}]
    /\ UNCHANGED <<track, used, holder, mine, past, robbed>>

-----------------------------------------------------------------------------

Turn(c) == \E i \in Slots : Grant(c, i) \/ Refuse(c, i) \/ Pass(c, i)

Next ==
    \/ \E c \in Clients :
        \/ Request(c) \/ Turn(c) \/ Full(c)
        \/ \E p \in Ports : Release(c, p) \/ ReleaseAgain(c, p)
    \/ \E proto \in Robust, p \in Ports : Bind(proto, p) \/ Unbind(proto, p)

Spec == Init /\ [][Next]_vars

\* A request that holds the mutex goes on with its loop.
FairSpec == Spec /\ \A c \in Clients : WF_vars(Turn(c) \/ Full(c))

-----------------------------------------------------------------------------
(* Properties *)

\* The tracked values are -4, ..., 1, as switch_core_port_allocator.c writes
\* them, track_used is within the range, and clients have ports of the range.
TypeOK ==
    /\ track \in [Slots -> Rest .. 1]
    /\ used \in 0 .. Length
    /\ holder \in Clients \cup {NoClient}
    /\ mine \in [Clients -> SUBSET Ports]
    /\ past \in [Clients -> SUBSET Ports]
    /\ robbed \in [Clients -> SUBSET Ports]
    /\ bound \in [{"udp", "tcp"} -> SUBSET Ports]

HandedOut == {i \in Slots : track[i] = 1}

\* track_used, which alone ends a request's loop when there is no port, is
\* the number of ports that are handed out.
UsedIsExact == used = Cardinality(HandedOut)

\* The ports that are a client's: handed to it, not released by it, and not
\* given back behind its back by a client that released them a second time.
Owned(c) == mine[c] \ robbed[c]

\* request_port gives no client a port that is another one's, whatever is
\* released again and in which order: two clients have the same port only
\* after a stale release of free_port took it from one of them.
GivenOnce == \A c, d \in Clients : c # d => Owned(c) \cap Owned(d) = {}

\* A port is tracked as handed out exactly while it is a client's: no port is
\* lost to the allocator by its release or by a stale one, none is free while
\* it is in use.
TrackIsExact ==
    \A i \in Slots : track[i] = 1 <=> \E c \in Clients : PortOf(i) \in Owned(c)

\* Ports are of the range and the parity that the allocator was asked for.
InRange ==
    \A c \in Clients : \A p \in mine[c] :
        /\ Start <= p /\ p <= End
        /\ (Flags = {"even"} => p % 2 = 0) /\ (Flags = {"odd"} => p % 2 = 1)

\* A request returns: it does not go on searching while one port is free all
\* the time and no other program has it, though slots rest and ports that it
\* tries are refused.  (With the robustness check, and every free port bound
\* by other programs, it does go on.)
RequestReturns ==
    \A c \in Clients, i \in Slots :
        LET Searching == holder = c /\ track[i] # 1 /\ TestPort(PortOf(i))
        IN  Searching ~> ~Searching
=============================================================================
