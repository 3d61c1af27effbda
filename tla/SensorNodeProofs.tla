-------------------------- MODULE SensorNodeProofs --------------------------
(***************************************************************************)
(* Safety of the sensor node, for any servers, lengths of addresses and    *)
(* numbers of replies: the work items hand one stage on, the client        *)
(* follows its setup, and an address is never torn.  Every step is a step  *)
(* of the abstract Supervisor or none.                                     *)
(***************************************************************************)
EXTENDS SensorNode, FiniteSetTheorems, SequenceTheorems, TLAPS

(* Types of the work items, and of the rest.                               *)
WorkType ==
  /\ delayed \subseteq Works /\ queue \in Seq(Works) /\ running \in Works \cup {None}

RestType ==
  /\ tries \in 0 .. Checks /\ restarting \in BOOLEAN
  /\ last \in {"CONNECT", "DISCONNECT"} /\ client_status \in {"CONNECT", "DISCONNECT"}
  /\ lwm2m_setup \in BOOLEAN /\ client \in {"off", "started", "stopped"}
  /\ inflight \in 0 .. MaxReplies
  /\ is_connected \in BOOLEAN /\ enabled \in BOOLEAN /\ joining \in BOOLEAN

(* A work item is in one place: its delay runs, it is queued once, or its  *)
(* handler is in progress.                                                 *)
OnePlace ==
  /\ \A j, k \in 1 .. Len(queue) : queue[j] = queue[k] => j = k
  /\ \A i \in delayed : ~Queued(i) /\ running # i
  /\ running \in Works => ~Queued(running)

WorkInv == WorkType /\ OnePlace

(* At most one of the items that hand the node on is busy, and one is      *)
(* unless the node was abandoned.                                          *)
ChainInv ==
  /\ \A i, j \in Chain : Busy(i) /\ Busy(j) => i = j
  /\ Supervised

(* The ring holds whole addresses only. *)
Address(a) == [k \in 1 .. AddrLen |-> <<a, k>>]

Whole(r, n, f) ==
  /\ Len(r) = n * AddrLen
  /\ \A m \in 1 .. n, k \in 1 .. AddrLen : r[(m - 1) * AddrLen + k] = <<f[m], k>>

RingInv ==
  /\ ring \in Seq(Servers \X (1 .. AddrLen)) /\ Len(ring) <= RingCap
  /\ \E n \in Nat : \E f \in [1 .. n -> Servers] : Whole(ring, n, f)

ServerInv ==
  /\ server \in Seq(Servers \X (1 .. AddrLen))
  /\ WholeAddress

NodeInv == WorkInv /\ ChainInv /\ RestType /\ ClientFollowsSetup /\ RingInv /\ ServerInv

-----------------------------------------------------------------------------
(* The queue *)

LEMMA AddressFacts ==
  /\ AddrLen \in Nat /\ AddrLen >= 1 /\ RingCap \in Nat /\ MaxReplies \in Nat
  /\ Checks \in Nat
BY SensorNodeAssumption

LEMMA WorkNames ==
  /\ Chain \subseteq Works /\ "read_co2" \in Works /\ "read_co2" \notin Chain
  /\ None \notin Works
BY DEF Chain, Works, None

(* An item that is not queued joins the queue.                             *)
LEMMA Joined ==
  ASSUME queue \in Seq(Works),
         \A j, k \in 1 .. Len(queue) : queue[j] = queue[k] => j = k,
         NEW i \in Works, ~Queued(i), queue' = Append(queue, i)
  PROVE  /\ queue' \in Seq(Works)
         /\ \A j, k \in 1 .. Len(queue') : queue'[j] = queue'[k] => j = k
         /\ \A w : Queued(w)' <=> Queued(w) \/ w = i
<1>1. /\ queue' \in Seq(Works) /\ Len(queue') = Len(queue) + 1
      /\ \A j \in 1 .. Len(queue) : queue'[j] = queue[j]
      /\ queue'[Len(queue) + 1] = i /\ Len(queue) \in Nat
  BY AppendProperties, LenProperties
<1>2. \A j \in 1 .. Len(queue) : queue[j] # i
  BY DEF Queued
<1> QED
  BY <1>1, <1>2 DEF Queued

(* The first item leaves the queue.                                        *)
LEMMA Left ==
  ASSUME queue \in Seq(Works), queue # <<>>,
         \A j, k \in 1 .. Len(queue) : queue[j] = queue[k] => j = k,
         queue' = Tail(queue)
  PROVE  /\ queue' \in Seq(Works) /\ Head(queue) \in Works /\ Queued(Head(queue))
         /\ \A j, k \in 1 .. Len(queue') : queue'[j] = queue'[k] => j = k
         /\ \A w : Queued(w)' <=> Queued(w) /\ w # Head(queue)
<1>1. /\ Head(queue) \in Works /\ queue' \in Seq(Works) /\ Len(queue') = Len(queue) - 1
      /\ \A j \in 1 .. Len(queue') : queue'[j] = queue[j + 1]
      /\ Len(queue) \in Nat /\ Len(queue) >= 1
  BY HeadTailProperties, LenProperties, EmptySeq
<1>2. Head(queue) = queue[1]
  OBVIOUS
<1>3. \A j, k \in 1 .. Len(queue') : queue'[j] = queue'[k] => j = k
  BY <1>1
<1>4. \A w : Queued(w)' => Queued(w) /\ w # Head(queue)
  BY <1>1, <1>2 DEF Queued
<1>5. ASSUME NEW w, Queued(w), w # Head(queue) PROVE Queued(w)'
  <2>1. PICK k \in 1 .. Len(queue) : queue[k] = w
    BY <1>5 DEF Queued
  <2>2. k # 1 /\ k - 1 \in 1 .. Len(queue')
    BY <1>1, <1>2, <1>5, <2>1
  <2> QED
    BY <1>1, <2>1, <2>2 DEF Queued
<1> QED
  BY <1>1, <1>2, <1>3, <1>4, <1>5 DEF Queued

(* What a handler does at its end: it takes its item away and makes i, its *)
(* own or one that is not busy, wait.                                      *)
LEMMA Handed ==
  ASSUME WorkInv, NEW r \in Works, running = r, NEW i \in Works, i = r \/ ~Busy(i),
         EndScheduling(i) \/ EndSubmitting(i)
  PROVE  /\ WorkInv'
         /\ \A w \in Works : Busy(w)' <=> w = i \/ (Busy(w) /\ w # r)
<1> USE DEF WorkInv, WorkType, OnePlace
<1>1. ~Queued(i) /\ i \notin delayed /\ r \notin delayed /\ ~Queued(r)
  BY DEF Busy
<1>2. None \notin Works
  BY WorkNames
<1>3. CASE EndScheduling(i)
  <2>1. running' = None /\ queue' = queue /\ delayed' = delayed \cup {i}
    BY <1>1, <1>3 DEF EndScheduling
  <2>2. \A w : Queued(w)' <=> Queued(w)
    BY <2>1 DEF Queued
  <2>3. WorkInv'
    BY <1>1, <1>2, <2>1, <2>2
  <2> QED
    BY <1>1, <1>2, <2>1, <2>2, <2>3 DEF Busy
<1>4. CASE EndSubmitting(i)
  <2>1. running' = None /\ queue' = Append(queue, i) /\ delayed' = delayed
    BY <1>1, <1>4 DEF EndSubmitting
  <2>2. /\ queue' \in Seq(Works)
        /\ \A j, k \in 1 .. Len(queue') : queue'[j] = queue'[k] => j = k
        /\ \A w : Queued(w)' <=> Queued(w) \/ w = i
    BY <1>1, <2>1, Joined
  <2>3. WorkInv'
    BY <1>1, <1>2, <2>1, <2>2
  <2> QED
    BY <1>1, <1>2, <2>1, <2>2, <2>3 DEF Busy
<1> QED
  BY <1>3, <1>4

(* The end of a delay and the start of a handler keep the items busy.      *)
LEMMA Moved ==
  ASSUME WorkInv, Run \/ \E i \in Works : Expire(i)
  PROVE  /\ WorkInv'
         /\ \A w \in Works : Busy(w)' <=> Busy(w)
<1> USE DEF WorkInv, WorkType, OnePlace
<1>1. ASSUME NEW i \in Works, Expire(i)
      PROVE  WorkInv' /\ \A w \in Works : Busy(w)' <=> Busy(w)
  <2>1. i \in delayed /\ ~Queued(i) /\ running # i /\ delayed' = delayed \ {i}
        /\ queue' = Append(queue, i) /\ running' = running
    BY <1>1 DEF Expire
  <2>2. /\ queue' \in Seq(Works)
        /\ \A j, k \in 1 .. Len(queue') : queue'[j] = queue'[k] => j = k
        /\ \A w : Queued(w)' <=> Queued(w) \/ w = i
    BY <2>1, Joined
  <2> QED
    BY <2>1, <2>2 DEF Busy
<1>2. CASE Run
  <2> DEFINE h == Head(queue)
  <2>1. /\ running = None /\ queue # <<>> /\ running' = h
        /\ queue' = Tail(queue) /\ delayed' = delayed
    BY <1>2 DEF Run
  <2>2. /\ queue' \in Seq(Works) /\ h \in Works /\ Queued(h)
        /\ \A j, k \in 1 .. Len(queue') : queue'[j] = queue'[k] => j = k
        /\ \A w : Queued(w)' <=> Queued(w) /\ w # h
    BY <2>1, Left
  <2> HIDE DEF h
  <2>3. None \notin Works
    BY WorkNames
  <2> QED
    BY <2>1, <2>2, <2>3 DEF Busy
<1> QED
  BY <1>1, <1>2

(* How the chain moves on: nobody is busy but the one that was handed to.  *)
LEMMA ChainKept ==
  ASSUME NEW r \in Works, NEW i \in Works, Busy(r), r \in Chain <=> i \in Chain,
         \A v, w \in Chain : Busy(v) /\ Busy(w) => v = w,
         \A w \in Works : Busy(w)' <=> w = i \/ (Busy(w) /\ w # r)
  PROVE  /\ \A v, w \in Chain : Busy(v)' /\ Busy(w)' => v = w
         /\ (\E w \in Chain : Busy(w)') <=> (\E w \in Chain : Busy(w))
BY WorkNames

-----------------------------------------------------------------------------
(* The ring *)

LEMMA Products ==
  ASSUME NEW A \in Nat, NEW m \in Nat, NEW n \in Nat
  PROVE  /\ m * A \in Nat
         /\ (m + 1) * A = m * A + A
         /\ m < n => m * A + A <= n * A
<1>1. m * A \in Nat /\ n * A \in Nat /\ (m + 1) * A = m * A + A
  OBVIOUS
<1>2. ASSUME m < n PROVE m * A + A <= n * A
  <2>1. PICK d \in Nat : n = m + 1 + d  BY <1>2, n - m - 1 \in Nat
  <2>2. n * A = m * A + A + d * A  BY <2>1
  <2>3. d * A \in Nat  OBVIOUS
  <2> QED  BY <1>1, <2>2, <2>3
<1> QED  BY <1>1, <1>2

LEMMA AddressIs ==
  ASSUME NEW a \in Servers
  PROVE  /\ Address(a) \in Seq(Servers \X (1 .. AddrLen)) /\ Len(Address(a)) = AddrLen
         /\ \A k \in 1 .. AddrLen : Address(a)[k] = <<a, k>>
BY AddressFacts DEF Address

(* An address is stored behind whole ones. *)
LEMMA WholeAppend ==
  ASSUME NEW r \in Seq(Servers \X (1 .. AddrLen)), NEW n \in Nat,
         NEW f \in [1 .. n -> Servers], Whole(r, n, f), NEW a \in Servers
  PROVE  \E g \in [1 .. n + 1 -> Servers] : Whole(r \o Address(a), n + 1, g)
<1> DEFINE g == [m \in 1 .. n + 1 |-> IF m = n + 1 THEN a ELSE f[m]]
           s == r \o Address(a)
<1>1. g \in [1 .. n + 1 -> Servers]
  OBVIOUS
<1>2. /\ Len(s) = Len(r) + AddrLen /\ Len(r) = n * AddrLen /\ Len(r) \in Nat
      /\ \A j \in 1 .. Len(r) + AddrLen :
           s[j] = IF j <= Len(r) THEN r[j] ELSE Address(a)[j - Len(r)]
  <2>1. Address(a) \in Seq(Servers \X (1 .. AddrLen)) /\ Len(Address(a)) = AddrLen
    BY AddressIs
  <2> HIDE DEF Address
  <2>2. /\ Len(s) = Len(r) + Len(Address(a))
        /\ \A j \in 1 .. Len(r) + Len(Address(a)) :
             s[j] = IF j <= Len(r) THEN r[j] ELSE Address(a)[j - Len(r)]
    BY <2>1, ConcatProperties
  <2>3. Len(r) = n * AddrLen /\ Len(r) \in Nat
    BY LenProperties DEF Whole
  <2> QED
    BY <2>1, <2>2, <2>3
<1>3. Len(s) = (n + 1) * AddrLen
  BY <1>2, AddressFacts, Products
<1>4. ASSUME NEW m \in 1 .. n + 1, NEW k \in 1 .. AddrLen
      PROVE  s[(m - 1) * AddrLen + k] = <<g[m], k>>
  <2> DEFINE q == (m - 1) * AddrLen
  <2>1. m - 1 \in Nat /\ q \in Nat
    BY AddressFacts, Products
  <2>2. CASE m = n + 1
    <3>1. m - 1 = n /\ q = Len(r)
      BY <1>2, <2>2
    <3>2. s[Len(r) + k] = Address(a)[k]
      BY <1>2, AddressFacts
    <3> QED
      BY <2>2, <3>1, <3>2, AddressIs
  <2>3. CASE m # n + 1
    <3>1. m - 1 < n /\ m \in 1 .. n
      BY <2>3
    <3>2. q + AddrLen <= Len(r)
      BY <1>2, <2>1, <3>1, AddressFacts, Products
    <3>3. r[q + k] = <<f[m], k>>
      BY <3>1 DEF Whole
    <3> HIDE DEF q
    <3>4. q + k \in 1 .. Len(r)
      BY <1>2, <2>1, <3>2, AddressFacts
    <3>5. s[q + k] = r[q + k]
      BY <1>2, <3>4, AddressFacts
    <3> QED
      BY <2>3, <3>3, <3>5 DEF q
  <2> QED
    BY <2>2, <2>3
<1> QED
  BY <1>1, <1>3, <1>4 DEF Whole

(* The first address is taken from whole ones. *)
LEMMA WholeTake ==
  ASSUME NEW r \in Seq(Servers \X (1 .. AddrLen)), NEW n \in Nat, n > 0,
         NEW f \in [1 .. n -> Servers], Whole(r, n, f)
  PROVE  /\ Len(r) >= AddrLen
         /\ SubSeq(r, 1, AddrLen) = Address(f[1]) /\ f[1] \in Servers
         /\ \E g \in [1 .. n - 1 -> Servers] :
              Whole(SubSeq(r, AddrLen + 1, Len(r)), n - 1, g)
<1> DEFINE g == [m \in 1 .. n - 1 |-> f[m + 1]]
           t == SubSeq(r, AddrLen + 1, Len(r))
           p == (n - 1) * AddrLen
<1>1. g \in [1 .. n - 1 -> Servers] /\ f[1] \in Servers
  OBVIOUS
<1>2. n - 1 \in Nat /\ p \in Nat /\ Len(r) = p + AddrLen
  <2>1. n - 1 \in Nat /\ (n - 1) + 1 = n
    OBVIOUS
  <2> QED
    BY <2>1, AddressFacts, Products DEF Whole
<1> HIDE DEF p
<1>3. \A j \in 1 .. Len(r) : r[j] \in Servers \X (1 .. AddrLen)
  BY ElementOfSeq
<1>4. SubSeq(r, 1, AddrLen) = Address(f[1])
  <2>1. \A k \in 1 .. AddrLen : r[k] = <<f[1], k>>
    <3>1. \A k \in 1 .. AddrLen : r[(1 - 1) * AddrLen + k] = <<f[1], k>>
      BY DEF Whole
    <3>2. \A k \in 1 .. AddrLen : (1 - 1) * AddrLen + k = k
      BY AddressFacts
    <3> QED
      BY <3>1, <3>2
  <2>2. /\ SubSeq(r, 1, AddrLen) \in Seq(Servers \X (1 .. AddrLen))
        /\ Len(SubSeq(r, 1, AddrLen)) = AddrLen
        /\ \A k \in 1 .. AddrLen : SubSeq(r, 1, AddrLen)[k] = r[k]
    BY <1>2, <1>3, AddressFacts, SubSeqProperties
  <2>3. \A k \in 1 .. AddrLen : SubSeq(r, 1, AddrLen)[k] = Address(f[1])[k]
    BY <1>1, <2>1, <2>2, AddressIs
  <2> HIDE DEF Address
  <2> QED
    BY <1>1, <2>2, <2>3, AddressIs, SeqEqual
<1>5. /\ Len(t) = p
      /\ \A j \in 1 .. p : t[j] = r[AddrLen + j]
  BY <1>2, <1>3, AddressFacts, SubSeqProperties
<1>6. ASSUME NEW m \in 1 .. n - 1, NEW k \in 1 .. AddrLen
      PROVE  t[(m - 1) * AddrLen + k] = <<g[m], k>>
  <2> DEFINE q == (m - 1) * AddrLen
  <2>1. q \in Nat /\ m * AddrLen = q + AddrLen /\ q + AddrLen <= p
    <3>1. m - 1 \in Nat /\ (m - 1) + 1 = m /\ m - 1 < n - 1
      OBVIOUS
    <3> QED
      BY <1>2, <3>1, AddressFacts, Products DEF p
  <2>2. r[m * AddrLen + k] = <<f[m + 1], k>>
    <3>1. m + 1 \in 1 .. n /\ (m + 1) - 1 = m
      OBVIOUS
    <3> QED
      BY <3>1 DEF Whole
  <2> HIDE DEF q
  <2>3. q + k \in 1 .. p /\ AddrLen + (q + k) = m * AddrLen + k
    BY <1>2, <2>1, AddressFacts
  <2>4. t[q + k] = r[m * AddrLen + k]
    BY <1>5, <2>3
  <2> QED
    BY <2>2, <2>4 DEF q
<1>7. Whole(t, n - 1, g)
  BY <1>5, <1>6 DEF Whole, p
<1>8. Len(r) >= AddrLen
  BY <1>2, AddressFacts
<1> QED
  BY <1>1, <1>4, <1>7, <1>8

-----------------------------------------------------------------------------
(* The work items *)

(* A handler in progress ends by handing on to i; an item of the chain     *)
(* hands on inside the chain, the reading to itself.                       *)
HandsTo(i) ==
  /\ running \in Works /\ i \in Works
  /\ running \in Chain => i \in Chain
  /\ running \notin Chain => i = running
  /\ EndScheduling(i) \/ EndSubmitting(i)

(* The chain of work items, with what says that it was broken. *)
OneBusy == \A i, j \in Chain : Busy(i) /\ Busy(j) => i = j

LEMMA HandedOn ==
  ASSUME WorkInv, OneBusy, NEW i, HandsTo(i)
  PROVE  /\ WorkInv' /\ OneBusy'
         /\ Busy(i)'
         /\ running \notin Chain => \A w \in Chain : Busy(w)' <=> Busy(w)
         /\ (\E w \in Chain : Busy(w)') <=> (\E w \in Chain : Busy(w))
<1> DEFINE r == running
<1>1. r \in Works /\ i \in Works /\ (r \in Chain <=> i \in Chain) /\ Busy(r)
  BY DEF HandsTo, Busy
<1>2. i = r \/ ~Busy(i)
  BY <1>1 DEF HandsTo, OneBusy
<1>3. EndScheduling(i) \/ EndSubmitting(i)
  BY DEF HandsTo
<1> HIDE DEF r
<1>4. /\ WorkInv'
      /\ \A w \in Works : Busy(w)' <=> w = i \/ (Busy(w) /\ w # r)
  <2>1. running = r
    BY DEF r
  <2> QED
    BY <1>1, <1>2, <1>3, <2>1, Handed
<1>5. \A v, w \in Chain : Busy(v) /\ Busy(w) => v = w
  BY DEF OneBusy
<1>6. /\ \A v, w \in Chain : Busy(v)' /\ Busy(w)' => v = w
      /\ (\E w \in Chain : Busy(w)') <=> (\E w \in Chain : Busy(w))
  BY <1>1, <1>4, <1>5, ChainKept
<1>7. running \notin Chain => \A w \in Chain : Busy(w)' <=> Busy(w)
  BY <1>1, <1>4, WorkNames DEF HandsTo, r
<1> QED
  BY <1>1, <1>4, <1>6, <1>7 DEF OneBusy

(* The handlers that end so. *)
LEMMA Handlers ==
  ASSUME WorkType, RestType, ClientFollowsSetup
  PROVE  /\ NetJoin => HandsTo("start_network")
         /\ NetUp => HandsTo("send_ping")
         /\ Wait => HandsTo(running)
         /\ PingSend => HandsTo("start_lwm2m")
         /\ RePing => HandsTo("send_ping")
         /\ FirstStart => HandsTo("manage_lwm2m")
         /\ RestartClient => HandsTo("manage_lwm2m")
         /\ Manage => HandsTo("start_lwm2m") \/ HandsTo("manage_lwm2m")
         /\ ReadCO2 => HandsTo("read_co2")
<1> USE DEF HandsTo, Chain, Works
<1>1. NetJoin => HandsTo("start_network")     BY DEF NetJoin
<1>2. NetUp => HandsTo("send_ping")           BY DEF NetUp
<1>3. Wait => HandsTo(running)                BY DEF Wait
<1>4. PingSend => HandsTo("start_lwm2m")      BY DEF PingSend
<1>5. RePing => HandsTo("send_ping")          BY DEF RePing, Starting
<1>6. FirstStart => HandsTo("manage_lwm2m")   BY DEF FirstStart, Starting
<1>7. RestartClient => HandsTo("manage_lwm2m")
  BY DEF RestartClient, ClientFollowsSetup
<1>8. Manage => HandsTo("start_lwm2m") \/ HandsTo("manage_lwm2m")
  BY DEF Manage
<1>9. ReadCO2 => HandsTo("read_co2")          BY DEF ReadCO2
<1> QED
  BY <1>1, <1>2, <1>3, <1>4, <1>5, <1>6, <1>7, <1>8, <1>9

(* The steps that leave the work items alone. *)
Surroundings ==
  \/ NetWait \/ PingLost \/ RoleChange \/ JoinDone \/ RdEvent
  \/ \E a \in Servers : PingReply(a)

LEMMA Surrounded ==
  ASSUME Surroundings
  PROVE  UNCHANGED <<delayed, queue, running, restarting, last, lwm2m_setup, client, server>>
BY DEF Surroundings, NetWait, PingLost, RoleChange, JoinDone, RdEvent, PingReply, work, flow,
       lwm2m

LEMMA BusyIsKept ==
  ASSUME UNCHANGED <<delayed, queue, running>>
  PROVE  (WorkInv => WorkInv') /\ \A w : Busy(w)' <=> Busy(w)
BY DEF WorkInv, WorkType, OnePlace, Queued, Busy

LEMMA SameChain ==
  ASSUME ChainInv, UNCHANGED <<client, restarting>>,
         \A w \in Chain : Busy(w)' <=> Busy(w)
  PROVE  ChainInv'
BY DEF ChainInv, Supervised, Abandoned

-----------------------------------------------------------------------------
(* The steps keep the invariant, part by part. *)

LEMMA InitWork == Init => WorkInv /\ ChainInv
<1> SUFFICES ASSUME Init PROVE WorkInv /\ ChainInv
  OBVIOUS
<1>1. /\ delayed \subseteq {"read_co2"} /\ queue = <<"start_network">> /\ running = None
      /\ client = "off"
  BY DEF Init
<1>2. \A w : Queued(w) <=> w = "start_network"
  BY <1>1 DEF Queued
<1>3. WorkInv
  BY <1>1, <1>2 DEF WorkInv, WorkType, OnePlace, Works, Chain, None
<1>4. \A w \in Chain : Busy(w) <=> w = "start_network"
  BY <1>1, <1>2 DEF Busy, Chain, None
<1>5. "start_network" \in Chain
  BY DEF Chain
<1> QED
  BY <1>1, <1>3, <1>4, <1>5 DEF ChainInv, Supervised, Abandoned

LEMMA InitNode == Init => NodeInv
<1> SUFFICES ASSUME Init PROVE NodeInv
  OBVIOUS
<1>1. WorkInv /\ ChainInv
  BY InitWork
<1>2. RestType /\ ClientFollowsSetup
  <2>1. RestType
    <3>1. tries = 0 /\ inflight = 0 /\ 0 \in 0 .. Checks /\ 0 \in 0 .. MaxReplies
      BY AddressFacts DEF Init
    <3>2. /\ restarting = FALSE /\ lwm2m_setup = FALSE /\ is_connected = FALSE
          /\ joining = FALSE /\ enabled \in BOOLEAN /\ last = "CONNECT" /\ client = "off"
          /\ client_status = "DISCONNECT"
      BY Zenon DEF Init
    <3> QED
      BY <3>1, <3>2, Zenon DEF RestType
  <2>2. lwm2m_setup = FALSE /\ client = "off" /\ restarting = FALSE
    BY DEF Init
  <2>3. ClientFollowsSetup
    BY <2>2, Zenon DEF ClientFollowsSetup
  <2> QED
    BY <2>1, <2>3
<1>3. RingInv
  <2>1. ring = <<>> /\ Len(ring) = 0 /\ ring \in Seq(Servers \X (1 .. AddrLen))
    BY DEF Init
  <2>2. [m \in 1 .. 0 |-> 0] \in [1 .. 0 -> Servers] /\ 0 * AddrLen = 0
    BY AddressFacts
  <2>3. Whole(ring, 0, [m \in 1 .. 0 |-> 0])
    BY <2>1, <2>2 DEF Whole
  <2>4. \E f \in [1 .. 0 -> Servers] : Whole(ring, 0, f)
    BY <2>2, <2>3
  <2>5. \E n \in Nat : \E f \in [1 .. n -> Servers] : Whole(ring, n, f)
    BY <2>4
  <2> QED
    BY <2>1, <2>5, AddressFacts DEF RingInv
<1>4. ServerInv
  BY DEF Init, ServerInv, WholeAddress
<1> QED
  BY <1>1, <1>2, <1>3, <1>4 DEF NodeInv

(* What a handler that hands on does to the chain. *)
LEMMA ChainHandedOn ==
  ASSUME WorkInv, ChainInv, NEW i, HandsTo(i), (Abandoned' <=> Abandoned)
  PROVE  WorkInv' /\ ChainInv'
<1>1. OneBusy
  BY DEF ChainInv, OneBusy
<1>2. WorkInv' /\ OneBusy' /\ ((\E w \in Chain : Busy(w)') <=> (\E w \in Chain : Busy(w)))
  BY <1>1, HandedOn
<1> QED
  BY <1>2 DEF ChainInv, Supervised, OneBusy

LEMMA AbandonedSame ==
  ASSUME NodeInv,
         \/ NetJoin \/ NetUp \/ Wait \/ PingSend \/ RePing \/ FirstStart \/ RestartClient
         \/ Manage \/ ReadCO2
  PROVE  Abandoned' <=> Abandoned
<1> USE DEF Abandoned, flow, lwm2m
<1>1. lwm2m_setup <=> client # "off"
  BY DEF NodeInv, ClientFollowsSetup
<1>2. CASE FirstStart
  <2>1. client = "off" /\ client' \in {"off", "started"}
    BY <1>1, <1>2 DEF FirstStart
  <2> QED
    BY <2>1
<1>3. CASE RestartClient
  BY <1>3 DEF RestartClient
<1>4. CASE NetJoin \/ NetUp \/ Wait \/ PingSend \/ RePing \/ Manage \/ ReadCO2
  BY <1>4 DEF NetJoin, NetUp, Wait, PingSend, RePing, Manage, ReadCO2
<1> QED
  BY <1>2, <1>3, <1>4

(* While startLWM2M runs the client is not abandoned. *)
LEMMA NotAbandoned ==
  ASSUME ChainInv, NEW i \in Chain, Busy(i)
  PROVE  ~Abandoned
BY DEF ChainInv, Supervised

LEMMA StopKeeps ==
  ASSUME NodeInv, StopClient
  PROVE  WorkInv' /\ ChainInv'
<1>1. /\ running = "start_lwm2m" /\ ~restarting /\ client' = "stopped"
      /\ "start_lwm2m" \in Chain /\ "start_lwm2m" \in Works
      /\ Busy("start_lwm2m") /\ ~Queued("start_lwm2m") /\ "start_lwm2m" \notin delayed
  BY DEF StopClient, Starting, NodeInv, WorkInv, OnePlace, Busy, Chain, Works
<1>2. \A v \in Chain : Busy(v) => v = "start_lwm2m"
  BY <1>1 DEF NodeInv, ChainInv
<1>3. CASE restarting' = TRUE /\ UNCHANGED work
  <2>1. UNCHANGED <<delayed, queue, running>>
    BY <1>3 DEF work
  <2>2. WorkInv' /\ \A w : Busy(w)' <=> Busy(w)
    BY <2>1, BusyIsKept DEF NodeInv
  <2>3. ~Abandoned'
    BY <1>3 DEF Abandoned
  <2> QED
    BY <1>1, <1>2, <2>2, <2>3 DEF ChainInv, Supervised
<1>4. CASE running' = None /\ UNCHANGED <<server, restarting, delayed, queue>>
  <2>1. Abandoned'
    BY <1>1, <1>4 DEF Abandoned
  <2>2. \A w : Queued(w)' <=> Queued(w)
    BY <1>4 DEF Queued
  <2>3. WorkInv'
    BY <1>4, <2>2, WorkNames DEF NodeInv, WorkInv, WorkType, OnePlace
  <2>4. \A w \in Chain : ~Busy(w)'
    BY <1>1, <1>2, <1>4, <2>2, WorkNames DEF Busy
  <2> QED
    BY <2>1, <2>3, <2>4 DEF ChainInv, Supervised
<1> QED
  BY <1>3, <1>4 DEF StopClient

LEMMA WorkStep == NodeInv /\ [Next]_vars => WorkInv' /\ ChainInv'
<1> SUFFICES ASSUME NodeInv, [Next]_vars PROVE WorkInv' /\ ChainInv'
  OBVIOUS
<1>1. WorkInv /\ ChainInv /\ WorkType /\ RestType /\ ClientFollowsSetup
  BY DEF NodeInv, WorkInv
<1>2. CASE Run \/ \E i \in Works : Expire(i)
  <2>1. WorkInv' /\ \A w \in Works : Busy(w)' <=> Busy(w)
    BY <1>1, <1>2, Moved
  <2>2. UNCHANGED <<client, restarting>>
    BY <1>2 DEF Run, Expire, lwm2m, flow
  <2> QED
    BY <1>1, <2>1, <2>2, SameChain, WorkNames
<1>3. ASSUME NetJoin \/ NetUp \/ Wait \/ PingSend \/ RePing \/ FirstStart \/ RestartClient
             \/ Manage \/ ReadCO2
      PROVE  WorkInv' /\ ChainInv'
  <2>1. Abandoned' <=> Abandoned
    BY <1>3, AbandonedSame
  <2>2. \E i : HandsTo(i)
    BY <1>1, <1>3, Handlers
  <2> QED
    BY <1>1, <2>1, <2>2, ChainHandedOn
<1>4. CASE StopClient
  BY <1>4, StopKeeps
<1>5. CASE Surroundings \/ UNCHANGED vars
  <2>1. UNCHANGED <<delayed, queue, running, client, restarting>>
    BY <1>5, Surrounded DEF vars
  <2> QED
    BY <1>1, <2>1, BusyIsKept, SameChain
<1> QED
  BY <1>2, <1>3, <1>4, <1>5 DEF Next, Handler, Surroundings

LEMMA RestStep == NodeInv /\ [Next]_vars => RestType' /\ ClientFollowsSetup'
<1> SUFFICES ASSUME NodeInv, [Next]_vars PROVE RestType' /\ ClientFollowsSetup'
  OBVIOUS
<1> USE DEF NodeInv, RestType, ClientFollowsSetup, work, flow, lwm2m, pings, network
<1>f. MaxReplies \in Nat /\ Checks \in Nat
  BY AddressFacts
<1>s. restarting => running \notin Chain \ {"start_lwm2m"} /\ running # None
  BY DEF Chain, None
<1>1. ASSUME NEW i \in Works, Expire(i) PROVE RestType' /\ ClientFollowsSetup'
  BY <1>1 DEF Expire
<1>2. CASE Run
  BY <1>2, <1>f, <1>s DEF Run
<1>3. CASE NetWait
  BY <1>3, <1>f DEF NetWait
<1>4. CASE NetJoin
  BY <1>4 DEF NetJoin
<1>5. CASE NetUp
  BY <1>5 DEF NetUp
<1>6. CASE Wait
  BY <1>6 DEF Wait
<1>7. CASE PingSend
  BY <1>7, <1>f DEF PingSend
<1>8. CASE RePing
  BY <1>8 DEF RePing, Starting
<1>9. CASE FirstStart
  <2>1. RestType'
    BY <1>9 DEF FirstStart, Starting
  <2>2. /\ restarting = FALSE /\ restarting' = restarting
        /\ \/ lwm2m_setup' = TRUE /\ client' = "started"
           \/ UNCHANGED <<lwm2m_setup, client>>
    BY <1>9 DEF FirstStart, Starting
  <2>3. ClientFollowsSetup'
    BY <2>2
  <2> QED
    BY <2>1, <2>3
<1>10. CASE StopClient
  <2>1. RestType'
    BY <1>10 DEF StopClient, Starting
  <2>2. /\ restarting = FALSE /\ lwm2m_setup = TRUE /\ lwm2m_setup' = lwm2m_setup
        /\ client' = "stopped" /\ running = "start_lwm2m"
        /\ running' = running \/ restarting' = restarting
    BY <1>10 DEF StopClient, Starting
  <2>3. ClientFollowsSetup'
    BY <2>2
  <2> QED
    BY <2>1, <2>3
<1>11. CASE RestartClient
  BY <1>11 DEF RestartClient
<1>12. CASE Manage
  BY <1>12 DEF Manage
<1>13. CASE ReadCO2
  BY <1>13 DEF ReadCO2
<1>14. ASSUME NEW a \in Servers, PingReply(a) PROVE RestType' /\ ClientFollowsSetup'
  BY <1>14, <1>f DEF PingReply
<1>15. CASE PingLost
  BY <1>15, <1>f DEF PingLost
<1>16. CASE RoleChange
  BY <1>16 DEF RoleChange
<1>17. CASE JoinDone
  BY <1>17 DEF JoinDone
<1>18. CASE RdEvent
  BY <1>18 DEF RdEvent, StatusAfter
<1>19. CASE UNCHANGED vars
  BY <1>19 DEF vars
<1> QED
  BY <1>1, <1>2, <1>3, <1>4, <1>5, <1>6, <1>7, <1>8, <1>9, <1>10, <1>11, <1>12, <1>13, <1>14,
     <1>15, <1>16, <1>17, <1>18, <1>19 DEF Next, Handler

(* startLWM2M takes one whole address, and leaves whole ones. *)
LEMMA Fetched ==
  ASSUME RingInv, Len(Got) = AddrLen
  PROVE  /\ \E a \in Servers : Got = Address(a)
         /\ Rest \in Seq(Servers \X (1 .. AddrLen)) /\ Len(Rest) <= RingCap
         /\ \E n \in Nat : \E f \in [1 .. n -> Servers] : Whole(Rest, n, f)
<1>1. ring \in Seq(Servers \X (1 .. AddrLen)) /\ Len(ring) \in Nat /\ Len(ring) <= RingCap
  BY LenProperties DEF RingInv
<1>2. PICK n \in Nat : \E f \in [1 .. n -> Servers] : Whole(ring, n, f)
  BY DEF RingInv
<1>3. PICK f \in [1 .. n -> Servers] : Whole(ring, n, f)
  BY <1>2
<1>4. \A j \in 1 .. Len(ring) : ring[j] \in Servers \X (1 .. AddrLen)
  BY <1>1, ElementOfSeq
<1>5. n > 0
  <2> SUFFICES ASSUME n = 0 PROVE FALSE
    OBVIOUS
  <2>1. Len(ring) = 0
    BY <1>3, AddressFacts DEF Whole
  <2>2. Got = SubSeq(ring, 1, 0)
    BY <2>1, AddressFacts DEF Got
  <2>3. Len(Got) = 0
    BY <1>1, <2>2, SubSeqProperties
  <2> QED
    BY <2>3, AddressFacts
<1>6. /\ Len(ring) >= AddrLen
      /\ SubSeq(ring, 1, AddrLen) = Address(f[1]) /\ f[1] \in Servers
      /\ \E g \in [1 .. n - 1 -> Servers] :
           Whole(SubSeq(ring, AddrLen + 1, Len(ring)), n - 1, g)
  BY <1>1, <1>3, <1>5, WholeTake
<1>7. Got = SubSeq(ring, 1, AddrLen)
  BY <1>1, <1>6, AddressFacts DEF Got
<1>8. Rest = SubSeq(ring, AddrLen + 1, Len(ring))
  BY DEF Rest
<1>9. Rest \in Seq(Servers \X (1 .. AddrLen)) /\ Len(Rest) = Len(ring) - AddrLen
  BY <1>1, <1>4, <1>6, <1>8, AddressFacts, SubSeqProperties
<1>10. n - 1 \in Nat /\ \E g \in [1 .. n - 1 -> Servers] : Whole(Rest, n - 1, g)
  BY <1>5, <1>6, <1>8
<1>11. \E m \in Nat : \E g \in [1 .. m -> Servers] : Whole(Rest, m, g)
  BY <1>10
<1>12. Len(Rest) <= RingCap
  BY <1>1, <1>9, AddressFacts
<1> QED
  BY <1>6, <1>7, <1>9, <1>11, <1>12

LEMMA Multiple ==
  ASSUME NEW a \in Nat, NEW b \in Nat, b > 0, a % b = 0
  PROVE  \E q \in Int : a = q * b
BY Z3

(* The ring has room for a whole address or for nothing. *)
LEMMA Room ==
  ASSUME NEW n \in Nat, n * AddrLen <= RingCap, RingCap - n * AddrLen < AddrLen
  PROVE  RingCap = n * AddrLen
<1>1. PICK q \in Nat : RingCap = q * AddrLen
  <2>1. \E q \in Int : RingCap = q * AddrLen
    <3>1. RingCap \in Nat /\ AddrLen \in Nat /\ AddrLen > 0
      BY AddressFacts
    <3>2. RingCap % AddrLen = 0
      BY Zenon, SensorNodeAssumption
    <3> QED
      BY <3>1, <3>2, Multiple, Zenon
  <2>2. PICK q \in Int : RingCap = q * AddrLen
    BY <2>1
  <2>3. q >= 0
    <3> SUFFICES ASSUME q < 0 PROVE FALSE
      OBVIOUS
    <3>1. -q \in Nat /\ -q >= 1 /\ (-q) * AddrLen = -RingCap
      BY <2>2, AddressFacts
    <3>2. 0 < -q => 0 * AddrLen + AddrLen <= (-q) * AddrLen
      BY <3>1, AddressFacts, Products
    <3> QED
      BY <3>1, <3>2, AddressFacts
  <2> QED
    BY <2>2, <2>3
<1>2. CASE q <= n
  <2>1. q * AddrLen <= n * AddrLen
    <3>1. q = n \/ q < n
      BY <1>2
    <3>2. q < n => q * AddrLen + AddrLen <= n * AddrLen
      BY AddressFacts, Products
    <3> QED
      BY <3>1, <3>2, AddressFacts, Products
  <2> QED
    BY <1>1, <2>1, AddressFacts, Products
<1>3. CASE n < q
  <2>1. n * AddrLen + AddrLen <= q * AddrLen
    BY <1>3, AddressFacts, Products
  <2>2. n * AddrLen \in Nat
    BY AddressFacts, Products
  <2> QED
    BY <1>1, <2>1, <2>2, AddressFacts
<1> QED
  BY <1>2, <1>3

(* A reply is stored whole or not at all. *)
LEMMA Replied ==
  ASSUME RingInv, NEW a \in Servers, PingReply(a)
  PROVE  RingInv'
<1> DEFINE room == RingCap - Len(ring)
<1>1. ring \in Seq(Servers \X (1 .. AddrLen)) /\ Len(ring) \in Nat /\ Len(ring) <= RingCap
  BY LenProperties DEF RingInv
<1>2. ring' = ring \o SubSeq(Address(a), 1, IF room < AddrLen THEN room ELSE AddrLen)
  BY DEF PingReply, Address
<1>3. PICK n \in Nat : \E f \in [1 .. n -> Servers] : Whole(ring, n, f)
  BY DEF RingInv
<1>4. PICK f \in [1 .. n -> Servers] : Whole(ring, n, f)
  BY <1>3
<1>5. Len(ring) = n * AddrLen
  BY <1>4 DEF Whole
<1>6. /\ Address(a) \in Seq(Servers \X (1 .. AddrLen)) /\ Len(Address(a)) = AddrLen
      /\ \A k \in 1 .. AddrLen : Address(a)[k] \in Servers \X (1 .. AddrLen)
  BY AddressIs, ElementOfSeq
<1> HIDE DEF Address
<1>7. CASE room < AddrLen
  <2>1. room = 0
    <3>1. RingCap = n * AddrLen
      BY <1>1, <1>5, <1>7, Room
    <3> QED
      BY <1>1, <1>5, <3>1
  <2>2. ring' = ring \o SubSeq(Address(a), 1, 0)
    BY <1>2, <1>7, <2>1
  <2>3. SubSeq(Address(a), 1, 0) = <<>>
    BY <1>6, SubSeqProperties, EmptySeq
  <2>4. ring' = ring
    BY <1>1, <2>2, <2>3, ConcatEmptySeq
  <2> QED
    BY <2>4 DEF RingInv
<1>8. CASE ~(room < AddrLen)
  <2>1. ring' = ring \o SubSeq(Address(a), 1, AddrLen)
    BY <1>2, <1>8
  <2>2. SubSeq(Address(a), 1, AddrLen) = Address(a)
    <3>1. /\ SubSeq(Address(a), 1, AddrLen) \in Seq(Servers \X (1 .. AddrLen))
          /\ Len(SubSeq(Address(a), 1, AddrLen)) = AddrLen
          /\ \A k \in 1 .. AddrLen : SubSeq(Address(a), 1, AddrLen)[k] = Address(a)[k]
      BY <1>6, AddressFacts, SubSeqProperties
    <3> QED
      BY <1>6, <3>1, SeqEqual
  <2>3. ring' = ring \o Address(a)
    BY <2>1, <2>2
  <2>4. \E g \in [1 .. n + 1 -> Servers] : Whole(ring', n + 1, g)
    BY <1>1, <1>4, <2>3, WholeAppend
  <2>5. ring' \in Seq(Servers \X (1 .. AddrLen)) /\ Len(ring') = Len(ring) + AddrLen
    BY <1>1, <1>6, <2>3, ConcatProperties
  <2>6. Len(ring') <= RingCap
    BY <1>1, <1>8, <2>5, AddressFacts
  <2> QED
    BY <2>4, <2>5, <2>6 DEF RingInv
<1> QED
  BY <1>7, <1>8

LEMMA RingStep == NodeInv /\ [Next]_vars => RingInv' /\ ServerInv'
<1> SUFFICES ASSUME NodeInv, [Next]_vars PROVE RingInv' /\ ServerInv'
  OBVIOUS
<1>1. RingInv /\ ServerInv
  BY DEF NodeInv
<1>2. CASE UNCHANGED <<ring, lwm2m_setup, server>>
  BY <1>1, <1>2 DEF RingInv, ServerInv, WholeAddress
<1>3. ASSUME NEW a \in Servers, PingReply(a) PROVE RingInv' /\ ServerInv'
  <2>1. UNCHANGED <<lwm2m_setup, server>>
    BY <1>3 DEF PingReply, lwm2m
  <2> QED
    BY <1>1, <1>3, <2>1, Replied DEF ServerInv, WholeAddress
<1>4. CASE RePing
  <2>1. ring' = <<>> /\ UNCHANGED <<lwm2m_setup, server>>
    BY <1>4 DEF RePing, lwm2m
  <2>2. /\ ring' \in Seq(Servers \X (1 .. AddrLen)) /\ Len(ring') = 0
    BY <2>1
  <2>3. \E f \in [1 .. 0 -> Servers] : Whole(ring', 0, f)
    <3>1. [m \in 1 .. 0 |-> 0] \in [1 .. 0 -> Servers] /\ 0 * AddrLen = 0
      BY AddressFacts
    <3>2. Whole(ring', 0, [m \in 1 .. 0 |-> 0])
      BY <2>2, <3>1 DEF Whole
    <3> QED
      BY <3>1, <3>2
  <2>4. \E n \in Nat : \E f \in [1 .. n -> Servers] : Whole(ring', n, f)
    BY <2>3
  <2>5. RingInv'
    BY <2>2, <2>4, AddressFacts DEF RingInv
  <2>6. ServerInv'
    BY <1>1, <2>1 DEF ServerInv, WholeAddress
  <2> QED
    BY <2>5, <2>6
<1>5. CASE FirstStart \/ StopClient
  <2>1. Len(Got) = AddrLen /\ ring' = Rest
    BY <1>5 DEF FirstStart, StopClient
  <2>2. /\ \E a \in Servers : Got = Address(a)
        /\ Rest \in Seq(Servers \X (1 .. AddrLen)) /\ Len(Rest) <= RingCap
        /\ \E n \in Nat : \E f \in [1 .. n -> Servers] : Whole(Rest, n, f)
    BY <1>1, <2>1, Fetched
  <2>3. RingInv'
    BY <2>1, <2>2 DEF RingInv
  <2>4. server' = Got \/ UNCHANGED <<lwm2m_setup, server>>
    BY <1>5 DEF FirstStart, StopClient, lwm2m
  <2>5. CASE server' = Got
    <3>1. PICK a \in Servers : server' = Address(a)
      BY <2>2, <2>5
    <3>2. server' \in Seq(Servers \X (1 .. AddrLen))
      BY <3>1, AddressIs
    <3> QED
      BY <2>3, <3>1, <3>2 DEF ServerInv, WholeAddress, Address
  <2>6. CASE UNCHANGED <<lwm2m_setup, server>>
    BY <1>1, <2>3, <2>6 DEF ServerInv, WholeAddress
  <2> QED
    BY <2>4, <2>5, <2>6
<1>6. CASE Run \/ (\E i \in Works : Expire(i)) \/ NetWait \/ NetJoin \/ NetUp \/ Wait
           \/ PingSend \/ RestartClient \/ Manage \/ ReadCO2 \/ PingLost \/ RoleChange
           \/ JoinDone \/ RdEvent \/ UNCHANGED vars
  <2>1. UNCHANGED <<ring, lwm2m_setup, server>>
    BY <1>6 DEF Run, Expire, NetWait, NetJoin, NetUp, Wait, PingSend, RestartClient, Manage,
                ReadCO2, PingLost, RoleChange, JoinDone, RdEvent, vars, pings, lwm2m
  <2> QED
    BY <1>2, <2>1
<1> QED
  BY <1>3, <1>4, <1>5, <1>6 DEF Next, Handler

(* Every reachable state satisfies the invariant. *)
LEMMA NodeInvariant == Spec => []NodeInv
<1>1. NodeInv /\ [Next]_vars => NodeInv'
  BY WorkStep, RestStep, RingStep DEF NodeInv
<1> QED
  BY InitNode, <1>1, PTL DEF Spec

-----------------------------------------------------------------------------
(* What follows from it. *)

(* Every variable keeps its type; the ring never holds more than it can.   *)
THEOREM SensorTypeOK == Spec => []TypeOK
<1>1. NodeInv => TypeOK
  BY DEF NodeInv, WorkInv, WorkType, RestType, RingInv, ServerInv, TypeOK
<1> QED
  BY <1>1, NodeInvariant, PTL

(* The address in the client's URL is one that a server sent, whole, and   *)
(* the client exists from its setup on and sleeps stopped in one place.    *)
THEOREM SensorClientAsFound == Spec => []ClientAsFound
<1>1. NodeInv => ClientAsFound
  BY DEF NodeInv, ServerInv, ClientAsFound
<1> QED
  BY <1>1, NodeInvariant, PTL

LEMMA AtMostOne ==
  ASSUME NEW S, \A x, y \in S : x = y
  PROVE  Cardinality(S) \in {0, 1} /\ (S = {} => Cardinality(S) = 0)
<1>1. CASE S = {}
  BY <1>1, FS_EmptySet
<1>2. CASE S # {}
  <2>1. PICK x : S = {x}
    BY <1>2
  <2> QED
    BY <1>2, <2>1, FS_Singleton
<1> QED
  BY <1>1, <1>2

(* The work items neither fork nor break: no two stages are ever scheduled *)
(* together, none twice, and one is, unless startLWM2M gave up.            *)
THEOREM SensorOneSupervisor == Spec => []OneSupervisor
<1>1. NodeInv => OneSupervisor
  <2> SUFFICES ASSUME NodeInv PROVE OneSupervisor
    OBVIOUS
  <2>1. Cardinality({i \in Chain : Busy(i)}) <= 1
    <3> DEFINE S == {i \in Chain : Busy(i)}
    <3>1. \A x, y \in S : x = y
      BY DEF NodeInv, ChainInv
    <3> HIDE DEF S
    <3>2. Cardinality(S) \in {0, 1}
      BY <3>1, AtMostOne
    <3> QED
      BY <3>2 DEF S
  <2>2. ASSUME NEW i \in Works PROVE Places(i) <= 1
    <3> DEFINE S == {k \in 1 .. Len(queue) : queue[k] = i}
    <3>1. \A x, y \in S : x = y
      BY DEF NodeInv, WorkInv, OnePlace
    <3>2. S = {} <=> ~Queued(i)
      BY DEF Queued
    <3>3. i \in delayed => ~Queued(i) /\ running # i
      BY DEF NodeInv, WorkInv, OnePlace
    <3>4. running = i => ~Queued(i)
      BY DEF NodeInv, WorkInv, OnePlace
    <3>5. Places(i) = Cardinality(S) + (IF i \in delayed THEN 1 ELSE 0)
                        + (IF running = i THEN 1 ELSE 0)
      BY DEF Places
    <3> HIDE DEF S
    <3>6. Cardinality(S) \in {0, 1} /\ (S = {} => Cardinality(S) = 0)
      BY <3>1, AtMostOne
    <3> QED
      BY <3>2, <3>3, <3>4, <3>5, <3>6
  <2> QED
    BY <2>1, <2>2 DEF NodeInv, ChainInv, OneSupervisor, OneChain
<1> QED
  BY <1>1, NodeInvariant, PTL

-----------------------------------------------------------------------------
(* The supervisor *)

(* The stage is the busy item of the chain. *)
LEMMA StageIs ==
  ASSUME ChainInv, NEW i \in Chain, Busy(i)
  PROVE  Stage = i
<1>1. ~Abandoned
  BY NotAbandoned
<1>2. \A j \in Chain : Busy(j) <=> j = i
  BY DEF ChainInv
<1>3. (CHOOSE j \in Chain : Busy(j)) = i
  BY <1>2
<1> QED
  BY <1>1, <1>3 DEF Stage

LEMMA StageBecomes ==
  ASSUME ChainInv', NEW i \in Chain, Busy(i)'
  PROVE  Stage' = i
<1>1. ~Abandoned'
  BY DEF ChainInv, Supervised
<1>2. \A j \in Chain : Busy(j)' <=> j = i
  BY DEF ChainInv
<1>3. (CHOOSE j \in Chain : Busy(j)') = i
  BY <1>2
<1> QED
  BY <1>1, <1>3 DEF Stage

LEMMA StageKept ==
  ASSUME ChainInv, ChainInv', Abandoned' <=> Abandoned,
         \A w \in Chain : Busy(w)' <=> Busy(w)
  PROVE  Stage' = Stage
<1>1. CASE Abandoned
  BY <1>1 DEF Stage
<1>2. CASE ~Abandoned
  <2>1. PICK i \in Chain : Busy(i)
    BY <1>2 DEF ChainInv, Supervised
  <2>2. Stage = i
    BY <2>1, StageIs
  <2>3. Stage' = i
    BY <2>1, StageBecomes
  <2> QED
    BY <2>2, <2>3
<1> QED
  BY <1>1, <1>2

(* A handler of the chain hands the stage on. *)
LEMMA StageHandedOn ==
  ASSUME WorkInv, ChainInv, ChainInv', NEW i, HandsTo(i), running \in Chain
  PROVE  Stage = running /\ Stage' = i
<1>1. Busy(running) /\ i \in Chain
  BY DEF Busy, HandsTo
<1>2. Busy(i)'
  <2>1. OneBusy
    BY DEF ChainInv, OneBusy
  <2> QED
    BY <2>1, HandedOn
<1>3. Stage = running
  BY <1>1, StageIs
<1>4. Stage' = i
  BY <1>1, <1>2, StageBecomes
<1> QED
  BY <1>3, <1>4

LEMMA InitStage == Init => Abstract!SupervisorInit
<1> SUFFICES ASSUME Init PROVE Abstract!SupervisorInit
  OBVIOUS
<1>1. ChainInv
  BY InitWork
<1>2. queue = <<"start_network">> /\ last = "CONNECT"
  BY DEF Init
<1>3. "start_network" \in Chain /\ Busy("start_network")
  BY <1>2 DEF Chain, Busy, Queued
<1>4. Stage = "start_network"
  BY <1>1, <1>3, StageIs
<1>5. Missed = FALSE
  BY <1>2 DEF Missed
<1>6. client = "off" /\ is_connected = FALSE /\ client_status = "DISCONNECT"
  BY Zenon DEF Init
<1> QED
  BY <1>4, <1>5, <1>6, Zenon DEF Abstract!SupervisorInit

LEMMA StageStep ==
  ASSUME NodeInv, NodeInv', [Next]_vars
  PROVE  [Abstract!SupervisorNext]_(Abstract!supervisorVars)
<1> DEFINE Others == UNCHANGED <<client, is_connected, client_status>>
<1>i. WorkInv /\ WorkType /\ ChainInv /\ ChainInv' /\ RestType /\ RestType'
      /\ ClientFollowsSetup
  BY DEF NodeInv, WorkInv
<1>s. ASSUME Stage' = Stage, UNCHANGED <<last, client, is_connected, client_status>>
      PROVE  UNCHANGED Abstract!supervisorVars
  BY <1>s DEF Missed, Abstract!supervisorVars
<1>1. CASE Run \/ (\E i \in Works : Expire(i))
  <2>1. UNCHANGED <<last, client, restarting, is_connected, client_status>>
    BY <1>1 DEF Run, Expire, flow, lwm2m, network
  <2>2. \A w \in Chain : Busy(w)' <=> Busy(w)
    BY <1>1, <1>i, Moved, WorkNames
  <2>3. Stage' = Stage
    BY <1>i, <2>1, <2>2, StageKept DEF Abandoned
  <2> QED
    BY <1>s, <2>1, <2>3
<1>2. CASE NetWait \/ PingLost \/ JoinDone \/ (\E a \in Servers : PingReply(a))
           \/ UNCHANGED vars
  <2>1. UNCHANGED <<delayed, queue, running, last, client, restarting, is_connected,
                    client_status>>
    BY <1>2 DEF NetWait, PingLost, JoinDone, PingReply, vars, work, flow, lwm2m, network
  <2>2. Stage' = Stage
    BY <1>i, <2>1, BusyIsKept, StageKept DEF Abandoned
  <2> QED
    BY <1>s, <2>1, <2>2
<1>3. CASE NetJoin \/ Wait
  <2>1. HandsTo(running) /\ running \in Chain
    BY <1>3, <1>i, Handlers DEF NetJoin, Wait, Chain
  <2>2. Stage' = Stage
    BY <1>i, <2>1, StageHandedOn
  <2>3. UNCHANGED <<last, client, is_connected, client_status>>
    BY <1>3 DEF NetJoin, Wait, flow, lwm2m, network
  <2> QED
    BY <1>s, <2>2, <2>3
<1>4. CASE ReadCO2
  <2>1. /\ UNCHANGED <<last, client, restarting, is_connected, client_status>>
        /\ running \notin Chain
    BY <1>4 DEF ReadCO2, flow, lwm2m, network, Chain
  <2>2. HandsTo("read_co2") /\ OneBusy
    BY <1>4, <1>i, Handlers DEF ChainInv, OneBusy
  <2>3. \A w \in Chain : Busy(w)' <=> Busy(w)
    BY <1>i, <2>1, <2>2, HandedOn
  <2>4. Stage' = Stage
    BY <1>i, <2>1, <2>3, StageKept DEF Abandoned
  <2> QED
    BY <1>s, <2>1, <2>4
<1>5. CASE NetUp
  <2>1. Stage = "start_network" /\ Stage' = "send_ping"
    BY <1>5, <1>i, Handlers, StageHandedOn DEF NetUp, Chain
  <2>2. Abstract!Advance("start_network", "send_ping")
    BY <1>5, <2>1 DEF NetUp, flow, lwm2m, network, Missed, Abstract!Advance
  <2> QED
    BY <2>2 DEF Abstract!SupervisorNext
<1>6. CASE PingSend
  <2>1. Stage = "send_ping" /\ Stage' = "start_lwm2m"
    BY <1>6, <1>i, Handlers, StageHandedOn DEF PingSend, Chain
  <2>2. Abstract!Advance("send_ping", "start_lwm2m")
    BY <1>6, <2>1 DEF PingSend, flow, lwm2m, network, Missed, Abstract!Advance
  <2> QED
    BY <2>2 DEF Abstract!SupervisorNext
<1>7. CASE RePing
  <2>1. Stage = "start_lwm2m" /\ Stage' = "send_ping"
    BY <1>7, <1>i, Handlers, StageHandedOn DEF RePing, Starting, Chain
  <2>2. Abstract!Advance("start_lwm2m", "send_ping")
    BY <1>7, <2>1 DEF RePing, Starting, flow, lwm2m, network, Missed, Abstract!Advance
  <2> QED
    BY <2>2 DEF Abstract!SupervisorNext
<1>8. CASE FirstStart
  <2>1. Stage = "start_lwm2m" /\ Stage' = "manage_lwm2m"
    BY <1>8, <1>i, Handlers, StageHandedOn DEF FirstStart, Starting, Chain
  <2>2. client = "off" /\ client' \in {"off", "started"}
    BY <1>8, <1>i DEF FirstStart, ClientFollowsSetup, lwm2m
  <2>3. Abstract!Register
    BY <1>8, <2>1, <2>2 DEF FirstStart, Starting, flow, network, Missed, Abstract!Register
  <2> QED
    BY <2>3 DEF Abstract!SupervisorNext
<1>9. CASE StopClient
  <2>1. running = "start_lwm2m" /\ "start_lwm2m" \in Chain /\ Busy("start_lwm2m")
    BY <1>9 DEF StopClient, Starting, Chain, Busy
  <2>2. Stage = "start_lwm2m" /\ ~Abandoned
    BY <1>i, <2>1, StageIs, NotAbandoned
  <2>3. client = "started" /\ client' = "stopped"
    BY <1>9, <1>i, <2>2 DEF StopClient, Starting, Abandoned, ClientFollowsSetup, RestType
  <2>4. Stage' \in {"start_lwm2m", "abandoned"}
    <3>1. CASE UNCHANGED work
      <4>1. Busy("start_lwm2m")'
        BY <2>1, <3>1, BusyIsKept DEF work
      <4> QED
        BY <1>i, <2>1, <4>1, StageBecomes
    <3>2. CASE UNCHANGED restarting
      <4>1. Abandoned'
        BY <1>9, <2>3, <3>2 DEF StopClient, Starting, Abandoned
      <4> QED
        BY <4>1 DEF Stage
    <3> QED
      BY <1>9, <3>1, <3>2 DEF StopClient
  <2>5. Abstract!Stop
    BY <1>9, <1>i, <2>2, <2>3, <2>4 DEF StopClient, Starting, Missed, network, Abstract!Stop
  <2> QED
    BY <2>5 DEF Abstract!SupervisorNext
<1>10. CASE RestartClient
  <2>1. running = "start_lwm2m" /\ client = "stopped" /\ "start_lwm2m" \in Chain
    BY <1>10, <1>i DEF RestartClient, ClientFollowsSetup, Chain
  <2>2. Stage = "start_lwm2m" /\ Stage' = "manage_lwm2m"
    BY <1>10, <1>i, <2>1, Handlers, StageHandedOn
  <2>3. Abstract!Restart
    BY <1>10, <2>1, <2>2 DEF RestartClient, network, Missed, Abstract!Restart
  <2> QED
    BY <2>3 DEF Abstract!SupervisorNext
<1>11. CASE Manage
  <2>1. running = "manage_lwm2m" /\ "manage_lwm2m" \in Chain /\ last \in {"CONNECT", "DISCONNECT"}
        /\ client_status \in {"CONNECT", "DISCONNECT"}
    BY <1>11, <1>i DEF Manage, Chain, RestType
  <2>2. Others
    BY <1>11 DEF Manage, lwm2m, network
  <2> DEFINE twice == client_status = "DISCONNECT" /\ last = "DISCONNECT"
             next  == IF twice THEN "start_lwm2m" ELSE "manage_lwm2m"
  <2>3. HandsTo(next)
    BY <1>11 DEF Manage, HandsTo, Chain, Works
  <2>4. Stage = "manage_lwm2m" /\ Stage' = next
    BY <1>i, <2>1, <2>3, StageHandedOn
  <2>5. Missed' = (client_status = "DISCONNECT" /\ ~Missed)
    <3>1. last' = IF twice THEN "CONNECT" ELSE client_status
      BY <1>11 DEF Manage
    <3>2. (last' = "DISCONNECT") <=> (client_status = "DISCONNECT" /\ ~(last = "DISCONNECT"))
      BY <2>1, <3>1
    <3> QED
      BY <3>2, Zenon DEF Missed
  <2>6. Abstract!Check
    BY <2>2, <2>4, <2>5 DEF Abstract!Check, Missed
  <2> QED
    BY <2>6 DEF Abstract!SupervisorNext
<1>12. CASE RoleChange
  <2>1. UNCHANGED <<delayed, queue, running, last, client, restarting, client_status>>
        /\ is_connected' \in BOOLEAN
    BY <1>12, <1>i DEF RoleChange, work, flow, lwm2m, RestType
  <2>2. Stage' = Stage
    BY <1>i, <2>1, BusyIsKept, StageKept DEF Abandoned
  <2>3. Abstract!Environment
    BY <2>1, <2>2 DEF Missed, Abstract!Environment, Abstract!node
  <2> QED
    BY <2>3 DEF Abstract!SupervisorNext
<1>13. CASE RdEvent
  <2>1. UNCHANGED <<delayed, queue, running, last, client, restarting, is_connected>>
        /\ client # "off" /\ client_status' \in {"CONNECT", "DISCONNECT"}
    BY <1>13, <1>i DEF RdEvent, work, flow, lwm2m, network, RestType
  <2>2. Stage' = Stage
    BY <1>i, <2>1, BusyIsKept, StageKept DEF Abandoned
  <2>3. Abstract!Environment
    BY <2>1, <2>2 DEF Missed, Abstract!Environment, Abstract!node
  <2> QED
    BY <2>3 DEF Abstract!SupervisorNext
<1> QED
  BY <1>1, <1>2, <1>3, <1>4, <1>5, <1>6, <1>7, <1>8, <1>9, <1>10, <1>11, <1>12, <1>13
  DEF Next, Handler

(* The sensor node implements its supervisor, for any servers and any      *)
(* number of replies: one stage at a time, registering anew only after two *)
(* checks in a row found the registration gone, and an end in one place.   *)
THEOREM SensorImplementsSupervisor == Spec => ImplementsSupervisor
<1>1. Init => Abstract!SupervisorInit
  BY InitStage
<1>2. NodeInv /\ NodeInv' /\ [Next]_vars
        => [Abstract!SupervisorNext]_(Abstract!supervisorVars)
  BY StageStep
<1> QED
  BY <1>1, <1>2, NodeInvariant, PTL DEF Spec, ImplementsSupervisor, Abstract!SupervisorSpec
=============================================================================
