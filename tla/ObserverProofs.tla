---------------------------- MODULE ObserverProofs ----------------------------
(***************************************************************************)
(* The registries of the observers, and what reaches each of them: proofs  *)
(* about WebSocketHandler that rest on what WebSocketHandlerProofs shows   *)
(* of each connection, for any number of connections, tasks, simulations,  *)
(* events and requests.                                                    *)
(***************************************************************************)
EXTENDS WebSocketHandlerProofs, FiniteSetTheorems

-----------------------------------------------------------------------------
(* Lists without some of their members *)

\* Ranks number the elements of a set of positions from 1 on, in their order.
LEMMA RankStep ==
    ASSUME NEW N \in Nat, NEW kept \in SUBSET (1 .. N)
    PROVE  /\ IsFiniteSet(kept) /\ Cardinality(kept) \in Nat
           /\ \A i \in kept : Rank(kept, i) \in 1 .. Cardinality(kept)
           /\ \A i, j \in kept : Rank(kept, i) = Rank(kept, j) => i = j
<1>1. IsFiniteSet(kept) /\ Cardinality(kept) \in Nat
  <2>1. IsFiniteSet(1 .. N)
    BY FS_Interval
  <2>2. QED
    BY <2>1, FS_Subset, FS_CardinalityType
<1> DEFINE below(i) == {j \in kept : j <= i}
<1>2. ASSUME NEW i \in kept
      PROVE  /\ IsFiniteSet(below(i)) /\ Cardinality(below(i)) \in Nat
             /\ Cardinality(below(i)) <= Cardinality(kept)
             /\ Cardinality(below(i)) # 0
  <2>1. below(i) \in SUBSET kept /\ i \in below(i)
    OBVIOUS
  <2>2. IsFiniteSet(below(i)) /\ Cardinality(below(i)) <= Cardinality(kept)
    BY <1>1, <2>1, FS_Subset
  <2>3. Cardinality(below(i)) # 0
    BY <2>1, <2>2, FS_EmptySet
  <2>4. QED
    BY <2>2, <2>3, FS_CardinalityType
<1>3. ASSUME NEW i \in kept, NEW j \in kept, i < j
      PROVE  Cardinality(below(i)) # Cardinality(below(j))
  <2>1. below(i) \in SUBSET below(j) /\ j \in below(j) /\ j \notin below(i)
    <3>1. i \in Nat /\ j \in Nat /\ \A l \in kept : l \in Nat
      OBVIOUS
    <3>2. \A l \in kept : l <= i => l <= j
      BY <1>3, <3>1
    <3>3. j <= j /\ ~(j <= i)
      BY <1>3, <3>1
    <3>4. QED
      BY <3>2, <3>3
  <2>2. QED
    BY <1>2, <2>1, FS_Subset
<1>4. \A i \in kept : Rank(kept, i) \in 1 .. Cardinality(kept)
  BY <1>1, <1>2 DEF Rank
<1>5. \A i, j \in kept : Rank(kept, i) = Rank(kept, j) => i = j
  BY <1>3 DEF Rank
<1>6. QED
  BY <1>1, <1>4, <1>5

LEMMA RankIsOnto ==
    ASSUME NEW N \in Nat, NEW kept \in SUBSET (1 .. N)
    PROVE  \A n \in 1 .. Cardinality(kept) : \E i \in kept : Rank(kept, i) = n
<1> DEFINE k == Cardinality(kept)
           f == [i \in kept |-> Rank(kept, i)]
<1>1. k \in Nat /\ f \in [kept -> 1 .. k]
  BY RankStep
<1>2. f \in Injection(kept, 1 .. k)
  BY <1>1, RankStep DEF Injection, IsInjective
<1>3. IsFiniteSet(1 .. k) /\ Cardinality(1 .. k) = k
  BY <1>1, FS_Interval
<1>4. f \in Surjection(kept, 1 .. k)
  BY <1>2, <1>3, FS_Injection
<1>5. QED
  BY <1>4 DEF Surjection

\* Removing keeps the others, each once.
LEMMA WithoutFacts ==
    ASSUME NEW q \in Seq(Conn), NEW gone, NoRepeats(q)
    PROVE  /\ Without(q, gone) \in Seq(Conn)
           /\ NoRepeats(Without(q, gone))
           /\ Members(Without(q, gone)) = Members(q) \ gone
<1> DEFINE kept == {i \in DOMAIN q : q[i] \notin gone}
           k == Cardinality(kept)
           at(n) == CHOOSE i \in kept : Rank(kept, i) = n
           r == Without(q, gone)
<1>1. Len(q) \in Nat /\ kept \in SUBSET (1 .. Len(q)) /\ k \in Nat
  <2>1. Len(q) \in Nat /\ kept \in SUBSET (1 .. Len(q))
    OBVIOUS
  <2>2. QED
    BY <2>1, RankStep
<1>2. r = [n \in 1 .. k |-> q[at(n)]]
  BY DEF Without
<1>3. \A n \in 1 .. k : at(n) \in kept /\ Rank(kept, at(n)) = n
  BY <1>1, RankIsOnto
<1>4. \A i \in kept : Rank(kept, i) \in 1 .. k /\ at(Rank(kept, i)) = i
  BY <1>1, <1>3, RankStep
<1> HIDE DEF at, k, r
<1>5. r \in Seq(Conn) /\ DOMAIN r = 1 .. k
  <2>1. k \in Nat
    BY <1>1
  <2>2. \A n \in 1 .. k : q[at(n)] \in Conn
    <3>1. \A i \in DOMAIN q : q[i] \in Conn
      OBVIOUS
    <3>2. QED
      BY <1>3, <3>1
  <2>3. QED
    BY <1>2, <2>1, <2>2
<1>6. NoRepeats(r)
  <2>1. ASSUME NEW m \in 1 .. k, NEW n \in 1 .. k, m # n PROVE r[m] # r[n]
    <3>1. at(m) \in DOMAIN q /\ at(n) \in DOMAIN q /\ at(m) # at(n)
      BY <1>3, <2>1
    <3>2. r[m] = q[at(m)] /\ r[n] = q[at(n)]
      BY <1>2
    <3>3. QED
      BY <3>1, <3>2 DEF NoRepeats
  <2>2. QED
    BY <1>5, <2>1 DEF NoRepeats
<1>7. Members(r) = Members(q) \ gone
  <2>1. ASSUME NEW c \in Members(r) PROVE c \in Members(q) \ gone
    BY <1>2, <1>3, <1>5 DEF Members
  <2>2. ASSUME NEW c \in Members(q) \ gone PROVE c \in Members(r)
    <3>1. PICK i \in kept : q[i] = c
      BY DEF Members
    <3>2. r[Rank(kept, i)] = c
      BY <1>2, <1>4, <3>1
    <3>3. QED
      BY <1>4, <1>5, <3>2 DEF Members
  <2>3. QED
    BY <2>1, <2>2
<1>8. QED
  BY <1>5, <1>6, <1>7 DEF r

LEMMA AppendFacts ==
    ASSUME NEW q \in Seq(Conn), NEW c \in Conn, NoRepeats(q), c \notin Members(q)
    PROVE  /\ Append(q, c) \in Seq(Conn)
           /\ NoRepeats(Append(q, c))
           /\ Members(Append(q, c)) = Members(q) \cup {c}
<1> DEFINE r == Append(q, c)
<1>1. /\ r \in Seq(Conn) /\ Len(r) = Len(q) + 1 /\ Len(q) \in Nat
      /\ DOMAIN r = 1 .. Len(q) + 1 /\ DOMAIN q = 1 .. Len(q)
      /\ \A i \in 1 .. Len(q) : r[i] = q[i]
      /\ r[Len(q) + 1] = c
  OBVIOUS
<1> HIDE DEF r
<1>2. NoRepeats(r)
  BY <1>1 DEF NoRepeats, Members
<1>3. Members(r) = Members(q) \cup {c}
  BY <1>1 DEF Members
<1>4. QED
  BY <1>1, <1>2, <1>3 DEF r

LEMMA TailFacts ==
    ASSUME NEW q \in Seq(Conn), q # <<>>
    PROVE  /\ Head(q) \in Conn /\ Tail(q) \in Seq(Conn)
           /\ Members(q) \subseteq {Head(q)} \cup Members(Tail(q))
<1>1. /\ Head(q) = q[1] /\ Len(Tail(q)) = Len(q) - 1 /\ Len(q) \in Nat \ {0}
      /\ Tail(q) \in Seq(Conn) /\ Head(q) \in Conn
      /\ \A i \in 1 .. Len(q) - 1 : Tail(q)[i] = q[i + 1]
  OBVIOUS
<1>2. ASSUME NEW i \in DOMAIN q, i # 1
      PROVE  i - 1 \in DOMAIN Tail(q) /\ Tail(q)[i - 1] = q[i]
  BY <1>1, <1>2
<1>3. Members(q) \subseteq {Head(q)} \cup Members(Tail(q))
  <2>1. ASSUME NEW i \in DOMAIN q PROVE q[i] \in {Head(q)} \cup Members(Tail(q))
    BY <1>1, <1>2 DEF Members
  <2>2. QED
    BY <2>1 DEF Members
<1>4. QED
  BY <1>1, <1>3

-----------------------------------------------------------------------------
(* The registries, the broadcasts under way, and the shutdown *)

RegistryInv ==
    /\ active \in Seq(Conn) /\ sessions \in [Sim -> Seq(Conn)]
    /\ RegistriesAgree

\* Who sends has somebody to send to; what was missed are events.
SendInv ==
    /\ missed \in [Conn -> SUBSET Nat]
    /\ state \in [Conn -> {"connecting", "connected", "disconnected"}]
    /\ todo \in [Proc -> Seq(Conn)]
    /\ \A p \in Proc : Sending(p) => todo[p] # <<>>

\* After disconnect_all has begun nobody registers any more, and who is still
\* registered is in its list.
LeaveInv ==
    /\ serving \in BOOLEAN /\ requests \in Nat
    /\ leaving \in Seq(Conn)
    /\ ~serving => \A c \in Conn : /\ pc[c] # "accepting"
                                   /\ registered[c] => c \in Members(leaving)

BookInv == RegistryInv /\ SendInv /\ LeaveInv

LEMMA UnregisterKeepsRegistry ==
    ASSUME RegistryInv, NEW gone, Unregister(gone), UNCHANGED sid
    PROVE  RegistryInv'
<1>1. /\ NoRepeats(active) /\ Members(active) = {c \in Conn : registered[c]}
      /\ \A s \in Sim :
            /\ NoRepeats(sessions[s])
            /\ Members(sessions[s]) = {c \in Conn : registered[c] /\ sid[c] = s}
      /\ active \in Seq(Conn) /\ \A s \in Sim : sessions[s] \in Seq(Conn)
  BY DEF RegistryInv, RegistriesAgree
<1>2. /\ active' = Without(active, gone)
      /\ sessions' = [s \in Sim |-> Without(sessions[s], gone)]
      /\ \A c \in Conn : registered'[c] <=> registered[c] /\ c \notin gone
  BY DEF Unregister
<1>3. /\ active' \in Seq(Conn) /\ NoRepeats(active')
      /\ Members(active') = {c \in Conn : registered'[c]}
  <2>1. /\ active' \in Seq(Conn) /\ NoRepeats(active')
        /\ Members(active') = Members(active) \ gone
    BY <1>1, <1>2, WithoutFacts
  <2>2. QED
    BY <1>1, <1>2, <2>1
<1>4. ASSUME NEW s \in Sim
      PROVE  /\ sessions'[s] \in Seq(Conn) /\ NoRepeats(sessions'[s])
             /\ Members(sessions'[s]) = {c \in Conn : registered'[c] /\ sid'[c] = s}
  <2>1. /\ sessions'[s] \in Seq(Conn) /\ NoRepeats(sessions'[s])
        /\ Members(sessions'[s]) = Members(sessions[s]) \ gone
    BY <1>1, <1>2, WithoutFacts
  <2>2. QED
    BY <1>1, <1>2, <2>1
<1>5. sessions' \in [Sim -> Seq(Conn)]
  BY <1>2, <1>4
<1>6. QED
  BY <1>3, <1>4, <1>5 DEF RegistryInv, RegistriesAgree

LEMMA RegisterKeepsRegistry ==
    ASSUME RegistryInv, ConnType, NEW c \in Conn, Register(c), ~registered[c],
           sid[c] \in Sim, UNCHANGED sid
    PROVE  RegistryInv'
<1>1. /\ NoRepeats(active) /\ Members(active) = {d \in Conn : registered[d]}
      /\ \A s \in Sim :
            /\ NoRepeats(sessions[s])
            /\ Members(sessions[s]) = {d \in Conn : registered[d] /\ sid[d] = s}
      /\ active \in Seq(Conn) /\ \A s \in Sim : sessions[s] \in Seq(Conn)
  BY DEF RegistryInv, RegistriesAgree
<1>2. /\ active' = Append(active, c)
      /\ sessions' = [sessions EXCEPT ![sid[c]] = Append(@, c)]
      /\ \A d \in Conn : registered'[d] <=> registered[d] \/ d = c
  BY DEF Register, ConnType
<1>3. /\ active' \in Seq(Conn) /\ NoRepeats(active')
      /\ Members(active') = {d \in Conn : registered'[d]}
  <2>1. /\ active' \in Seq(Conn) /\ NoRepeats(active')
        /\ Members(active') = Members(active) \cup {c}
    BY <1>1, <1>2, AppendFacts
  <2>2. QED
    BY <1>1, <1>2, <2>1
<1>4. ASSUME NEW s \in Sim
      PROVE  /\ sessions'[s] \in Seq(Conn) /\ NoRepeats(sessions'[s])
             /\ Members(sessions'[s]) = {d \in Conn : registered'[d] /\ sid'[d] = s}
  <2>1. CASE s = sid[c]
    <3>1. sessions'[s] = Append(sessions[s], c)
      BY <1>2, <2>1 DEF RegistryInv
    <3>2. /\ sessions'[s] \in Seq(Conn) /\ NoRepeats(sessions'[s])
          /\ Members(sessions'[s]) = Members(sessions[s]) \cup {c}
      BY <1>1, <3>1, AppendFacts
    <3>3. QED
      BY <1>1, <1>2, <2>1, <3>2
  <2>2. CASE s # sid[c]
    <3>1. sessions'[s] = sessions[s]
      BY <1>2, <2>2 DEF RegistryInv
    <3>2. QED
      BY <1>1, <1>2, <2>2, <3>1
  <2>3. QED
    BY <2>1, <2>2
<1>5. sessions' \in [Sim -> Seq(Conn)]
  BY <1>2, <1>4 DEF RegistryInv
<1>6. QED
  BY <1>3, <1>4, <1>5 DEF RegistryInv, RegistriesAgree

\* A leg of a broadcast over connections keeps all of it.
LEMMA LegKeepsBooks ==
    ASSUME BookInv, ConnType, NEW p \in Proc, NEW m, NEW rest \in Seq(Conn),
           NEW failed, NEW busy \in SendPc, p \in Task => busy = "telling",
           Proceed(p, m, rest, failed, busy),
           requests' \in Nat, UNCHANGED <<sid, missed, serving, leaving>>
    PROVE  BookInv'
<1> DEFINE gone(at) == Destroyed(failed) \cup {rest[i] : i \in 1 .. (at - 1)}
           ended(at) == at = Len(rest) + 1
           then(at) == IF ended(at) THEN After(p, busy, failed, gone(at)) ELSE busy
<1>1. PICK at \in 1 .. (Len(rest) + 1) :
        /\ Unregister(gone(at))
        /\ todo' = [todo EXCEPT ![p] = SubSeq(rest, at, Len(rest))]
        /\ out' = [out EXCEPT ![p] = IF ended(at) THEN None ELSE m]
        /\ Goto(p, then(at))
        /\ state' = [c \in Conn |->
               IF c \in failed \/ (c = p /\ then(at) = "closing")
               THEN "disconnected" ELSE state[c]]
  BY DEF Proceed
<1> HIDE DEF gone
<1>2. RegistryInv'
  BY <1>1, UnregisterKeepsRegistry DEF BookInv
<1>3. SendInv'
  <2>1. state' \in [Conn -> {"connecting", "connected", "disconnected"}]
    BY <1>1 DEF BookInv, SendInv
  <2>2. /\ SubSeq(rest, at, Len(rest)) \in Seq(Conn)
        /\ ~ended(at) => SubSeq(rest, at, Len(rest)) # <<>>
    <3>1. Len(rest) \in Nat /\ \A i \in at .. Len(rest) : rest[i] \in Conn
      OBVIOUS
    <3>2. /\ SubSeq(rest, at, Len(rest)) \in Seq(Conn)
          /\ Len(SubSeq(rest, at, Len(rest))) = Len(rest) - at + 1
      BY <3>1, SubSeqProperties
    <3>3. ~ended(at) => Len(rest) - at + 1 # 0
      BY <3>1
    <3>4. QED
      BY <3>2, <3>3
  <2>3. todo' \in [Proc -> Seq(Conn)]
    BY <1>1, <2>2 DEF BookInv, SendInv
  <2>4. ASSUME NEW q \in Proc, Sending(q)' PROVE todo'[q] # <<>>
    <3>1. CASE q = p
      <4>1. ~ended(at)
        BY <1>1, <2>4, <3>1 DEF Sending, ConnType
      <4>2. QED
        BY <1>1, <2>2, <3>1, <4>1 DEF BookInv, SendInv
    <3>2. CASE q # p
      BY <1>1, <2>4, <3>2 DEF Sending, ConnType, BookInv, SendInv
    <3>3. QED
      BY <3>1, <3>2
  <2>5. QED
    BY <2>1, <2>3, <2>4 DEF BookInv, SendInv
<1>4. LeaveInv'
  <2>1. then(at) # "accepting"
    BY DEF After, SendPc
  <2>2. \A c \in Conn : pc'[c] = "accepting" => pc[c] = "accepting"
    BY <1>1, <2>1 DEF Goto, ConnType, Proc
  <2>3. \A c \in Conn : registered'[c] => registered[c]
    BY <1>1 DEF Unregister
  <2>4. QED
    BY <2>2, <2>3 DEF BookInv, LeaveInv
<1>5. QED
  BY <1>2, <1>3, <1>4 DEF BookInv

\* A step that moves one endpoint only, and may unregister connections.
LEMMA QuietKeepsBooks ==
    ASSUME BookInv,
           \/ UNCHANGED registryVars
           \/ \E gone : Unregister(gone),
           state' \in [Conn -> {"connecting", "connected", "disconnected"}],
           requests' \in Nat,
           UNCHANGED <<sid, todo, out, missed, serving, leaving>>,
           \A c \in Conn : pc'[c] = "accepting" => pc[c] = "accepting"
    PROVE  BookInv'
<1>1. RegistryInv' /\ \A c \in Conn : registered'[c] => registered[c]
  <2>1. CASE UNCHANGED registryVars
    <3>1. UNCHANGED <<registered, active, sessions, sid>>
      BY <2>1 DEF registryVars
    <3>2. QED
      BY <3>1 DEF BookInv, RegistryInv, RegistriesAgree
  <2>2. CASE \E gone : Unregister(gone)
    BY <2>2, UnregisterKeepsRegistry DEF BookInv, Unregister
  <2>3. QED
    BY <2>1, <2>2
<1>2. SendInv'
  BY DEF BookInv, SendInv, Sending
<1>3. LeaveInv'
  BY <1>1 DEF BookInv, LeaveInv
<1>4. QED
  BY <1>1, <1>2, <1>3 DEF BookInv

-----------------------------------------------------------------------------
(* The actions *)

LEMMA SendsKeepBooks ==
    ASSUME BookInv, ConnInv, NEW p \in Proc, SendReturns(p) \/ SendRaises(p)
    PROVE  BookInv'
<1>1. /\ Sending(p) /\ pc[p] \in SendPc
      /\ p \in Task => pc[p] = "telling"
      /\ UNCHANGED <<sid, missed, requests, serving, leaving>>
  BY DEF ConnInv, PlaceInv, SendReturns, SendRaises, SendPc
<1>2. \E failed : Proceed(p, out[p], Tail(todo[p]), failed, pc[p])
  BY DEF SendReturns, SendRaises
<1>3. todo[p] \in Seq(Conn) /\ todo[p] # <<>>
  BY <1>1 DEF BookInv, SendInv
<1>4. Tail(todo[p]) \in Seq(Conn)
  BY <1>3, TailFacts
<1>5. QED
  BY <1>1, <1>2, <1>4, LegKeepsBooks DEF ConnInv, BookInv, LeaveInv

LEMMA SessionsAreLists ==
    ASSUME BookInv, NEW s \in Sim
    PROVE  sessions[s] \in Seq(Conn)
BY DEF BookInv, RegistryInv

LEMMA EmitsKeepBooks ==
    ASSUME BookInv, ConnInv, NEW p \in Proc,
           (p \in Task /\ Emit(p)) \/ (p \in Conn /\ CommandEmits(p))
    PROVE  BookInv'
<1>1. UNCHANGED <<sid, missed, requests, serving, leaving>>
  BY DEF Emit, CommandEmits
<1>2. \E s \in Sim : \E m : Proceed(p, m, sessions[s], {}, "telling")
  <2>1. CASE p \in Task /\ Emit(p)
    BY <2>1 DEF Emit, EmitFrom
  <2>2. CASE p \in Conn /\ CommandEmits(p)
    BY <2>2 DEF CommandEmits, EmitFrom, ConnInv, PlaceInv
  <2>3. QED
    BY <2>1, <2>2
<1>3. PICK s \in Sim : \E m : Proceed(p, m, sessions[s], {}, "telling")
  BY <1>2
<1>4. requests' \in Nat
  BY <1>1 DEF BookInv, LeaveInv
<1>5. QED
  BY <1>1, <1>3, <1>4, SessionsAreLists, LegKeepsBooks DEF ConnInv, SendPc

LEMMA AnswersKeepBooks ==
    ASSUME BookInv, ConnInv, NEW c \in Conn,
           ReceiveInvalid(c) \/ ReceiveQuery(c) \/ CommandReturns(c)
    PROVE  BookInv'
<1>1. UNCHANGED <<sid, missed, serving, leaving>> /\ requests' \in Nat
  BY DEF ReceiveInvalid, ReceiveQuery, CommandReturns, Receives, BookInv, LeaveInv
<1>2. \E m : \E rest \in Seq(Conn) : Proceed(c, m, rest, {}, "answering")
  <2>1. CASE ReceiveInvalid(c)
    <3>1. <<c>> \in Seq(Conn)
      OBVIOUS
    <3>2. QED
      BY <2>1, <3>1 DEF ReceiveInvalid
  <2>2. CASE ReceiveQuery(c)
    BY <2>2, SessionsAreLists DEF ReceiveQuery
  <2>3. CASE CommandReturns(c)
    <3>1. about[c] \in Sim
      BY <2>3 DEF CommandReturns, ConnInv, PlaceInv
    <3>2. QED
      BY <2>3, <3>1, SessionsAreLists DEF CommandReturns
  <2>4. QED
    BY <2>1, <2>2, <2>3
<1>3. c \in Proc /\ c \notin Task
  BY ObserverAssumption DEF Proc
<1>4. QED
  BY <1>1, <1>2, <1>3, LegKeepsBooks DEF ConnInv, SendPc

LEMMA ArrivalsKeepBooks ==
    ASSUME BookInv, ConnInv, NEW c \in Conn, Connect(c) \/ Accept(c)
    PROVE  BookInv'
<1> USE DEF BookInv, ConnInv
<1>1. CASE Connect(c)
  <2>1. /\ pc[c] = "off" /\ serving
        /\ UNCHANGED <<registered, active, sessions, state, todo, out, missed,
                       requests, serving, leaving>>
        /\ \A d \in Conn : d # c => sid'[d] = sid[d]
    BY <1>1 DEF Connect, registryVars, ConnType
  <2>2. ~registered[c]
    BY <2>1 DEF OutsideInv
  <2>3. \A d \in Conn, s \in Sim : registered'[d] /\ sid'[d] = s
                                   <=> registered[d] /\ sid[d] = s
    BY <2>1, <2>2
  <2>4. RegistryInv'
    BY <2>1, <2>3 DEF RegistryInv, RegistriesAgree
  <2>5. SendInv' /\ LeaveInv'
    BY <2>1 DEF SendInv, LeaveInv, Sending
  <2>6. QED
    BY <2>4, <2>5
<1>2. CASE Accept(c)
  <2>1. /\ pc[c] = "accepting" /\ Register(c)
        /\ state' = [state EXCEPT ![c] = "connected"]
        /\ todo' = [todo EXCEPT ![c] = <<c>>]
        /\ \A q \in Proc : q # c => out'[q] = out[q]
        /\ UNCHANGED <<sid, missed, requests, serving, leaving>>
    BY <1>2 DEF Accept, ConnType
  <2>2. ~registered[c] /\ sid[c] \in Sim /\ serving
    BY <2>1 DEF OutsideInv, PlaceInv, LeaveInv
  <2>3. RegistryInv'
    BY <2>1, <2>2, RegisterKeepsRegistry
  <2>4. SendInv'
    <3>1. <<c>> \in Seq(Conn) /\ <<c>> # <<>> /\ c \in Proc
      BY DEF Proc
    <3>2. /\ state' \in [Conn -> {"connecting", "connected", "disconnected"}]
          /\ todo' \in [Proc -> Seq(Conn)]
          /\ missed' \in [Conn -> SUBSET Nat]
      BY <2>1, <3>1 DEF SendInv
    <3>3. \A q \in Proc : Sending(q)' => todo'[q] # <<>>
      BY <2>1, <3>1 DEF SendInv, Sending
    <3>4. QED
      BY <3>2, <3>3 DEF SendInv
  <2>5. LeaveInv'
    BY <2>1, <2>2 DEF LeaveInv
  <2>6. QED
    BY <2>3, <2>4, <2>5
<1>3. QED
  BY <1>1, <1>2

LEMMA QuietStepsKeepBooks ==
    ASSUME BookInv, ConnInv,
           \/ \E c \in Conn : \/ AcceptRaises(c) \/ Closed(c) \/ ReceiveCommand(c)
                              \/ Hangup(c) \/ LoseLink(c)
           \/ CloseNext
           \/ UNCHANGED vars
    PROVE  BookInv'
<1>1. UNCHANGED <<sid, todo, out, missed, serving, leaving>> /\ requests' \in Nat
  <2>1. UNCHANGED <<sid, todo, out, missed, serving, leaving>>
    BY DEF AcceptRaises, Closed, ReceiveCommand, Hangup, LoseLink, CloseNext, vars
  <2>2. requests \in Nat
    BY DEF BookInv, LeaveInv
  <2>3. requests' = requests \/ requests' = requests + 1
    BY DEF AcceptRaises, Closed, ReceiveCommand, Hangup, LoseLink, CloseNext, vars,
           Receives
  <2>4. QED
    BY <2>1, <2>2, <2>3
<1>2. UNCHANGED registryVars \/ \E gone : Unregister(gone)
  BY DEF AcceptRaises, Closed, ReceiveCommand, Hangup, LoseLink, CloseNext, vars
<1>3. state' \in [Conn -> {"connecting", "connected", "disconnected"}]
  BY DEF AcceptRaises, Closed, ReceiveCommand, Hangup, LoseLink, CloseNext, vars,
         BookInv, SendInv
<1>4. \A d \in Conn : pc'[d] = "accepting" => pc[d] = "accepting"
  BY DEF AcceptRaises, Closed, ReceiveCommand, Hangup, LoseLink, CloseNext, vars,
         Goto, ConnInv, ConnType, Proc
<1>5. QED
  BY <1>1, <1>2, <1>3, <1>4, QuietKeepsBooks

LEMMA ShutdownKeepsBooks ==
    ASSUME BookInv, ConnInv, ShutDown \/ DestroyNext
    PROVE  BookInv'
<1> USE DEF BookInv, ConnInv
<1>1. CASE ShutDown
  <2>1. /\ UNCHANGED <<registered, active, sessions, sid, state, todo, out, missed,
                       pc, requests>>
        /\ serving' = FALSE /\ leaving' = active
        /\ \A c \in Conn : pc[c] # "accepting"
    BY <1>1 DEF ShutDown, registryVars
  <2>2. RegistryInv' /\ SendInv'
    BY <2>1 DEF RegistryInv, RegistriesAgree, SendInv, Sending
  <2>3. active \in Seq(Conn) /\ \A c \in Conn : registered[c] => c \in Members(active)
    BY DEF RegistryInv, RegistriesAgree
  <2>4. LeaveInv'
    BY <2>1, <2>3 DEF LeaveInv
  <2>5. QED
    BY <2>2, <2>4
<1>2. CASE DestroyNext
  <2>1. /\ leaving # <<>> /\ Unregister({Head(leaving)}) /\ leaving' = Tail(leaving)
        /\ UNCHANGED <<sid, state, todo, out, missed, pc, requests, serving>>
    BY <1>2 DEF DestroyNext
  <2>2. RegistryInv' /\ SendInv'
    BY <2>1, UnregisterKeepsRegistry DEF SendInv, Sending
  <2>3. \A c \in Conn : registered'[c] => registered[c] /\ c # Head(leaving)
    BY <2>1 DEF Unregister
  <2>4. /\ Tail(leaving) \in Seq(Conn)
        /\ Members(leaving) \subseteq {Head(leaving)} \cup Members(Tail(leaving))
    BY <2>1, TailFacts DEF LeaveInv
  <2>5. LeaveInv'
    BY <2>1, <2>3, <2>4 DEF LeaveInv
  <2>6. QED
    BY <2>2, <2>5
<1>3. QED
  BY <1>1, <1>2

\* The events of a simulation are among those that happened.
LEMMA HappenedFacts ==
    ASSUME ListInv
    PROVE  /\ Happened \subseteq Nat
           /\ \A s \in Sim : 1 .. emitted[s] \subseteq Happened
BY DEF ListInv, Happened

LEMMA CancelKeepsBooks ==
    ASSUME ListInv, BookInv, ConnInv, NEW l \in Loop, Cancel(l)
    PROVE  BookInv'
<1>1. /\ Goto(l, "idle")
      /\ todo' = [todo EXCEPT ![l] = <<>>] /\ out' = [out EXCEPT ![l] = None]
      /\ missed' = [c \in Conn |->
                        missed[c] \cup {n \in Happened : Owes(l, c, n)}]
      /\ UNCHANGED <<registered, active, sessions, sid, state, requests, serving,
                     leaving>>
  BY DEF Cancel, registryVars
<1>2. RegistryInv'
  BY <1>1 DEF BookInv, RegistryInv, RegistriesAgree
<1>3. missed' \in [Conn -> SUBSET Nat]
  BY <1>1, HappenedFacts DEF BookInv, SendInv
<1>4. todo' \in [Proc -> Seq(Conn)]
  <2>1. <<>> \in Seq(Conn)
    OBVIOUS
  <2>2. QED
    BY <1>1, <2>1 DEF BookInv, SendInv
<1>5. ASSUME NEW q \in Proc, Sending(q)' PROVE todo'[q] # <<>>
  <2>1. q # l /\ Sending(q)
    BY <1>1, <1>5 DEF Sending, ConnInv, ConnType
  <2>2. QED
    BY <1>1, <2>1 DEF BookInv, SendInv
<1>6. SendInv'
  BY <1>1, <1>3, <1>4, <1>5 DEF BookInv, SendInv
<1>7. LeaveInv'
  BY <1>1 DEF Goto, ConnInv, ConnType, Proc, BookInv, LeaveInv
<1>8. QED
  BY <1>2, <1>6, <1>7 DEF BookInv

LEMMA InitHasBooks == Init => BookInv
<1> SUFFICES ASSUME Init PROVE BookInv
  OBVIOUS
<1>1. <<>> \in Seq(Conn) /\ Members(<<>>) = {} /\ NoRepeats(<<>>)
  BY DEF Members, NoRepeats
<1>2. RegistryInv
  BY <1>1 DEF Init, RegistryInv, RegistriesAgree
<1>3. SendInv /\ LeaveInv
  BY <1>1 DEF Init, SendInv, LeaveInv, Sending
<1>4. QED
  BY <1>2, <1>3 DEF BookInv

LEMMA StepKeepsBooks == ObserverInv /\ BookInv /\ [Next]_vars => BookInv'
<1> SUFFICES ASSUME ObserverInv, BookInv, [Next]_vars PROVE BookInv'
  OBVIOUS
<1>1. ConnInv
  BY DEF ObserverInv, ConnInv
<1>2. ASSUME NEW p \in Proc, SendReturns(p) \/ SendRaises(p) PROVE BookInv'
  BY <1>1, <1>2, SendsKeepBooks
<1>3. ASSUME NEW t \in Task, Emit(t) PROVE BookInv'
  BY <1>1, <1>3, EmitsKeepBooks DEF Proc
<1>4. ASSUME NEW c \in Conn, Connect(c) \/ Accept(c) PROVE BookInv'
  BY <1>1, <1>4, ArrivalsKeepBooks
<1>5. ASSUME NEW c \in Conn, ReceiveInvalid(c) \/ ReceiveQuery(c) \/ CommandReturns(c)
      PROVE  BookInv'
  BY <1>1, <1>5, AnswersKeepBooks
<1>6. ASSUME NEW c \in Conn, CommandEmits(c) PROVE BookInv'
  BY <1>1, <1>6, EmitsKeepBooks DEF Proc
<1>7. ASSUME \/ \E c \in Conn : \/ AcceptRaises(c) \/ Closed(c)
                                \/ ReceiveCommand(c) \/ Hangup(c) \/ LoseLink(c)
             \/ CloseNext
             \/ UNCHANGED vars
      PROVE  BookInv'
  BY <1>1, <1>7, QuietStepsKeepBooks
<1>8. ASSUME ShutDown \/ DestroyNext PROVE BookInv'
  BY <1>1, <1>8, ShutdownKeepsBooks
<1>9. ASSUME NEW l \in Loop, Cancel(l) PROVE BookInv'
  BY <1>1, <1>9, CancelKeepsBooks DEF ObserverInv
<1>10. QED
  BY <1>2, <1>3, <1>4, <1>5, <1>6, <1>7, <1>8, <1>9 DEF Next

LEMMA BooksAreKept == Spec => [](ObserverInv /\ BookInv)
<1>1. ObserverInv /\ [Next]_vars => ObserverInv'
  BY StepKeepsInv
<1>2. QED
  BY <1>1, InitHasInv, InitHasBooks, StepKeepsBooks, PTL DEF Spec

-----------------------------------------------------------------------------
(* What follows from it *)

\* The state of the observers has its type, for any number of connections.
THEOREM ObserversTypeCorrect == Spec => []TypeOK
<1>1. ObserverInv /\ BookInv => TypeOK
  BY ListsAreRecent
  DEF ObserverInv, BookInv, ConnType, RegistryInv, SendInv, LeaveInv, TypeOK
<1>2. QED
  BY <1>1, BooksAreKept, PTL

\* The mark on the socket, active_connections and session_map agree whatever
\* coroutines register and destroy connections in each other's broadcasts.
THEOREM RegistriesAlwaysAgree == Spec => []RegistriesAgree
<1>1. BookInv => RegistriesAgree
  BY DEF BookInv, RegistryInv
<1>2. QED
  BY <1>1, BooksAreKept, PTL

\* disconnect_all ends with no connection registered, though endpoints and
\* broadcasts change the registries while it works.
THEOREM ShutdownLeavesNobody == Spec => []ShutdownClears
<1>1. BookInv => ShutdownClears
  BY DEF BookInv, LeaveInv, ShutdownClears, Members
<1>2. QED
  BY <1>1, BooksAreKept, PTL

-----------------------------------------------------------------------------
(* One leg of a broadcast, seen from the connections *)

\* The rest of a list from position at on.
LEMMA SuffixFacts ==
    ASSUME NEW q \in Seq(Conn), NoRepeats(q), NEW at \in 1 .. Len(q)
    PROVE  LET r == SubSeq(q, at, Len(q))
           IN  /\ r \in Seq(Conn) /\ r # <<>> /\ NoRepeats(r)
               /\ Head(r) = q[at] /\ Head(r) \notin Members(Tail(r))
               /\ Members(Tail(r)) = {q[i] : i \in at + 1 .. Len(q)}
               /\ Members(r) = {q[i] : i \in at .. Len(q)}
               /\ Members(r) \subseteq Members(q)
               /\ Members(Tail(r)) \subseteq Members(q)
               /\ q[at] \in Members(q)
<1> DEFINE r == SubSeq(q, at, Len(q))
           t == Tail(r)
<1>1. Len(q) \in Nat /\ \A i \in 1 .. Len(q) : q[i] \in Conn
  OBVIOUS
<1>2. /\ r \in Seq(Conn) /\ Len(r) = Len(q) - at + 1
      /\ \A i \in 1 .. Len(q) - at + 1 : r[i] = q[at + i - 1]
  <2>1. \A i \in at .. Len(q) : q[i] \in Conn
    BY <1>1
  <2>2. at \in Int /\ Len(q) \in Int /\ at <= Len(q)
    BY <1>1
  <2>3. QED
    BY <2>1, <2>2, SubSeqProperties
<1> HIDE DEF r
<1>3. r # <<>> /\ Head(r) = q[at] /\ DOMAIN r = 1 .. Len(q) - at + 1
  BY <1>1, <1>2
<1>4. /\ t \in Seq(Conn) /\ Len(t) = Len(q) - at
      /\ \A i \in 1 .. Len(q) - at : t[i] = r[i + 1]
  BY <1>1, <1>2, <1>3
<1>5. \A i \in 1 .. Len(q) - at : t[i] = q[at + i]
  BY <1>1, <1>2, <1>4
<1> HIDE DEF t
<1>6. Members(r) = {q[i] : i \in at .. Len(q)}
  <2>1. ASSUME NEW i \in DOMAIN r PROVE r[i] \in {q[j] : j \in at .. Len(q)}
    <3>1. at + i - 1 \in at .. Len(q) /\ r[i] = q[at + i - 1]
      BY <1>1, <1>2, <1>3
    <3>2. QED
      BY <3>1
  <2>2. ASSUME NEW i \in at .. Len(q) PROVE q[i] \in Members(r)
    <3>1. i - at + 1 \in DOMAIN r /\ r[i - at + 1] = q[i]
      BY <1>1, <1>2, <1>3
    <3>2. QED
      BY <3>1 DEF Members
  <2>3. QED
    BY <2>1, <2>2 DEF Members
<1>7. Members(t) = {q[i] : i \in at + 1 .. Len(q)}
  <2>1. ASSUME NEW i \in DOMAIN t PROVE t[i] \in {q[j] : j \in at + 1 .. Len(q)}
    <3>1. at + i \in at + 1 .. Len(q) /\ t[i] = q[at + i]
      BY <1>1, <1>4, <1>5
    <3>2. QED
      BY <3>1
  <2>2. ASSUME NEW i \in at + 1 .. Len(q) PROVE q[i] \in Members(t)
    <3>1. i - at \in DOMAIN t /\ t[i - at] = q[i]
      BY <1>1, <1>4, <1>5
    <3>2. QED
      BY <3>1 DEF Members
  <2>3. QED
    BY <2>1, <2>2 DEF Members
<1>8. NoRepeats(r)
  <2>1. ASSUME NEW i \in DOMAIN r, NEW j \in DOMAIN r, i # j PROVE r[i] # r[j]
    <3>1. /\ at + i - 1 \in DOMAIN q /\ at + j - 1 \in DOMAIN q
          /\ at + i - 1 # at + j - 1
      BY <1>1, <1>2, <1>3, <2>1
    <3>2. r[i] = q[at + i - 1] /\ r[j] = q[at + j - 1]
      BY <1>2, <1>3
    <3>3. QED
      BY <3>1, <3>2 DEF NoRepeats
  <2>2. QED
    BY <2>1 DEF NoRepeats
<1>9. \A i \in at + 1 .. Len(q) : q[i] # q[at]
  BY <1>1 DEF NoRepeats
<1>10. \A i \in at .. Len(q) : q[i] \in Members(q)
  BY <1>1 DEF Members
<1>11. /\ Members(r) \subseteq Members(q) /\ Members(t) \subseteq Members(q)
       /\ q[at] \in Members(q)
  BY <1>1, <1>6, <1>7, <1>10
<1>12. QED
  BY <1>2, <1>3, <1>6, <1>7, <1>8, <1>9, <1>11 DEF r, t

\* A leg serves the connections of rest in turn: those before the next one
\* are destroyed, the next one is written to, and the others are still to come.
Leg(p, m, rest, gone, next) ==
    /\ next \in Seq(Conn) /\ NoRepeats(next)
    /\ Members(next) \subseteq Members(rest)
    /\ todo'[p] = next
    /\ \A q \in Proc : q # p => todo'[q] = todo[q] /\ out'[q] = out[q]
    /\ \A c \in Conn : registered'[c] <=> registered[c] /\ c \notin gone
    /\ \A c \in Conn : state'[c] = "connected" => state[c] = "connected"
    /\ next = <<>> => /\ out'[p] = None /\ wire' = wire
                      /\ Members(rest) \subseteq gone
    /\ next # <<>> =>
         /\ out'[p] = m
         /\ Head(next) \in Conn /\ Head(next) \in Members(rest)
         /\ Head(next) \notin gone /\ Sendable(Head(next))
         /\ Tail(next) \in Seq(Conn)
         /\ Head(next) \notin Members(Tail(next))
         /\ Members(Tail(next)) \subseteq Members(rest)
         /\ Members(rest) \subseteq gone \cup {Head(next)} \cup Members(Tail(next))
         /\ \A c \in Conn : c # Head(next) => wire'[c] = wire[c]
         /\ wire'[Head(next)] = IF link[Head(next)] = "open"
                                THEN Append(wire[Head(next)], m)
                                ELSE wire[Head(next)]

LEMMA LegEffect ==
    ASSUME ConnType, SendInv, NEW p \in Proc, NEW m \in Message,
           NEW rest \in Seq(Conn), NoRepeats(rest), NEW failed,
           NEW busy, Proceed(p, m, rest, failed, busy)
    PROVE  \E gone, next : Leg(p, m, rest, gone, next)
<1> DEFINE gone(at) == Destroyed(failed) \cup {rest[i] : i \in 1 .. (at - 1)}
           ended(at) == at = Len(rest) + 1
           then(at) == IF ended(at) THEN After(p, busy, failed, gone(at)) ELSE busy
           next(at) == SubSeq(rest, at, Len(rest))
<1>1. PICK at \in 1 .. (Len(rest) + 1) :
        /\ ~ended(at) => CanSend(rest[at], failed)
        /\ Unregister(gone(at))
        /\ todo' = [todo EXCEPT ![p] = next(at)]
        /\ out' = [out EXCEPT ![p] = IF ended(at) THEN None ELSE m]
        /\ wire' = IF ended(at) THEN wire ELSE Written(rest[at], m)
        /\ state' = [c \in Conn |->
               IF c \in failed \/ (c = p /\ then(at) = "closing")
               THEN "disconnected" ELSE state[c]]
  BY DEF Proceed
<1>2. /\ \A c \in Conn : registered'[c] <=> registered[c] /\ c \notin gone(at)
      /\ \A c \in Conn : state'[c] = "connected" => state[c] = "connected"
  BY <1>1 DEF Unregister
<1>3. /\ todo'[p] = next(at)
      /\ out'[p] = IF ended(at) THEN None ELSE m
      /\ \A q \in Proc : q # p => todo'[q] = todo[q] /\ out'[q] = out[q]
  BY <1>1 DEF SendInv, ConnType
<1>4. /\ Len(rest) \in Nat /\ DOMAIN rest = 1 .. Len(rest)
      /\ \A i \in 1 .. Len(rest) : rest[i] \in Conn
      /\ {rest[i] : i \in 1 .. (at - 1)} \subseteq gone(at)
  OBVIOUS
<1>5. CASE ended(at)
  <2>1. next(at) = <<>>
    BY <1>4, <1>5, SubSeqEmpty
  <2>2. Members(rest) \subseteq gone(at)
    BY <1>4, <1>5 DEF Members
  <2>3. <<>> \in Seq(Conn) /\ NoRepeats(<<>>) /\ Members(<<>>) = {}
    BY DEF NoRepeats, Members
  <2>4. wire' = wire
    BY <1>1, <1>5
  <2> HIDE DEF next, gone, ended
  <2>5. Leg(p, m, rest, gone(at), next(at))
    BY <1>2, <1>3, <1>5, <2>1, <2>2, <2>3, <2>4 DEF Leg
  <2>6. QED
    BY <2>5
<1>6. CASE ~ended(at)
  <2>1. at \in 1 .. Len(rest)
    BY <1>4, <1>6
  <2>2. /\ next(at) \in Seq(Conn) /\ next(at) # <<>> /\ NoRepeats(next(at))
        /\ Head(next(at)) = rest[at] /\ Head(next(at)) \notin Members(Tail(next(at)))
        /\ Members(Tail(next(at))) = {rest[i] : i \in at + 1 .. Len(rest)}
        /\ Members(next(at)) = {rest[i] : i \in at .. Len(rest)}
    BY <2>1, SuffixFacts
  <2>3. wire' = Written(rest[at], m) /\ rest[at] \in Conn
    BY <1>1, <1>4, <1>6, <2>1
  <2>4. /\ \A c \in Conn : c # rest[at] => wire'[c] = wire[c]
        /\ wire'[rest[at]] = IF link[rest[at]] = "open"
                             THEN Append(wire[rest[at]], m) ELSE wire[rest[at]]
    BY <2>3 DEF Written, ConnType
  <2>5. Members(rest) \subseteq gone(at) \cup {rest[at]} \cup Members(Tail(next(at)))
    <3>1. ASSUME NEW i \in 1 .. Len(rest)
          PROVE  i \in 1 .. (at - 1) \/ i = at \/ i \in at + 1 .. Len(rest)
      BY <1>4, <2>1
    <3>2. ASSUME NEW i \in 1 .. Len(rest)
          PROVE  rest[i] \in gone(at) \cup {rest[at]} \cup Members(Tail(next(at)))
      BY <1>4, <2>2, <3>1
    <3>3. QED
      BY <1>4, <3>2 DEF Members
  <2>6. /\ Members(next(at)) \subseteq Members(rest)
        /\ Members(Tail(next(at))) \subseteq Members(rest)
        /\ rest[at] \in Members(rest)
    BY <2>1, SuffixFacts
  <2>7. Tail(next(at)) \in Seq(Conn)
    BY <2>2, TailFacts
  <2>8. rest[at] \notin gone(at) /\ Sendable(rest[at])
    <3>1. rest[at] \notin failed /\ Sendable(rest[at])
      BY <1>1, <1>6 DEF CanSend
    <3>2. \A i \in 1 .. (at - 1) : rest[i] # rest[at]
      BY <1>4, <2>1 DEF NoRepeats
    <3>3. QED
      BY <3>1, <3>2 DEF Destroyed
  <2> HIDE DEF next, gone, ended
  <2>9. Leg(p, m, rest, gone(at), next(at))
    BY <1>2, <1>3, <1>6, <2>2, <2>3, <2>4, <2>5, <2>6, <2>7, <2>8 DEF Leg
  <2>10. QED
    BY <2>9
<1>7. QED
  BY <1>5, <1>6

-----------------------------------------------------------------------------
(* The order of what one coroutine sends *)

\* A message that tells how far its simulation is.
IsTale(m) == m.kind \in {"event", "state"}

\* What l told, coming from the same coroutine, m may follow.
MayFollow(l, m) ==
    IsTale(l) /\ l.by = m.by
    => /\ Tells(l) <= Tells(m)
       /\ l.kind = "event" /\ m.kind = "event" => l.n # m.n

\* m may be written to c.
IsFresh(c, m) == \A i \in DOMAIN wire[c] : MayFollow(wire[c][i], m)

\* A broadcast under way: it goes to registered connections, each once; what
\* it tells is not ahead of their simulation, and may follow what those it
\* has still to come to have heard from its sender.
UnderWay(p) ==
    /\ NoRepeats(todo[p])
    /\ \A c \in Members(todo[p]) : pc[c] \notin {"off", "accepting"}
    /\ IsTale(out[p]) =>
         /\ out[p].by = p
         /\ \A c \in Members(Tail(todo[p])) :
              Tells(out[p]) <= emitted[sid[c]] /\ IsFresh(c, out[p])

OrderInv ==
    /\ \A p \in Proc : Sending(p) => UnderWay(p)
    /\ \A c \in Conn : \A i \in DOMAIN wire[c] :
         IsTale(wire[c][i]) => Tells(wire[c][i]) <= emitted[sid[c]]
    /\ EachSourceInOrder

LEMMA TellsType ==
    ASSUME NEW m \in Message, IsTale(m)
    PROVE  Tells(m) \in Nat
<1>1. CASE m.kind = "event"
  <2>1. m \in [kind : {"event"}, n : Nat, by : Proc]
    BY <1>1 DEF Message
  <2>2. QED
    BY <2>1 DEF Tells
<1>2. CASE m.kind = "state"
  <2>1. m \in [kind : {"state"}, version : Nat, by : Conn]
    BY <1>2 DEF Message
  <2>2. QED
    BY <2>1 DEF Tells
<1>3. QED
  BY <1>1, <1>2 DEF IsTale

\* What a message may be that a leg starts to send.
MayStart(p, m, rest) ==
    /\ \A c \in Members(rest) : pc[c] \notin {"off", "accepting"}
    /\ IsTale(m) =>
         /\ m.by = p
         /\ \A c \in Members(rest) : Tells(m) <= emitted'[sid[c]] /\ IsFresh(c, m)

\* A wire that gets such a message stays in order.
LEMMA AppendKeepsOrder ==
    ASSUME NEW w \in Seq(Message), NEW m \in Message,
           \A i, j \in DOMAIN w : i < j /\ IsTale(w[j]) => MayFollow(w[i], w[j]),
           IsTale(m) => \A i \in DOMAIN w : MayFollow(w[i], m)
    PROVE  LET a == Append(w, m)
           IN  \A i, j \in DOMAIN a : i < j /\ IsTale(a[j]) => MayFollow(a[i], a[j])
<1> DEFINE a == Append(w, m)
<1>1. /\ Len(w) \in Nat /\ DOMAIN w = 1 .. Len(w) /\ DOMAIN a = 1 .. Len(w) + 1
      /\ \A i \in 1 .. Len(w) : a[i] = w[i]
      /\ a[Len(w) + 1] = m
  OBVIOUS
<1> HIDE DEF a
<1>2. ASSUME NEW i \in DOMAIN a, NEW j \in DOMAIN a, i < j, IsTale(a[j])
      PROVE  MayFollow(a[i], a[j])
  <2>1. i \in DOMAIN w /\ a[i] = w[i]
    BY <1>1, <1>2
  <2>2. CASE j \in DOMAIN w
    BY <1>1, <1>2, <2>1, <2>2
  <2>3. CASE j = Len(w) + 1
    BY <1>1, <1>2, <2>1, <2>3
  <2>4. QED
    BY <1>1, <2>2, <2>3
<1>3. QED
  BY <1>2 DEF a

WireInOrder(w) ==
    \A i, j \in DOMAIN w : i < j /\ IsTale(w[j]) => MayFollow(w[i], w[j])

LEMMA OrderOfWires == EachSourceInOrder <=> \A c \in Conn : WireInOrder(wire[c])
BY DEF EachSourceInOrder, WireInOrder, MayFollow, IsTale

LEMMA TailOfList ==
    ASSUME NEW q \in Seq(Conn), q # <<>>, NoRepeats(q)
    PROVE  /\ Tail(q) \in Seq(Conn) /\ NoRepeats(Tail(q))
           /\ Members(Tail(q)) \subseteq Members(q)
           /\ Members(q) \subseteq Conn
<1> DEFINE t == Tail(q)
<1>1. /\ Len(q) \in Nat \ {0} /\ DOMAIN q = 1 .. Len(q)
      /\ \A i \in 1 .. Len(q) : q[i] \in Conn
      /\ t \in Seq(Conn) /\ DOMAIN t = 1 .. Len(q) - 1
      /\ \A i \in 1 .. Len(q) - 1 : t[i] = q[i + 1]
  OBVIOUS
<1> HIDE DEF t
<1>2. NoRepeats(t)
  <2>1. ASSUME NEW i \in DOMAIN t, NEW j \in DOMAIN t, i # j PROVE t[i] # t[j]
    <3>1. i + 1 \in DOMAIN q /\ j + 1 \in DOMAIN q /\ i + 1 # j + 1
      BY <1>1, <2>1
    <3>2. t[i] = q[i + 1] /\ t[j] = q[j + 1]
      BY <1>1
    <3>3. QED
      BY <3>1, <3>2 DEF NoRepeats
  <2>2. QED
    BY <2>1 DEF NoRepeats
<1>3. ASSUME NEW i \in DOMAIN t PROVE t[i] \in Members(q)
  <2>1. i + 1 \in DOMAIN q /\ t[i] = q[i + 1]
    BY <1>1
  <2>2. QED
    BY <2>1 DEF Members
<1>4. Members(t) \subseteq Members(q)
  BY <1>3 DEF Members
<1>5. Members(q) \subseteq Conn
  BY <1>1 DEF Members
<1>6. QED
  BY <1>1, <1>2, <1>4, <1>5 DEF t

\* Simulations only go on, and connections that have begun stay so.
GoesOn ==
    /\ emitted \in [Sim -> Nat] /\ emitted' \in [Sim -> Nat]
    /\ \A s \in Sim : emitted[s] <= emitted'[s]
    /\ \A c \in Conn : pc[c] \notin {"off", "accepting"} =>
         sid'[c] = sid[c] /\ pc'[c] \notin {"off", "accepting"}

LEMMA LegKeepsOrder ==
    ASSUME ConnInv, SendInv, OrderInv, GoesOn,
           NEW p \in Proc, NEW m \in Message, NEW rest \in Seq(Conn),
           NEW gone, NEW next, Leg(p, m, rest, gone, next), MayStart(p, m, rest)
    PROVE  OrderInv'
<1> USE DEF ConnInv
<1>1. \A c \in Conn : pc[c] \notin {"off", "accepting"} =>
        /\ sid[c] \in Sim /\ sid'[c] = sid[c] /\ emitted[sid[c]] \in Nat
        /\ emitted'[sid[c]] \in Nat /\ emitted[sid[c]] <= emitted'[sid[c]]
        /\ pc'[c] \notin {"off", "accepting"}
  BY DEF GoesOn, PlaceInv
<1>2. \A c \in Conn : /\ wire[c] \in Seq(Message)
                      /\ wire[c] # <<>> => pc[c] \notin {"off", "accepting"}
  BY DEF ConnType, GreetInv
<1>3. Members(rest) \subseteq Conn
  BY DEF Members
<1>4. ASSUME NEW c \in Conn
      PROVE  \/ wire'[c] = wire[c]
             \/ /\ wire'[c] = Append(wire[c], m)
                /\ next # <<>> /\ c = Head(next) /\ c \in Members(rest)
  BY DEF Leg
<1>5. ASSUME NEW q \in Proc, Sending(q)' PROVE UnderWay(q)'
  <2>1. CASE q = p
    <3>1. next # <<>> /\ out'[p] = m /\ todo'[p] = next
      BY <1>5, <2>1 DEF Leg, Sending
    <3>2. /\ NoRepeats(next) /\ Members(next) \subseteq Members(rest)
          /\ Members(Tail(next)) \subseteq Members(rest)
          /\ \A c \in Members(Tail(next)) : c \in Conn /\ wire'[c] = wire[c]
      BY <1>3, <3>1 DEF Leg
    <3>3. \A c \in Members(next) : pc'[c] \notin {"off", "accepting"}
      BY <1>1, <1>3, <3>2 DEF MayStart
    <3>4. ASSUME IsTale(m), NEW c \in Members(Tail(next))
          PROVE  Tells(m) <= emitted'[sid'[c]] /\ IsFresh(c, m)'
      <4>1. Tells(m) <= emitted'[sid[c]] /\ IsFresh(c, m) /\ sid'[c] = sid[c]
        BY <1>1, <1>3, <3>2, <3>4 DEF MayStart
      <4>2. QED
        BY <3>2, <4>1 DEF IsFresh
    <3>5. IsTale(m) => m.by = p
      BY DEF MayStart
    <3>6. QED
      BY <2>1, <3>1, <3>2, <3>3, <3>4, <3>5 DEF UnderWay, IsFresh
  <2>2. CASE q # p
    <3>1. Sending(q) /\ out'[q] = out[q] /\ todo'[q] = todo[q]
      BY <1>5, <2>2 DEF Leg, Sending
    <3>2. UnderWay(q) /\ todo[q] \in Seq(Conn) /\ todo[q] # <<>>
      BY <3>1 DEF OrderInv, SendInv
    <3>3. /\ Members(todo[q]) \subseteq Conn
          /\ Members(Tail(todo[q])) \subseteq Members(todo[q])
      BY <3>2, TailOfList DEF UnderWay
    <3>4. \A c \in Members(todo[q]) : pc'[c] \notin {"off", "accepting"}
      BY <1>1, <3>2, <3>3 DEF UnderWay
    <3>5. ASSUME IsTale(out[q]), NEW c \in Members(Tail(todo[q]))
          PROVE  Tells(out[q]) <= emitted'[sid'[c]] /\ IsFresh(c, out[q])'
      <4>1. /\ Tells(out[q]) <= emitted[sid[c]] /\ IsFresh(c, out[q])
            /\ out[q].by = q /\ pc[c] \notin {"off", "accepting"} /\ c \in Conn
        BY <3>2, <3>3, <3>5 DEF UnderWay
      <4>2. Tells(out[q]) \in Nat
        BY <3>1, <3>5, TellsType DEF ConnType, Sending
      <4>3. Tells(out[q]) <= emitted'[sid'[c]]
        BY <1>1, <4>1, <4>2
      <4>4. CASE wire'[c] = wire[c]
        BY <3>1, <4>1, <4>3, <4>4 DEF IsFresh
      <4>5. CASE wire'[c] = Append(wire[c], m)
        <5>1. MayFollow(m, out[q])
          BY <2>2, <4>1 DEF MayFollow, MayStart
        <5>2. \A i \in DOMAIN Append(wire[c], m) :
                 \/ i \in DOMAIN wire[c] /\ Append(wire[c], m)[i] = wire[c][i]
                 \/ Append(wire[c], m)[i] = m
          BY <1>2, <4>1
        <5>3. QED
          BY <3>1, <4>1, <4>3, <4>5, <5>1, <5>2 DEF IsFresh
      <4>6. QED
        BY <1>4, <4>1, <4>4, <4>5
    <3>6. QED
      BY <3>1, <3>2, <3>4, <3>5 DEF UnderWay, IsFresh
  <2>3. QED
    BY <2>1, <2>2
<1>6. ASSUME NEW c \in Conn, NEW i \in DOMAIN wire'[c], IsTale(wire'[c][i])
      PROVE  Tells(wire'[c][i]) <= emitted'[sid'[c]]
  <2>1. ASSUME i \in DOMAIN wire[c], wire'[c][i] = wire[c][i]
        PROVE  Tells(wire'[c][i]) <= emitted'[sid'[c]]
    <3>1. pc[c] \notin {"off", "accepting"} /\ wire[c][i] \in Message
      BY <1>2, <2>1
    <3>2. Tells(wire[c][i]) <= emitted[sid[c]] /\ Tells(wire[c][i]) \in Nat
      BY <1>6, <2>1, <3>1, TellsType DEF OrderInv
    <3>3. QED
      BY <1>1, <2>1, <3>1, <3>2
  <2>2. CASE wire'[c] = wire[c]
    BY <1>6, <2>1, <2>2
  <2>3. CASE wire'[c] = Append(wire[c], m) /\ c \in Members(rest)
    <3>1. \/ i \in DOMAIN wire[c] /\ wire'[c][i] = wire[c][i]
          \/ wire'[c][i] = m
      BY <1>2, <1>6, <2>3
    <3>2. CASE wire'[c][i] = m
      <4>1. Tells(m) <= emitted'[sid[c]] /\ sid'[c] = sid[c]
        BY <1>1, <1>6, <2>3, <3>2 DEF MayStart
      <4>2. QED
        BY <3>2, <4>1
    <3>3. QED
      BY <2>1, <3>1, <3>2
  <2>4. QED
    BY <1>4, <2>2, <2>3
<1>7. ASSUME NEW c \in Conn PROVE WireInOrder(wire'[c])
  <2>1. WireInOrder(wire[c])
    BY OrderOfWires DEF OrderInv
  <2>2. CASE wire'[c] = wire[c]
    BY <2>1, <2>2
  <2>3. CASE wire'[c] = Append(wire[c], m) /\ c \in Members(rest)
    <3>1. IsTale(m) => \A i \in DOMAIN wire[c] : MayFollow(wire[c][i], m)
      BY <2>3 DEF MayStart, IsFresh
    <3>2. QED
      BY <1>2, <2>1, <2>3, <3>1, AppendKeepsOrder DEF WireInOrder
  <2>4. QED
    BY <1>4, <2>2, <2>3
<1>8. EachSourceInOrder'
  BY <1>7 DEF EachSourceInOrder, WireInOrder, MayFollow, IsTale
<1>9. QED
  BY <1>5, <1>6, <1>8 DEF OrderInv

-----------------------------------------------------------------------------
(* Each event once *)

\* The places where c has heard event n, and those who owe it to c.
Told(c, n) == {i \in DOMAIN wire[c] : IsEvent(wire[c][i], n)}
Owing(c, n) == {p \in Proc : Owes(p, c, n)}

\* Exactly one of the two, and that once.
IsOnce(told, owing) ==
    \/ (\E i : told = {i}) /\ owing = {}
    \/ told = {} /\ \E p : owing = {p}

Hears(c) == registered[c] /\ link[c] = "open" /\ state[c] = "connected"
Shown(c) == ShownTo(c)

\* Event n is news to c, and c was not cut off from it.
IsNews(c, n) == n > Shown(c) /\ n \notin missed[c]

NewsOf(c, n) ==
    /\ IsNews(c, n) => IsOnce(Told(c, n), Owing(c, n))
    /\ ~IsNews(c, n) => Told(c, n) = {} /\ Owing(c, n) = {}

NewsInv ==
    \A c \in Conn : Hears(c) =>
        /\ Shown(c) \in Nat /\ Shown(c) <= emitted[sid[c]]
        /\ \A n \in 1 .. emitted[sid[c]] : NewsOf(c, n)

\* Only those who have been accepted miss anything, and only what has happened.
MissedInv ==
    \A c \in Conn : \A n \in missed[c] :
        pc[c] \notin {"off", "accepting"} /\ n <= emitted[sid[c]]

\* What a leg changes in both, for a connection that stays registered.
LEMMA LegCounts ==
    ASSUME ConnInv, NEW p \in Proc, NEW m \in Message, NEW rest, NEW gone, NEW next,
           Leg(p, m, rest, gone, next),
           NEW c \in Conn, registered'[c], link[c] = "open", NEW n
    PROVE  /\ Owing(c, n)' = (Owing(c, n) \ {p})
                \cup (IF next # <<>> /\ IsEvent(m, n) /\ c \in Members(Tail(next))
                      THEN {p} ELSE {})
           /\ Told(c, n)' = Told(c, n)
                \cup (IF next # <<>> /\ c = Head(next) /\ IsEvent(m, n)
                      THEN {Len(wire[c]) + 1} ELSE {})
           /\ c \in Members(rest) =>
                next # <<>> /\ (c = Head(next) \/ c \in Members(Tail(next)))
           /\ next # <<>> => /\ c = Head(next) => c \in Members(rest)
                             /\ c \in Members(Tail(next)) => c \in Members(rest)
                             /\ ~(c = Head(next) /\ c \in Members(Tail(next)))
<1>1. \A q \in Proc : q # p => (Owes(q, c, n)' <=> Owes(q, c, n))
  BY DEF Leg, Owes, Sending
<1>2. Owes(p, c, n)' <=> next # <<>> /\ IsEvent(m, n) /\ c \in Members(Tail(next))
  BY NoneAssumption DEF Leg, Owes, Sending
<1>3. Owing(c, n)' = (Owing(c, n) \ {p})
                \cup (IF next # <<>> /\ IsEvent(m, n) /\ c \in Members(Tail(next))
                      THEN {p} ELSE {})
  BY <1>1, <1>2 DEF Owing
<1>4. wire[c] \in Seq(Message)
  BY DEF ConnInv, ConnType
<1>5. Told(c, n)' = Told(c, n)
                \cup (IF next # <<>> /\ c = Head(next) /\ IsEvent(m, n)
                      THEN {Len(wire[c]) + 1} ELSE {})
  <2>1. CASE next # <<>> /\ c = Head(next)
    <3>1. wire'[c] = Append(wire[c], m)
      BY <2>1 DEF Leg
    <3>2. /\ DOMAIN wire'[c] = DOMAIN wire[c] \cup {Len(wire[c]) + 1}
          /\ \A i \in DOMAIN wire[c] : wire'[c][i] = wire[c][i]
          /\ wire'[c][Len(wire[c]) + 1] = m
      BY <1>4, <3>1
    <3>3. QED
      BY <2>1, <3>2 DEF Told
  <2>2. CASE ~(next # <<>> /\ c = Head(next))
    <3>1. wire'[c] = wire[c]
      BY <2>2 DEF Leg
    <3>2. QED
      BY <2>2, <3>1 DEF Told
  <2>3. QED
    BY <2>1, <2>2
<1>6. c \notin gone
  BY DEF Leg
<1>7. QED
  BY <1>3, <1>5, <1>6 DEF Leg

\* A leg that tells event n serves c with it now or still owes it; any other
\* leaves what c has heard, and what the others owe it, as they are.
LEMMA LegMoves ==
    ASSUME ConnInv, NEW p \in Proc, NEW m \in Message, NEW rest, NEW gone, NEW next,
           Leg(p, m, rest, gone, next),
           NEW c \in Conn, registered'[c], link[c] = "open", NEW n
    PROVE  /\ ~(IsEvent(m, n) /\ c \in Members(rest)) =>
                Told(c, n)' = Told(c, n) /\ Owing(c, n)' = Owing(c, n) \ {p}
           /\ IsEvent(m, n) /\ c \in Members(rest) =>
                \/ /\ Told(c, n)' = Told(c, n) \cup {Len(wire[c]) + 1}
                   /\ Owing(c, n)' = Owing(c, n) \ {p}
                \/ /\ Told(c, n)' = Told(c, n)
                   /\ Owing(c, n)' = Owing(c, n) \cup {p}
<1> DEFINE first == next # <<>> /\ c = Head(next)
           later == next # <<>> /\ c \in Members(Tail(next))
<1>1. /\ Owing(c, n)' = (Owing(c, n) \ {p})
                           \cup (IF IsEvent(m, n) /\ later THEN {p} ELSE {})
      /\ Told(c, n)' = Told(c, n)
                           \cup (IF first /\ IsEvent(m, n) THEN {Len(wire[c]) + 1} ELSE {})
      /\ c \in Members(rest) <=> first \/ later
      /\ ~(first /\ later)
  <2>1. /\ Owing(c, n)' = (Owing(c, n) \ {p})
               \cup (IF next # <<>> /\ IsEvent(m, n) /\ c \in Members(Tail(next))
                     THEN {p} ELSE {})
        /\ Told(c, n)' = Told(c, n)
               \cup (IF next # <<>> /\ c = Head(next) /\ IsEvent(m, n)
                     THEN {Len(wire[c]) + 1} ELSE {})
        /\ c \in Members(rest) =>
               next # <<>> /\ (c = Head(next) \/ c \in Members(Tail(next)))
        /\ next # <<>> => /\ c = Head(next) => c \in Members(rest)
                          /\ c \in Members(Tail(next)) => c \in Members(rest)
                          /\ ~(c = Head(next) /\ c \in Members(Tail(next)))
    BY LegCounts
  <2>2. QED
    BY <2>1
<1> HIDE DEF first, later
<1>2. CASE ~(IsEvent(m, n) /\ c \in Members(rest))
  <2>1. ~(IsEvent(m, n) /\ later) /\ ~(first /\ IsEvent(m, n))
    BY <1>1, <1>2
  <2>2. QED
    BY <1>1, <1>2, <2>1
<1>3. CASE IsEvent(m, n) /\ first
  <2>1. ~later /\ c \in Members(rest)
    BY <1>1, <1>3
  <2>2. QED
    BY <1>1, <1>3, <2>1
<1>4. CASE IsEvent(m, n) /\ later
  <2>1. ~first /\ c \in Members(rest)
    BY <1>1, <1>4
  <2>2. QED
    BY <1>1, <1>4, <2>1
<1>5. QED
  BY <1>1, <1>2, <1>3, <1>4

\* Nobody has heard of an event that is still to be emitted.
LEMMA NotYetTold ==
    ASSUME ConnInv, SendInv, OrderInv, NEW c \in Conn, NEW n \in Nat,
           sid[c] \in Sim, emitted[sid[c]] \in Nat, n > emitted[sid[c]]
    PROVE  Told(c, n) = {} /\ Owing(c, n) = {}
<1>1. ASSUME NEW i \in DOMAIN wire[c], IsEvent(wire[c][i], n) PROVE FALSE
  <2>1. Tells(wire[c][i]) <= emitted[sid[c]] /\ Tells(wire[c][i]) = n
    BY <1>1 DEF OrderInv, IsEvent, IsTale, Tells
  <2>2. QED
    BY <2>1
<1>2. ASSUME NEW q \in Proc, Owes(q, c, n) PROVE FALSE
  <2>1. Tells(out[q]) <= emitted[sid[c]] /\ Tells(out[q]) = n
    BY <1>2 DEF OrderInv, UnderWay, Owes, IsEvent, IsTale, Tells
  <2>2. QED
    BY <2>1
<1>3. QED
  BY <1>1, <1>2 DEF Told, Owing

\* The three kinds of legs: the next of a broadcast, the first of one that
\* tells no event, and the first of one that tells a new event.
Continues(p, m, rest) ==
    /\ Sending(p) /\ m = out[p] /\ rest = Tail(todo[p])
    /\ UNCHANGED emitted
Answers(p, m) == ~Sending(p) /\ m.kind # "event" /\ UNCHANGED emitted
Announces(p, m, rest, s) ==
    /\ ~Sending(p) /\ m = Event(emitted[s] + 1, p) /\ rest = sessions[s]
    /\ emitted' = [emitted EXCEPT ![s] = @ + 1]

\* If nobody owes c the event that is told, it is new; else it is still owed.
LEMMA LegKeepsNewsOf ==
    ASSUME ConnInv, NEW p \in Proc, NEW m \in Message, NEW rest, NEW gone, NEW next,
           Leg(p, m, rest, gone, next),
           NEW c \in Conn, registered'[c], link[c] = "open", NEW n \in Nat,
           IsNews(c, n)' <=> IsNews(c, n), NewsOf(c, n),
           p \in Owing(c, n) <=> IsEvent(m, n) /\ c \in Members(rest)
    PROVE  NewsOf(c, n)'
<1>1. /\ IsNews(c, n) => IsOnce(Told(c, n), Owing(c, n))
      /\ ~IsNews(c, n) => Told(c, n) = {} /\ Owing(c, n) = {}
  BY DEF NewsOf
<1>2. CASE ~(IsEvent(m, n) /\ c \in Members(rest))
  <2>1. Told(c, n)' = Told(c, n) /\ Owing(c, n)' = Owing(c, n)
    <3>1. Told(c, n)' = Told(c, n) /\ Owing(c, n)' = Owing(c, n) \ {p}
      BY <1>2, LegMoves
    <3>2. p \notin Owing(c, n)
      BY <1>2
    <3>3. QED
      BY <3>1, <3>2
  <2>2. QED
    BY <1>1, <2>1 DEF NewsOf
<1>3. CASE IsEvent(m, n) /\ c \in Members(rest)
  <2>1. p \in Owing(c, n)
    BY <1>3
  <2>2. IsNews(c, n) /\ Told(c, n) = {} /\ Owing(c, n) = {p}
    BY <1>1, <2>1 DEF IsOnce
  <2>3. \/ Told(c, n)' = {Len(wire[c]) + 1} /\ Owing(c, n)' = {}
        \/ Told(c, n)' = {} /\ Owing(c, n)' = {p}
    <3>1. \/ /\ Told(c, n)' = Told(c, n) \cup {Len(wire[c]) + 1}
             /\ Owing(c, n)' = Owing(c, n) \ {p}
          \/ /\ Told(c, n)' = Told(c, n)
             /\ Owing(c, n)' = Owing(c, n) \cup {p}
      BY <1>3, LegMoves
    <3>2. QED
      BY <2>2, <3>1
  <2>4. IsOnce(Told(c, n)', Owing(c, n)')
    BY <2>3 DEF IsOnce
  <2>5. QED
    BY <1>1, <2>2, <2>4 DEF NewsOf
<1>4. QED
  BY <1>2, <1>3

LEMMA LegKeepsNews ==
    ASSUME ConnInv, SendInv, RegistryInv, OrderInv, NewsInv, MissedInv, GoesOn,
           UNCHANGED <<link, missed>>,
           NEW p \in Proc, NEW m \in Message, NEW rest \in Seq(Conn),
           NEW gone, NEW next, Leg(p, m, rest, gone, next),
           \/ Continues(p, m, rest) \/ Answers(p, m)
           \/ \E s \in Sim : Announces(p, m, rest, s)
    PROVE  NewsInv'
<1> USE DEF ConnInv
<1> SUFFICES ASSUME NEW c \in Conn, Hears(c)'
             PROVE  /\ Shown(c)' \in Nat /\ Shown(c)' <= emitted'[sid'[c]]
                    /\ \A n \in 1 .. emitted'[sid'[c]] : NewsOf(c, n)'
  BY DEF NewsInv
<1>1. /\ registered'[c] /\ registered[c] /\ link[c] = "open"
      /\ state[c] = "connected"
  BY DEF Hears, Leg
<1>2. /\ pc[c] \notin {"off", "accepting"} /\ sid[c] \in Sim /\ sid'[c] = sid[c]
      /\ emitted[sid[c]] \in Nat /\ emitted'[sid[c]] \in Nat
      /\ emitted[sid[c]] <= emitted'[sid[c]]
  BY <1>1 DEF OutsideInv, PlaceInv, GoesOn
<1>3. wire[c] \in Seq(Message) /\ wire[c] # <<>>
  BY <1>1 DEF ConnType, GreetInv
<1>4. wire'[c][1] = wire[c][1]
  <2>1. wire'[c] = wire[c] \/ wire'[c] = Append(wire[c], m)
    BY <1>1 DEF Leg
  <2>2. Append(wire[c], m)[1] = wire[c][1]
    BY <1>3, AppendKeepsFirst
  <2>3. QED
    BY <2>1, <2>2
<1>5. Hears(c) /\ Shown(c)' = Shown(c)
  BY <1>1, <1>4 DEF Hears, Shown, ShownTo
<1>6. /\ Shown(c) \in Nat /\ Shown(c) <= emitted[sid[c]]
      /\ \A n \in 1 .. emitted[sid[c]] : NewsOf(c, n)
      /\ \A n : IsNews(c, n)' <=> IsNews(c, n)
  BY <1>5 DEF NewsInv, IsNews
<1>7. Shown(c)' \in Nat /\ Shown(c)' <= emitted'[sid'[c]]
  BY <1>2, <1>5, <1>6
<1>8. ASSUME NEW n \in 1 .. emitted[sid[c]],
             p \in Owing(c, n) <=> IsEvent(m, n) /\ c \in Members(rest)
      PROVE  NewsOf(c, n)'
  <2>1. n \in Nat
    BY <1>2
  <2>2. QED
    BY <1>1, <1>5, <1>6, <1>8, <2>1, LegKeepsNewsOf
<1>9. CASE Continues(p, m, rest)
  <2>1. emitted'[sid'[c]] = emitted[sid[c]]
    BY <1>2, <1>9 DEF Continues
  <2>2. \A n : p \in Owing(c, n) <=> IsEvent(m, n) /\ c \in Members(rest)
    BY <1>9 DEF Continues, Owing, Owes
  <2>3. QED
    BY <1>7, <1>8, <2>1, <2>2
<1>10. CASE Answers(p, m)
  <2>1. emitted'[sid'[c]] = emitted[sid[c]]
    BY <1>2, <1>10 DEF Answers
  <2>2. \A n : p \notin Owing(c, n) /\ ~IsEvent(m, n)
    BY <1>10 DEF Answers, Owing, Owes, IsEvent
  <2>3. QED
    BY <1>7, <1>8, <2>1, <2>2
<1>11. ASSUME NEW s \in Sim, Announces(p, m, rest, s)
       PROVE  /\ Shown(c)' \in Nat /\ Shown(c)' <= emitted'[sid'[c]]
              /\ \A n \in 1 .. emitted'[sid'[c]] : NewsOf(c, n)'
  <2>1. /\ m.kind = "event" /\ m.n = emitted[s] + 1
        /\ \A n : p \notin Owing(c, n)
    BY <1>11 DEF Announces, Event, Owing, Owes
  <2>2. c \in Members(rest) <=> sid[c] = s
    BY <1>1, <1>11 DEF Announces, RegistryInv, RegistriesAgree
  <2>3. ASSUME NEW n \in 1 .. emitted[sid[c]] PROVE NewsOf(c, n)'
    <3>1. ~(IsEvent(m, n) /\ c \in Members(rest))
      BY <1>2, <2>1, <2>2 DEF IsEvent
    <3>2. QED
      BY <1>8, <2>1, <3>1
  <2>4. ASSUME NEW n \in Nat, n = emitted[s] + 1, sid[c] = s PROVE NewsOf(c, n)'
    <3>1. Told(c, n) = {} /\ Owing(c, n) = {}
      BY <1>2, <2>4, NotYetTold
    <3>2. IsEvent(m, n) /\ c \in Members(rest)
      BY <2>1, <2>2, <2>4 DEF IsEvent
    <3>3. \/ /\ Told(c, n)' = Told(c, n) \cup {Len(wire[c]) + 1}
             /\ Owing(c, n)' = Owing(c, n) \ {p}
          \/ /\ Told(c, n)' = Told(c, n)
             /\ Owing(c, n)' = Owing(c, n) \cup {p}
      BY <1>1, <3>2, LegMoves
    <3>4. IsOnce(Told(c, n)', Owing(c, n)')
      BY <3>1, <3>3 DEF IsOnce
    <3>5. IsNews(c, n)'
      <4>1. n > Shown(c)
        BY <1>2, <1>6, <2>4
      <4>2. n \notin missed[c]
        BY <1>2, <2>4 DEF MissedInv
      <4>3. QED
        BY <1>6, <4>1, <4>2 DEF IsNews
    <3>6. QED
      BY <3>4, <3>5 DEF NewsOf
  <2>5. ASSUME NEW n \in 1 .. emitted'[sid'[c]]
        PROVE  /\ n \in Nat
               /\ n \in 1 .. emitted[sid[c]] \/ (sid[c] = s /\ n = emitted[s] + 1)
    <3>1. \/ emitted'[sid[c]] = emitted[sid[c]]
          \/ sid[c] = s /\ emitted'[sid[c]] = emitted[s] + 1
      BY <1>2, <1>11 DEF Announces, GoesOn
    <3>2. n \in 1 .. emitted'[sid[c]]
      BY <1>2
    <3>3. QED
      BY <1>2, <3>1, <3>2
  <2>6. QED
    BY <1>7, <2>3, <2>4, <2>5
<1>12. QED
  BY <1>9, <1>10, <1>11

-----------------------------------------------------------------------------
(* The feed of an observer *)

StoryInv == OrderInv /\ NewsInv /\ MissedInv

\* A function on an initial part of the naturals is a list.
LEMMA ListOfFunction ==
    ASSUME NEW k \in Nat, NEW f, f = [i \in 1 .. k |-> f[i]], NEW e
    PROVE  /\ f \in Seq({f[i] : i \in 1 .. k} \cup {e}) /\ Len(f) = k
           /\ Append(f, e) = [i \in 1 .. k + 1 |-> IF i = k + 1 THEN e ELSE f[i]]
<1> DEFINE S == {f[i] : i \in 1 .. k} \cup {e}
<1>1. f \in [1 .. k -> S] /\ e \in S
  OBVIOUS
<1> HIDE DEF S
<1>2. f \in Seq(S) /\ Len(f) = k
  BY <1>1
<1>3. Append(f, e) = [i \in 1 .. k + 1 |-> IF i = k + 1 THEN e ELSE f[i]]
  BY <1>1, <1>2
<1>4. QED
  BY <1>2, <1>3 DEF S

\* What the feed has of a connection depends on its wire only.
LEMMA FeedFacts ==
    ASSUME ConnType, NEW c \in Conn
    PROVE  /\ Len(wire[c]) \in Nat
           /\ DOMAIN FeedOf(c) = 1 .. Len(wire[c]) /\ Len(FeedOf(c)) = Len(wire[c])
           /\ wire[c] = <<>> => FeedOf(c) = <<>>
           /\ wire[c] # <<>> =>
                FeedOf(c) # <<>> /\ FeedOf(c)[1] = Feed!Snapshot(ShownTo(c))
           /\ \A i \in 2 .. Len(wire[c]) : FeedOf(c)[i] = ItemOf(wire[c][i])
           /\ wire'[c] = wire[c] => FeedOf(c)' = FeedOf(c)
<1>1. wire[c] \in Seq(Message) /\ Len(wire[c]) \in Nat
  BY DEF ConnType
<1>2. /\ DOMAIN FeedOf(c) = 1 .. Len(wire[c]) /\ Len(FeedOf(c)) = Len(wire[c])
  <2> DEFINE k == Len(wire[c])
             f == FeedOf(c)
  <2>1. f = [i \in 1 .. k |-> f[i]] /\ k \in Nat
    BY <1>1 DEF FeedOf
  <2> HIDE DEF f, k
  <2>2. Len(f) = k /\ DOMAIN f = 1 .. k
    BY <2>1, ListOfFunction
  <2>3. QED
    BY <2>2 DEF f, k
<1>3. wire[c] # <<>> => 1 \in DOMAIN FeedOf(c)
  BY <1>1, <1>2
<1>4. wire[c] # <<>> => FeedOf(c)[1] = Feed!Snapshot(ShownTo(c))
  BY <1>2, <1>3 DEF FeedOf, Feed!Snapshot
<1>5. \A i \in 2 .. Len(wire[c]) : FeedOf(c)[i] = ItemOf(wire[c][i])
  BY <1>1 DEF FeedOf
<1>6. wire'[c] = wire[c] => FeedOf(c)' = FeedOf(c)
  BY DEF FeedOf, ShownTo
<1>7. wire[c] # <<>> => FeedOf(c) # <<>>
  BY <1>3
<1>8. wire[c] = <<>> => FeedOf(c) = <<>>
  BY <1>1, <1>2
<1>9. QED
  BY <1>1, <1>2, <1>4, <1>5, <1>6, <1>7, <1>8

\* A message after the greeting adds one item to the feed.
LEMMA FeedGrows ==
    ASSUME ConnType, NEW c \in Conn, NEW m \in Message, wire[c] # <<>>,
           wire'[c] = Append(wire[c], m)
    PROVE  FeedOf(c)' = Append(FeedOf(c), ItemOf(m))
<1> DEFINE w == wire[c]
           v == wire'[c]
           k == Len(w)
           first == [kind |-> "snapshot", n |-> ShownTo(c)]
<1>1. /\ w \in Seq(Message) /\ k \in Nat \ {0} /\ Len(v) = k + 1
      /\ \A i \in 1 .. k : v[i] = w[i]
      /\ v[k + 1] = m
  BY DEF ConnType
<1>2. ShownTo(c)' = ShownTo(c)
  <2>1. wire'[c][1] = wire[c][1]
    BY <1>1
  <2>2. QED
    BY <2>1 DEF ShownTo
<1>3. FeedOf(c) = [i \in 1 .. k |-> IF i = 1 THEN first ELSE ItemOf(w[i])]
  BY DEF FeedOf
<1>4. FeedOf(c)' = [i \in 1 .. k + 1 |-> IF i = 1 THEN first ELSE ItemOf(v[i])]
  BY <1>1, <1>2 DEF FeedOf, ItemOf
<1> HIDE DEF w, v, k, first
<1> DEFINE f == [i \in 1 .. k |-> IF i = 1 THEN first ELSE ItemOf(w[i])]
           g == [i \in 1 .. k + 1 |-> IF i = 1 THEN first ELSE ItemOf(v[i])]
<1>5. Append(f, ItemOf(m)) = [i \in 1 .. k + 1 |-> IF i = k + 1 THEN ItemOf(m) ELSE f[i]]
  <2>1. f = [i \in 1 .. k |-> f[i]]
    OBVIOUS
  <2> HIDE DEF f
  <2>2. QED
    BY <1>1, <2>1, ListOfFunction
<1>6. ASSUME NEW i \in 1 .. k + 1
      PROVE  g[i] = IF i = k + 1 THEN ItemOf(m) ELSE f[i]
  BY <1>1
<1>7. QED
  BY <1>3, <1>4, <1>5, <1>6

\* The event a leg tells is news to each it comes to.
LEMMA NewsIsNew ==
    ASSUME ConnInv, SendInv, RegistryInv, OrderInv, NewsInv, emitted \in [Sim -> Nat],
           NEW p \in Proc, NEW m \in Message, NEW rest, m.kind = "event",
           \/ Continues(p, m, rest) \/ Answers(p, m)
           \/ \E s \in Sim : Announces(p, m, rest, s),
           NEW c \in Conn, c \in Members(rest), Hears(c)
    PROVE  /\ m.n \in Nat \ {0} /\ ShownTo(c) \in Nat /\ ShownTo(c) < m.n
           /\ Told(c, m.n) = {}
<1> DEFINE n == m.n
<1>1. n \in Nat \ {0} /\ IsEvent(m, n)
  <2>1. m \in [kind : {"event"}, n : Nat \ {0}, by : Proc]
    BY DEF Message
  <2>2. QED
    BY <2>1 DEF IsEvent
<1>2. /\ sid[c] \in Sim /\ emitted[sid[c]] \in Nat
      /\ Shown(c) \in Nat /\ Shown(c) <= emitted[sid[c]]
      /\ \A i \in 1 .. emitted[sid[c]] : NewsOf(c, i)
  BY DEF Hears, NewsInv, ConnInv, OutsideInv, PlaceInv
<1> HIDE DEF n
<1>3. CASE Continues(p, m, rest)
  <2>1. p \in Owing(c, n)
    BY <1>1, <1>3 DEF Continues, Owing, Owes
  <2>2. Tells(m) <= emitted[sid[c]]
    BY <1>3 DEF Continues, OrderInv, UnderWay, IsTale
  <2>3. Tells(m) = n
    BY DEF Tells, n
  <2>4. NewsOf(c, n)
    BY <1>1, <1>2, <2>2, <2>3
  <2>5. IsNews(c, n) /\ Told(c, n) = {}
    BY <2>1, <2>4 DEF NewsOf, IsOnce
  <2>6. n > Shown(c)
    BY <2>5 DEF IsNews
  <2>7. QED
    BY <1>1, <1>2, <2>5, <2>6 DEF n, Shown
<1>4. ASSUME NEW s \in Sim, Announces(p, m, rest, s)
      PROVE  n > Shown(c) /\ Told(c, n) = {}
  <2>1. n = emitted[s] + 1 /\ rest = sessions[s]
    BY <1>4 DEF Announces, Event, n
  <2>2. sid[c] = s
    BY <2>1 DEF RegistryInv, RegistriesAgree
  <2>3. n > emitted[sid[c]]
    BY <1>2, <2>1, <2>2
  <2>4. Told(c, n) = {}
    BY <1>1, <1>2, <2>3, NotYetTold
  <2>5. QED
    BY <1>1, <1>2, <2>3, <2>4
<1>5. ~Answers(p, m)
  BY DEF Answers
<1>6. QED
  BY <1>1, <1>2, <1>3, <1>4, <1>5 DEF n, Shown

\* What a leg writes to a connection may be told to it.
LEMMA WrittenIsHeard ==
    ASSUME ConnInv, SendInv, RegistryInv, OrderInv, NewsInv, UNCHANGED sid,
           emitted \in [Sim -> Nat], emitted' \in [Sim -> Nat],
           \A s \in Sim : emitted[s] <= emitted'[s],
           NEW p \in Proc, NEW m \in Message, NEW rest, MayStart(p, m, rest),
           \/ Continues(p, m, rest) \/ Answers(p, m)
           \/ \E s \in Sim : Announces(p, m, rest, s),
           NEW c \in Conn, c \in Members(rest), Hears(c), registered'[c],
           wire'[c] = Append(wire[c], m)
    PROVE  Feed!Hears(c)
<1> USE DEF ConnInv
<1> DEFINE item == ItemOf(m)
<1>1. /\ wire[c] \in Seq(Message) /\ wire[c] # <<>>
      /\ sid[c] \in Sim /\ emitted[sid[c]] \in Nat /\ emitted'[sid[c]] \in Nat
  BY DEF ConnType, GreetInv, Hears, OutsideInv, PlaceInv
<1>2. /\ PhaseOf(c) = "following" /\ PhaseOf(c)' = "following"
      /\ FeedOf(c) # <<>> /\ FeedOf(c)' = Append(FeedOf(c), item)
      /\ FeedOf(c)[1] = Feed!Snapshot(ShownTo(c))
  BY <1>1, FeedFacts, FeedGrows DEF PhaseOf, Hears
<1>3. IsTale(m) => /\ m.by = p /\ Tells(m) <= emitted'[sid[c]] /\ IsFresh(c, m)
                   /\ Tells(m) \in Nat
  BY TellsType DEF MayStart
<1>4. m.kind = "event" => /\ m.n \in Nat \ {0} /\ ShownTo(c) \in Nat
                          /\ ShownTo(c) < m.n /\ Told(c, m.n) = {}
  BY NewsIsNew
<1>5. item \in {Feed!Notice} \cup Feed!Event((ShownTo(c) + 1) .. emitted'[sid[c]])
                 \cup Feed!State(0 .. emitted'[sid[c]])
  <2>1. CASE m.kind = "event"
    <3>1. m.n \in (ShownTo(c) + 1) .. emitted'[sid[c]] /\ m.by \in Proc
      BY <1>1, <1>3, <1>4, <2>1 DEF IsTale, Tells
    <3>2. item = [kind |-> "event", n |-> m.n, by |-> m.by]
      BY <2>1 DEF ItemOf
    <3>3. item \in Feed!Event((ShownTo(c) + 1) .. emitted'[sid[c]])
      BY <3>1, <3>2 DEF Feed!Event
    <3>4. QED
      BY <3>3
  <2>2. CASE m.kind = "state"
    <3>1. m.version \in 0 .. emitted'[sid[c]] /\ m.by \in Proc
      BY <1>1, <1>3, <2>2 DEF IsTale, Tells
    <3>2. item = [kind |-> "state", n |-> m.version, by |-> m.by]
      BY <2>2 DEF ItemOf
    <3>3. item \in Feed!State(0 .. emitted'[sid[c]])
      BY <3>1, <3>2 DEF Feed!State
    <3>4. QED
      BY <3>3
  <2>3. CASE m.kind \notin {"event", "state"}
    BY <2>3 DEF ItemOf, Feed!Notice
  <2>4. QED
    BY <2>1, <2>2, <2>3
<1>6. ASSUME NEW i \in DOMAIN FeedOf(c) PROVE Feed!MayFollow(FeedOf(c)[i], item)
  <2>1. i \in 1 .. Len(wire[c])
    BY FeedFacts
  <2>2. CASE i = 1
    <3>1. FeedOf(c)[i].kind = "snapshot"
      BY <1>2, <2>2 DEF Feed!Snapshot
    <3>2. QED
      BY <3>1 DEF Feed!MayFollow, Feed!IsTale
  <2>3. CASE i # 1
    <3> DEFINE l == wire[c][i]
    <3>1. i \in DOMAIN wire[c] /\ FeedOf(c)[i] = ItemOf(l)
      <4>1. i \in 2 .. Len(wire[c])
        BY <1>1, <2>1, <2>3
      <4>2. QED
        BY <1>1, <4>1, FeedFacts
    <3>2. IsTale(m) => MayFollow(l, m)
      BY <1>3, <3>1 DEF IsFresh
    <3>3. l.kind = "event" /\ m.kind = "event" => l.n # m.n
      BY <1>4, <3>1 DEF Told, IsEvent
    <3> HIDE DEF l
    <3>4. Feed!MayFollow(ItemOf(l), ItemOf(m))
      <4> SUFFICES ASSUME Feed!IsTale(ItemOf(l)), Feed!IsTale(ItemOf(m))
                   PROVE  /\ ItemOf(l).by = ItemOf(m).by => ItemOf(l).n <= ItemOf(m).n
                          /\ /\ ItemOf(l).kind = "event"
                             /\ ItemOf(m).kind = "event"
                             => ItemOf(l).n # ItemOf(m).n
        BY DEF Feed!MayFollow
      <4>1. ASSUME NEW x, Feed!IsTale(ItemOf(x))
            PROVE  /\ IsTale(x) /\ ItemOf(x).kind = x.kind
                   /\ ItemOf(x).n = Tells(x) /\ ItemOf(x).by = x.by
                   /\ x.kind = "event" => Tells(x) = x.n
        <5>1. CASE x.kind = "event"
          <6>1. ItemOf(x) = [kind |-> "event", n |-> x.n, by |-> x.by]
            BY <5>1 DEF ItemOf
          <6>2. QED
            BY <5>1, <6>1 DEF IsTale, Tells
        <5>2. CASE x.kind = "state"
          <6>1. ItemOf(x) = [kind |-> "state", n |-> x.version, by |-> x.by]
            BY <5>2 DEF ItemOf
          <6>2. QED
            BY <5>2, <6>1 DEF IsTale, Tells
        <5>3. CASE x.kind \notin {"event", "state"}
          <6>1. ItemOf(x) = [kind |-> "notice"]
            BY <5>3 DEF ItemOf
          <6>2. QED
            BY <4>1, <6>1 DEF Feed!IsTale
        <5>4. QED
          BY <5>1, <5>2, <5>3
      <4>2. QED
        BY <3>2, <3>3, <4>1 DEF MayFollow
    <3>5. QED
      BY <3>1, <3>4
  <2>4. QED
    BY <2>2, <2>3
<1>7. FeedOf(c)[1].n = ShownTo(c) /\ sid'[c] = sid[c]
  BY <1>2 DEF Feed!Snapshot
<1> HIDE DEF item
<1>8. QED
  BY <1>2, <1>5, <1>6, <1>7 DEF Feed!Hears, Feed!ToTell

\* A connection that keeps its place in the registries and hears nothing.
LEMMA NothingHeard ==
    ASSUME ConnType, NEW c \in Conn, sid'[c] = sid[c], wire'[c] = wire[c],
           registered'[c] <=> registered[c],
           registered[c] \/ (pc'[c] \in {"off", "accepting"}
                              <=> pc[c] \in {"off", "accepting"})
    PROVE  Feed!Same(c)
<1>1. FeedOf(c)' = FeedOf(c)
  BY FeedFacts
<1>2. PhaseOf(c)' = PhaseOf(c)
  BY DEF PhaseOf
<1>3. QED
  BY <1>1, <1>2 DEF Feed!Same

\* One that is destroyed, or could not be accepted.
LEMMA NothingMore ==
    ASSUME ConnType, NEW c \in Conn, sid'[c] = sid[c], wire'[c] = wire[c],
           registered[c] \/ pc[c] \in {"off", "accepting"},
           ~registered'[c], pc'[c] \notin {"off", "accepting"}
    PROVE  Feed!Leaves(c)
<1>1. FeedOf(c)' = FeedOf(c)
  BY FeedFacts
<1>2. PhaseOf(c) # "gone" /\ PhaseOf(c)' = "gone"
  BY DEF PhaseOf
<1>3. QED
  BY <1>1, <1>2 DEF Feed!Leaves

\* One leg of a broadcast: one connection hears of it, some are lost.
LEMMA LegIsFeedStep ==
    ASSUME ConnInv, SendInv, RegistryInv, OrderInv, NewsInv, GoesOn,
           UNCHANGED <<sid, link>>,
           NEW p \in Proc, NEW m \in Message, NEW rest \in Seq(Conn),
           NEW gone, NEW next, Leg(p, m, rest, gone, next), MayStart(p, m, rest),
           \/ Continues(p, m, rest) \/ Answers(p, m)
           \/ \E s \in Sim : Announces(p, m, rest, s),
           pc[p] \notin {"off", "accepting"}, pc'[p] \notin {"off", "accepting"},
           \A q \in Proc : q # p => pc'[q] = pc[q]
    PROVE  Feed!Next
<1> USE DEF ConnInv
<1>1. Feed!Emits
  BY DEF Continues, Answers, Announces, Feed!Emits
<1>2. /\ emitted \in [Sim -> Nat] /\ emitted' \in [Sim -> Nat]
      /\ \A s \in Sim : emitted[s] <= emitted'[s]
  BY DEF GoesOn
<1>3. ASSUME NEW c \in Conn
      PROVE  Feed!Same(c) \/ Feed!Hears(c) \/ Feed!Leaves(c)
  <2>1. /\ registered'[c] <=> registered[c] /\ c \notin gone
        /\ pc'[c] \in {"off", "accepting"} <=> pc[c] \in {"off", "accepting"}
        /\ registered[c] => pc[c] \notin {"off", "accepting"}
    BY DEF Leg, OutsideInv, Proc
  <2>2. CASE next # <<>> /\ c = Head(next) /\ link[c] = "open"
    <3>1. /\ wire'[c] = Append(wire[c], m) /\ c \in Members(rest)
          /\ c \notin gone /\ Sendable(c)
      BY <2>2 DEF Leg
    <3>2. Hears(c) /\ registered'[c]
      BY <2>1, <2>2, <3>1 DEF Sendable, Hears
    <3>3. Feed!Hears(c)
      BY <1>2, <3>1, <3>2, WrittenIsHeard
    <3>4. QED
      BY <3>3
  <2>3. CASE ~(next # <<>> /\ c = Head(next) /\ link[c] = "open")
    <3>1. wire'[c] = wire[c]
      BY <2>3 DEF Leg
    <3>2. CASE registered[c] /\ c \in gone
      BY <2>1, <3>1, <3>2, NothingMore
    <3>3. CASE ~(registered[c] /\ c \in gone)
      BY <2>1, <3>1, <3>3, NothingHeard
    <3>4. QED
      BY <3>2, <3>3
  <2>4. QED
    BY <2>2, <2>3
<1>4. QED
  BY <1>1, <1>3 DEF Feed!Next

-----------------------------------------------------------------------------
(* What the actions do to the order and to the news *)

\* A step that sends nothing and lets nobody hear who did not.
LEMMA SilenceKeepsStory ==
    ASSUME ConnInv, BookInv, StoryInv, UNCHANGED <<wire, todo, out, missed, emitted>>,
           \A c \in Conn : pc[c] \notin {"off", "accepting"} =>
              sid'[c] = sid[c] /\ pc'[c] \notin {"off", "accepting"},
           \A c \in Conn : Hears(c)' => Hears(c)
    PROVE  StoryInv'
<1> USE DEF ConnInv
<1>1. ASSUME NEW p \in Proc, Sending(p)' PROVE UnderWay(p)'
  <2>1. Sending(p) /\ UnderWay(p) /\ todo[p] \in Seq(Conn) /\ todo[p] # <<>>
    BY <1>1 DEF Sending, StoryInv, OrderInv, BookInv, SendInv
  <2>2. /\ Members(todo[p]) \subseteq Conn
        /\ Members(Tail(todo[p])) \subseteq Members(todo[p])
    BY <2>1, TailOfList DEF UnderWay
  <2>3. \A c \in Members(todo[p]) : pc[c] \notin {"off", "accepting"}
    BY <2>1 DEF UnderWay
  <2>4. QED
    BY <2>1, <2>2, <2>3 DEF UnderWay, IsFresh
<1>2. ASSUME NEW c \in Conn, NEW i \in DOMAIN wire[c], IsTale(wire[c][i])
      PROVE  Tells(wire[c][i]) <= emitted'[sid'[c]]
  <2>1. pc[c] \notin {"off", "accepting"}
    BY <1>2 DEF GreetInv
  <2>2. QED
    BY <1>2, <2>1 DEF StoryInv, OrderInv
<1>3. EachSourceInOrder'
  BY DEF StoryInv, OrderInv, EachSourceInOrder
<1>4. OrderInv'
  BY <1>1, <1>2, <1>3 DEF OrderInv
<1>5. NewsInv'
  <2> SUFFICES ASSUME NEW c \in Conn, Hears(c)'
               PROVE  /\ Shown(c)' \in Nat /\ Shown(c)' <= emitted'[sid'[c]]
                      /\ \A n \in 1 .. emitted'[sid'[c]] : NewsOf(c, n)'
    BY DEF NewsInv
  <2>1. Hears(c) /\ pc[c] \notin {"off", "accepting"}
    BY DEF Hears, OutsideInv
  <2>2. emitted'[sid'[c]] = emitted[sid[c]] /\ Shown(c)' = Shown(c)
    BY <2>1 DEF Shown, ShownTo
  <2>3. \A n : NewsOf(c, n)' <=> NewsOf(c, n)
    BY DEF NewsOf, IsNews, Shown, ShownTo, Told, Owing, Owes, Sending
  <2>4. /\ Shown(c) \in Nat /\ Shown(c) <= emitted[sid[c]]
        /\ \A n \in 1 .. emitted[sid[c]] : NewsOf(c, n)
    BY <2>1 DEF StoryInv, NewsInv
  <2>5. QED
    BY <2>2, <2>3, <2>4
<1>6. MissedInv'
  BY DEF StoryInv, MissedInv
<1>7. QED
  BY <1>4, <1>5, <1>6 DEF StoryInv

LEMMA SilentStepsKeepStory ==
    ASSUME ConnInv, BookInv, StoryInv,
           \/ \E c \in Conn : \/ Connect(c) \/ AcceptRaises(c) \/ Closed(c)
                              \/ ReceiveCommand(c) \/ Hangup(c) \/ LoseLink(c)
           \/ ShutDown \/ CloseNext \/ DestroyNext
           \/ UNCHANGED vars
    PROVE  StoryInv'
<1> USE DEF ConnInv
<1>1. UNCHANGED <<wire, todo, out, missed, emitted>>
  BY DEF Connect, AcceptRaises, Closed, ReceiveCommand, Hangup, LoseLink, ShutDown,
         CloseNext, DestroyNext, vars, timelineVars
<1>2. \A c \in Conn : pc[c] \notin {"off", "accepting"} => sid'[c] = sid[c]
  BY DEF Connect, AcceptRaises, Closed, ReceiveCommand, Hangup, LoseLink, ShutDown,
         CloseNext, DestroyNext, vars, ConnType
<1>3. \A c \in Conn : pc[c] \notin {"off", "accepting"} =>
          pc'[c] \notin {"off", "accepting"}
  BY DEF Connect, AcceptRaises, Closed, ReceiveCommand, Hangup, LoseLink, ShutDown,
         CloseNext, DestroyNext, vars, ConnType, Goto, Proc
<1>4. ASSUME NEW c \in Conn PROVE registered'[c] => registered[c]
  BY DEF Connect, AcceptRaises, Closed, ReceiveCommand, Hangup, LoseLink, ShutDown,
         CloseNext, DestroyNext, vars, Unregister, registryVars
<1>5. ASSUME NEW c \in Conn PROVE link'[c] = "open" => link[c] = "open"
  BY DEF Connect, AcceptRaises, Closed, ReceiveCommand, Hangup, LoseLink, ShutDown,
         CloseNext, DestroyNext, vars, ConnType
<1>6. ASSUME NEW c \in Conn PROVE state'[c] = "connected" => state[c] = "connected"
  BY DEF Connect, AcceptRaises, Closed, ReceiveCommand, Hangup, LoseLink, ShutDown,
         CloseNext, DestroyNext, vars, BookInv, SendInv
<1>7. \A c \in Conn : Hears(c)' => Hears(c)
  BY <1>1, <1>4, <1>5, <1>6 DEF Hears
<1>8. QED
  BY <1>1, <1>2, <1>3, <1>7, SilenceKeepsStory

\* A leg, whoever takes it.
LEMMA LegKeepsStory ==
    ASSUME ConnInv, BookInv, StoryInv, UNCHANGED <<sid, link, missed>>,
           emitted \in [Sim -> Nat], emitted' \in [Sim -> Nat],
           \A s \in Sim : emitted[s] <= emitted'[s],
           NEW p \in Proc, pc[p] \notin {"off", "accepting"},
           NEW m \in Message, NEW rest \in Seq(Conn), NoRepeats(rest),
           NEW failed, NEW busy \in SendPc, p \in Task => busy = "telling",
           Proceed(p, m, rest, failed, busy), MayStart(p, m, rest),
           \/ Continues(p, m, rest) \/ Answers(p, m)
           \/ \E s \in Sim : Announces(p, m, rest, s)
    PROVE  StoryInv' /\ Feed!Next
<1> USE DEF ConnInv
<1>1. PICK gone, next : Leg(p, m, rest, gone, next)
  BY LegEffect DEF BookInv
<1>2. /\ \A q \in Proc : q # p => pc'[q] = pc[q]
      /\ pc'[p] \notin {"off", "accepting"}
  BY ProceedStep
<1>3. GoesOn
  BY <1>2 DEF GoesOn, Proc
<1>4. OrderInv'
  BY <1>1, <1>3, LegKeepsOrder DEF StoryInv, BookInv
<1>5. NewsInv'
  BY <1>1, <1>3, LegKeepsNews DEF StoryInv, BookInv
<1>6. MissedInv'
  <2> SUFFICES ASSUME NEW c \in Conn, NEW n \in missed[c]
               PROVE  pc'[c] \notin {"off", "accepting"} /\ n <= emitted'[sid'[c]]
    BY DEF MissedInv
  <2>1. /\ pc[c] \notin {"off", "accepting"} /\ n <= emitted[sid[c]]
        /\ sid[c] \in Sim /\ n \in Nat
    BY DEF StoryInv, MissedInv, PlaceInv, BookInv, SendInv
  <2>2. QED
    BY <1>3, <2>1 DEF GoesOn
<1>7. Feed!Next
  BY <1>1, <1>2, <1>3, LegIsFeedStep DEF StoryInv, BookInv
<1>8. QED
  BY <1>4, <1>5, <1>6, <1>7 DEF StoryInv

LEMMA SendsKeepStory ==
    ASSUME ListInv, ConnInv, BookInv, StoryInv,
           NEW p \in Proc, SendReturns(p) \/ SendRaises(p)
    PROVE  StoryInv' /\ Feed!Next
<1> USE DEF ConnInv
<1>1. /\ Sending(p) /\ pc[p] \in SendPc
      /\ p \in Task => pc[p] = "telling"
      /\ UNCHANGED <<sid, link, missed, emitted>>
  BY DEF PlaceInv, SendReturns, SendRaises, SendPc, timelineVars
<1>2. PICK failed : Proceed(p, out[p], Tail(todo[p]), failed, pc[p])
  BY DEF SendReturns, SendRaises
<1>3. /\ todo[p] \in Seq(Conn) /\ todo[p] # <<>> /\ UnderWay(p)
      /\ out[p] \in Message
  BY <1>1 DEF BookInv, SendInv, StoryInv, OrderInv, ConnType, Sending
<1>4. /\ Tail(todo[p]) \in Seq(Conn) /\ NoRepeats(Tail(todo[p]))
      /\ Members(Tail(todo[p])) \subseteq Members(todo[p])
  BY <1>3, TailOfList DEF UnderWay
<1>5. MayStart(p, out[p], Tail(todo[p]))
  BY <1>1, <1>3, <1>4 DEF MayStart, UnderWay
<1>6. Continues(p, out[p], Tail(todo[p]))
  BY <1>1 DEF Continues
<1>7. /\ emitted \in [Sim -> Nat] /\ emitted' \in [Sim -> Nat]
      /\ \A s \in Sim : emitted[s] <= emitted'[s]
  BY <1>1 DEF ListInv
<1>8. pc[p] \notin {"off", "accepting"}
  BY <1>1 DEF SendPc
<1>9. QED
  BY <1>1, <1>2, <1>3, <1>4, <1>5, <1>6, <1>7, <1>8, LegKeepsStory

\* Who is in a session has been accepted, and has not heard of what is to come.
LEMMA SessionsHaveBegun ==
    ASSUME ConnInv, BookInv, StoryInv, NEW s \in Sim
    PROVE  /\ sessions[s] \in Seq(Conn) /\ NoRepeats(sessions[s])
           /\ \A c \in Members(sessions[s]) :
                /\ c \in Conn /\ sid[c] = s /\ pc[c] \notin {"off", "accepting"}
                /\ \A i \in DOMAIN wire[c] :
                     IsTale(wire[c][i]) =>
                        Tells(wire[c][i]) <= emitted[s] /\ Tells(wire[c][i]) \in Nat
<1> USE DEF ConnInv
<1>1. sessions[s] \in Seq(Conn) /\ NoRepeats(sessions[s])
  BY DEF BookInv, RegistryInv, RegistriesAgree
<1>2. ASSUME NEW c \in Members(sessions[s])
      PROVE  c \in Conn /\ sid[c] = s /\ pc[c] \notin {"off", "accepting"}
  BY <1>2 DEF BookInv, RegistryInv, RegistriesAgree, OutsideInv
<1>3. ASSUME NEW c \in Members(sessions[s]), NEW i \in DOMAIN wire[c],
             IsTale(wire[c][i])
      PROVE  Tells(wire[c][i]) <= emitted[s] /\ Tells(wire[c][i]) \in Nat
  <2>1. wire[c][i] \in Message
    BY <1>2, <1>3 DEF ConnType
  <2>2. QED
    BY <1>2, <1>3, <2>1, TellsType DEF StoryInv, OrderInv
<1>4. QED
  BY <1>1, <1>2, <1>3

LEMMA EmitsKeepStory ==
    ASSUME ListInv, ConnInv, BookInv, StoryInv, NEW p \in Proc,
           (p \in Task /\ Emit(p)) \/ (p \in Conn /\ CommandEmits(p))
    PROVE  StoryInv' /\ Feed!Next
<1> USE DEF ConnInv
<1>1. /\ UNCHANGED <<sid, link, missed>>
      /\ pc[p] \in {"idle", "working"}
  BY DEF Emit, CommandEmits
<1>2. PICK s \in Sim : EmitFrom(p, s)
  <2>1. CASE p \in Task /\ Emit(p)
    BY <2>1 DEF Emit
  <2>2. CASE p \in Conn /\ CommandEmits(p)
    BY <2>2 DEF CommandEmits, PlaceInv
  <2>3. QED
    BY <2>1, <2>2
<1>3. /\ emitted \in [Sim -> Nat] /\ emitted' = [emitted EXCEPT ![s] = @ + 1]
      /\ emitted'[s] = emitted[s] + 1 /\ emitted[s] \in Nat
      /\ Proceed(p, Event(emitted'[s], p), sessions[s], {}, "telling")
  BY <1>2 DEF EmitFrom, Record, ListInv
<1> DEFINE m == Event(emitted[s] + 1, p)
<1>4. /\ m \in Message /\ m.kind = "event" /\ m.n = emitted[s] + 1 /\ m.by = p
      /\ Proceed(p, m, sessions[s], {}, "telling")
  BY <1>3 DEF Event, Message
<1>5. ~Sending(p)
  BY <1>1, NotSending DEF SendPc
<1>6. Announces(p, m, sessions[s], s)
  BY <1>3, <1>5 DEF Announces
<1> HIDE DEF m
<1>7. MayStart(p, m, sessions[s])
  <2>1. /\ \A c \in Members(sessions[s]) :
             /\ c \in Conn /\ sid[c] = s /\ pc[c] \notin {"off", "accepting"}
             /\ \A i \in DOMAIN wire[c] :
                  IsTale(wire[c][i]) =>
                     Tells(wire[c][i]) <= emitted[s] /\ Tells(wire[c][i]) \in Nat
    BY SessionsHaveBegun
  <2>2. Tells(m) = emitted[s] + 1
    BY <1>4 DEF Tells
  <2>3. ASSUME NEW c \in Members(sessions[s])
        PROVE  Tells(m) <= emitted'[sid[c]] /\ IsFresh(c, m)
    <3>1. Tells(m) <= emitted'[sid[c]]
      BY <1>3, <2>1, <2>2
    <3>2. ASSUME NEW i \in DOMAIN wire[c], IsTale(wire[c][i])
          PROVE  /\ Tells(wire[c][i]) <= Tells(m)
                 /\ wire[c][i].kind = "event" => wire[c][i].n # m.n
      <4>1. Tells(wire[c][i]) <= emitted[s] /\ Tells(wire[c][i]) \in Nat
        BY <2>1, <3>2
      <4>2. wire[c][i].kind = "event" => Tells(wire[c][i]) = wire[c][i].n
        BY DEF Tells
      <4>3. QED
        BY <1>3, <1>4, <2>2, <4>1, <4>2
    <3>3. QED
      BY <3>1, <3>2 DEF IsFresh, MayFollow
  <2>4. QED
    BY <1>4, <2>1, <2>3 DEF MayStart
<1>8. /\ emitted' \in [Sim -> Nat]
      /\ \A r \in Sim : emitted[r] <= emitted'[r]
  <2>1. \A r \in Sim : emitted'[r] = IF r = s THEN emitted[s] + 1 ELSE emitted[r]
    BY <1>3
  <2>2. QED
    BY <1>3, <2>1
<1>9. sessions[s] \in Seq(Conn) /\ NoRepeats(sessions[s])
  BY SessionsHaveBegun
<1>10. "telling" \in SendPc
  BY DEF SendPc
<1>11. QED
  BY <1>1, <1>3, <1>4, <1>6, <1>7, <1>8, <1>9, <1>10, LegKeepsStory

LEMMA AnswersKeepStory ==
    ASSUME ListInv, ConnInv, BookInv, StoryInv, NEW c \in Conn,
           ReceiveInvalid(c) \/ ReceiveQuery(c) \/ CommandReturns(c)
    PROVE  StoryInv' /\ Feed!Next
<1> USE DEF ConnInv
<1>1. /\ UNCHANGED <<sid, link, missed, emitted>>
      /\ pc[c] \in {"receiving", "working"} /\ c \in Proc /\ c \notin Task
  BY ObserverAssumption
  DEF ReceiveInvalid, ReceiveQuery, CommandReturns, Receives, timelineVars, Proc
<1>2. ~Sending(c) /\ "answering" \in SendPc
  BY <1>1, NotSending DEF SendPc
<1>3. /\ emitted \in [Sim -> Nat] /\ emitted' \in [Sim -> Nat]
      /\ \A s \in Sim : emitted[s] <= emitted'[s]
  BY <1>1 DEF ListInv
<1>4. Notice \in Message /\ Notice.kind = "notice"
  BY DEF Message, Notice
<1>5. CASE ReceiveInvalid(c)
  <2> DEFINE m == Notice
  <2>1. Proceed(c, m, <<c>>, {}, "answering")
    BY <1>5 DEF ReceiveInvalid
  <2>2. <<c>> \in Seq(Conn) /\ NoRepeats(<<c>>) /\ Members(<<c>>) = {c}
    BY DEF NoRepeats, Members
  <2>3. m \in Message /\ m.kind = "notice"
    BY <1>4
  <2> HIDE DEF m
  <2>4. MayStart(c, m, <<c>>) /\ Answers(c, m)
    BY <1>1, <1>2, <2>2, <2>3 DEF MayStart, IsTale, Answers
  <2>5. QED
    BY <1>1, <1>2, <1>3, <2>1, <2>2, <2>3, <2>4, LegKeepsStory
<1>6. ASSUME NEW s \in Sim,
             NEW m \in {Notice, State(c, s)},
             Proceed(c, m, sessions[s], {}, "answering")
      PROVE  StoryInv' /\ Feed!Next
  <2>1. /\ m \in Message /\ m.kind # "event"
        /\ m.kind = "state" => m.by = c /\ m.version = emitted[s]
    BY <1>4, SnapshotType DEF State
  <2>2. Answers(c, m)
    BY <1>1, <1>2, <2>1 DEF Answers
  <2>3. /\ sessions[s] \in Seq(Conn) /\ NoRepeats(sessions[s])
        /\ \A d \in Members(sessions[s]) :
             /\ d \in Conn /\ sid[d] = s /\ pc[d] \notin {"off", "accepting"}
             /\ \A i \in DOMAIN wire[d] :
                  IsTale(wire[d][i]) =>
                     Tells(wire[d][i]) <= emitted[s] /\ Tells(wire[d][i]) \in Nat
    BY SessionsHaveBegun
  <2>4. ASSUME IsTale(m), NEW d \in Members(sessions[s])
        PROVE  m.by = c /\ Tells(m) <= emitted'[sid[d]] /\ IsFresh(d, m)
    <3>1. m.kind = "state" /\ m.by = c /\ Tells(m) = emitted[s] /\ emitted[s] \in Nat
      BY <1>3, <2>1, <2>4 DEF IsTale, Tells
    <3>2. Tells(m) <= emitted'[sid[d]]
      BY <1>1, <2>3, <3>1
    <3>3. IsFresh(d, m)
      BY <2>1, <2>3, <3>1 DEF IsFresh, MayFollow
    <3>4. QED
      BY <3>1, <3>2, <3>3
  <2>5. IsTale(m) => m.by = c
    BY <2>1 DEF IsTale
  <2>6. MayStart(c, m, sessions[s])
    BY <2>3, <2>4, <2>5 DEF MayStart
  <2>7. QED
    BY <1>1, <1>2, <1>3, <1>6, <2>1, <2>2, <2>3, <2>6, LegKeepsStory
<1>7. CASE ReceiveQuery(c)
  BY <1>6, <1>7 DEF ReceiveQuery
<1>8. CASE CommandReturns(c)
  <2>1. about[c] \in Sim
    BY <1>8 DEF CommandReturns, PlaceInv
  <2>2. QED
    BY <1>6, <1>8, <2>1 DEF CommandReturns
<1>9. QED
  BY <1>5, <1>7, <1>8

\* The snapshot ends with the newest event there is.
LEMMA SnapshotIsCurrent ==
    ASSUME ListInv, NEW s \in Sim, Known(s)
    PROVE  Last(ListItems(s, SnapshotLimit)) = emitted[s]
<1> DEFINE n == emitted[s]
           q == items[s]
           k == Clamp(SnapshotLimit)
<1>1. n \in Nat \ {0} /\ q = Window(n) /\ k \in Nat \ {0}
  BY TimelineAssumption, ObserverAssumption DEF ListInv, Known, Clamp
<1>2. q \in Seq(Nat) /\ Len(q) = Width(n) /\ Width(n) \in Nat \ {0}
  BY <1>1, WindowType, TimelineAssumption DEF Width
<1>3. q[Len(q)] = n
  BY <1>1, <1>2 DEF Window
<1>4. ListItems(s, SnapshotLimit) = Newest(q, k)
  BY DEF ListItems
<1> HIDE DEF n, q, k
<1>5. CASE Len(q) <= k
  BY <1>3, <1>4, <1>5 DEF Newest, Last, n
<1>6. CASE ~(Len(q) <= k)
  <2> DEFINE r == SubSeq(q, Len(q) - k + 1, Len(q))
  <2>1. Newest(q, k) = r
    BY <1>6 DEF Newest
  <2>2. /\ Len(q) - k + 1 \in 1 .. Len(q)
        /\ \A i \in Len(q) - k + 1 .. Len(q) : q[i] \in Nat
    BY <1>1, <1>2, <1>6
  <2>3. /\ Len(r) = k
        /\ \A i \in 1 .. k : r[i] = q[Len(q) - k + i]
    <3> DEFINE a == Len(q) - k + 1
    <3>1. a \in Int /\ Len(q) \in Int /\ a <= Len(q) /\ Len(q) - a + 1 = k
      BY <1>1, <1>2, <2>2
    <3>2. \A i \in 1 .. k : a + i - 1 = Len(q) - k + i
      BY <1>1, <1>2
    <3> HIDE DEF a
    <3>3. r = SubSeq(q, a, Len(q)) /\ \A i \in a .. Len(q) : q[i] \in Nat
      BY <2>2 DEF a
    <3>4. /\ Len(r) = Len(q) - a + 1
          /\ \A i \in 1 .. Len(q) - a + 1 : r[i] = q[a + i - 1]
      BY <3>1, <3>3, SubSeqProperties
    <3>5. QED
      BY <3>1, <3>2, <3>4
  <2> HIDE DEF r
  <2>4. r[k] = q[Len(q)]
    BY <1>1, <1>2, <2>3
  <2>5. QED
    BY <1>3, <1>4, <2>1, <2>3, <2>4 DEF Last, n
<1>7. QED
  BY <1>5, <1>6

\* accept registers a connection that is in no broadcast and has heard nothing,
\* and shows it all there is.
LEMMA AcceptKeepsStory ==
    ASSUME ListInv, ConnInv, BookInv, StoryInv, NEW c \in Conn, Accept(c)
    PROVE  StoryInv'
<1> USE DEF ConnInv
<1> DEFINE s == sid[c]
           m == IF Known(s) THEN Connected(s) ELSE [kind |-> "error"]
<1>1. /\ pc[c] = "accepting" /\ c \in Proc /\ s \in Sim
      /\ todo' = [todo EXCEPT ![c] = <<c>>] /\ out' = [out EXCEPT ![c] = m]
      /\ wire' = Written(c, m)
      /\ pc' = [pc EXCEPT ![c] = IF Known(s) THEN "greeting" ELSE "rejecting"]
      /\ registered' = [registered EXCEPT ![c] = TRUE]
      /\ state' = [state EXCEPT ![c] = "connected"]
      /\ UNCHANGED <<sid, link, missed, emitted>>
  BY DEF Accept, Register, Goto, timelineVars, PlaceInv, Proc
<1>2. /\ m \in Message /\ m.kind \in {"connected", "error"}
      /\ m.kind = "connected" =>
            Known(s) /\ m.recent = ListItems(s, SnapshotLimit)
  <2>1. [kind |-> "error"] \in Message
    BY DEF Message
  <2>2. QED
    BY <1>1, <2>1, SnapshotType DEF Connected
<1> HIDE DEF m
<1>3. /\ todo'[c] = <<c>> /\ out'[c] = m
      /\ \A q \in Proc : q # c => todo'[q] = todo[q] /\ out'[q] = out[q]
  BY <1>1 DEF BookInv, SendInv, ConnType
<1>4. /\ pc'[c] \notin {"off", "accepting"}
      /\ \A d \in Conn : d # c => /\ pc'[d] = pc[d] /\ registered'[d] = registered[d]
                                  /\ state'[d] = state[d]
  BY <1>1 DEF BookInv, SendInv, ConnType, Proc
<1>5. /\ wire[c] = <<>> /\ ~Sending(c)
      /\ \A d \in Conn : d # c => wire'[d] = wire[d]
      /\ wire'[c] = IF link[c] = "open" THEN <<m>> ELSE <<>>
  <2>1. wire[c] = <<>>
    BY <1>1 DEF GreetInv
  <2>2. ~Sending(c)
    BY <1>1, NotSending DEF SendPc
  <2>3. Append(wire[c], m) = <<m>>
    BY <2>1
  <2>4. QED
    BY <1>1, <2>1, <2>2, <2>3 DEF Written, ConnType
<1>6. ASSUME NEW q \in Proc, q # c, Sending(q)
      PROVE  /\ UnderWay(q) /\ c \notin Members(todo[q])
             /\ Members(todo[q]) \subseteq Conn
             /\ Members(Tail(todo[q])) \subseteq Members(todo[q])
  <2>1. UnderWay(q) /\ todo[q] \in Seq(Conn) /\ todo[q] # <<>>
    BY <1>6 DEF StoryInv, OrderInv, BookInv, SendInv
  <2>2. QED
    BY <1>1, <2>1, TailOfList DEF UnderWay
<1>7. Members(<<c>>) = {c} /\ NoRepeats(<<c>>) /\ Members(Tail(<<c>>)) = {}
  <2>1. Tail(<<c>>) = <<>>
    OBVIOUS
  <2>2. QED
    BY <2>1 DEF Members, NoRepeats
<1>8. OrderInv'
  <2>1. ASSUME NEW q \in Proc, Sending(q)' PROVE UnderWay(q)'
    <3>1. CASE q = c
      BY <1>2, <1>3, <1>4, <1>7, <3>1 DEF UnderWay, IsTale
    <3>2. CASE q # c
      <4>1. Sending(q) /\ out'[q] = out[q] /\ todo'[q] = todo[q]
        BY <1>3, <2>1, <3>2 DEF Sending
      <4>2. /\ UnderWay(q) /\ c \notin Members(todo[q])
            /\ Members(todo[q]) \subseteq Conn
            /\ Members(Tail(todo[q])) \subseteq Members(todo[q])
        BY <1>6, <3>2, <4>1
      <4>3. \A d \in Members(todo[q]) : /\ pc'[d] = pc[d] /\ wire'[d] = wire[d]
                                        /\ emitted'[sid'[d]] = emitted[sid[d]]
        BY <1>1, <1>4, <1>5, <4>2
      <4>4. QED
        BY <4>1, <4>2, <4>3 DEF UnderWay, IsFresh
    <3>3. QED
      BY <3>1, <3>2
  <2>2. ASSUME NEW d \in Conn, NEW i \in DOMAIN wire'[d], IsTale(wire'[d][i])
        PROVE  Tells(wire'[d][i]) <= emitted'[sid'[d]]
    <3>1. d # c
      BY <1>2, <1>5, <2>2 DEF IsTale
    <3>2. QED
      BY <1>1, <1>5, <2>2, <3>1 DEF StoryInv, OrderInv
  <2>3. ASSUME NEW d \in Conn PROVE WireInOrder(wire'[d])
    <3>1. CASE d = c
      BY <1>5, <3>1 DEF WireInOrder
    <3>2. CASE d # c
      BY <1>5, <3>2, OrderOfWires DEF StoryInv, OrderInv
    <3>3. QED
      BY <3>1, <3>2
  <2>4. EachSourceInOrder'
    BY <2>3 DEF EachSourceInOrder, WireInOrder, MayFollow, IsTale
  <2>5. QED
    BY <2>1, <2>2, <2>4 DEF OrderInv
<1>9. NewsInv'
  <2> SUFFICES ASSUME NEW d \in Conn, Hears(d)'
               PROVE  /\ Shown(d)' \in Nat /\ Shown(d)' <= emitted'[sid'[d]]
                      /\ \A n \in 1 .. emitted'[sid'[d]] : NewsOf(d, n)'
    BY DEF NewsInv
  <2>1. ASSUME NEW n PROVE Owing(d, n)' = Owing(d, n) \ {c}
    <3>1. ASSUME NEW q \in Proc PROVE Owes(q, d, n)' <=> Owes(q, d, n) /\ q # c
      <4>1. CASE q = c
        BY <1>2, <1>3, <4>1 DEF Owes, IsEvent
      <4>2. CASE q # c
        BY <1>3, <4>2 DEF Owes, Sending
      <4>3. QED
        BY <4>1, <4>2
    <3>2. QED
      BY <3>1 DEF Owing
  <2>2. ASSUME NEW n PROVE c \notin Owing(d, n)
    BY <1>5 DEF Owing, Owes
  <2>3. CASE d = c
    <3>1. wire'[c] = <<m>> /\ m.kind \in {"connected", "error"}
      BY <1>1, <1>2, <1>5, <2>3 DEF Hears
    <3>2. Shown(c)' = emitted[s] /\ emitted[s] \in Nat
      <4>1. emitted[s] \in Nat
        BY <1>1 DEF ListInv
      <4>2. Shown(c)' = IF m.kind = "connected" THEN Last(m.recent) ELSE 0
        BY <3>1 DEF Shown, ShownTo
      <4>3. m.kind = "connected" => Last(m.recent) = emitted[s]
        BY <1>1, <1>2, SnapshotIsCurrent
      <4>4. m.kind = "error" => emitted[s] = 0
        BY <4>1 DEF m, Known, Connected
      <4>5. QED
        BY <3>1, <4>1, <4>2, <4>3, <4>4
    <3>3. ASSUME NEW n PROVE Told(c, n)' = {} /\ Owing(c, n)' = {}
      <4>1. Told(c, n)' = {}
        BY <3>1 DEF Told, IsEvent
      <4>2. Owing(c, n) = {}
        <5>1. ASSUME NEW q \in Proc, Owes(q, c, n) PROVE FALSE
          <6>1. q # c /\ Sending(q) /\ c \in Members(Tail(todo[q]))
            BY <1>5, <5>1 DEF Owes
          <6>2. QED
            BY <1>6, <6>1
        <5>2. QED
          BY <5>1 DEF Owing
      <4>3. QED
        BY <2>1, <2>3, <4>1, <4>2
    <3>4. ASSUME NEW n \in 1 .. emitted[s] PROVE NewsOf(c, n)'
      <4>1. ~IsNews(c, n)'
        BY <3>2 DEF IsNews
      <4>2. QED
        BY <3>3, <4>1 DEF NewsOf
    <3>5. emitted'[sid'[c]] = emitted[s]
      BY <1>1
    <3>6. QED
      BY <2>3, <3>2, <3>4, <3>5
  <2>4. CASE d # c
    <3>1. /\ Hears(d) /\ Shown(d)' = Shown(d)
          /\ emitted'[sid'[d]] = emitted[sid[d]]
      BY <1>1, <1>4, <1>5, <2>4 DEF Hears, Shown, ShownTo
    <3>2. /\ Shown(d) \in Nat /\ Shown(d) <= emitted[sid[d]]
          /\ \A n \in 1 .. emitted[sid[d]] : NewsOf(d, n)
      BY <3>1 DEF StoryInv, NewsInv
    <3>3. ASSUME NEW n \in 1 .. emitted[sid[d]] PROVE NewsOf(d, n)'
      <4>1. Owing(d, n)' = Owing(d, n)
        BY <2>1, <2>2
      <4>2. Told(d, n)' = Told(d, n)
        BY <1>5, <2>4 DEF Told
      <4>3. NewsOf(d, n)
        BY <3>2
      <4>4. QED
        BY <1>1, <3>1, <4>1, <4>2, <4>3 DEF NewsOf, IsNews
    <3>4. QED
      BY <3>1, <3>2, <3>3
  <2>5. QED
    BY <2>3, <2>4
<1>10. MissedInv'
  BY <1>1, <1>4 DEF StoryInv, MissedInv
<1>11. QED
  BY <1>8, <1>9, <1>10 DEF StoryInv

\* accept greets with all there is.
LEMMA AcceptShowsAll ==
    ASSUME ListInv, ConnInv, NEW c \in Conn, Accept(c), link[c] = "open"
    PROVE  /\ Len(wire'[c]) = 1 /\ wire'[c] # <<>>
           /\ ShownTo(c)' = emitted[sid[c]]
<1> USE DEF ConnInv
<1> DEFINE s == sid[c]
           m == IF Known(s) THEN Connected(s) ELSE [kind |-> "error"]
<1>1. s \in Sim /\ wire[c] = <<>> /\ emitted[s] \in Nat
  BY DEF Accept, PlaceInv, GreetInv, ListInv
<1>2. wire'[c] = <<m>>
  BY <1>1 DEF Accept, Written, ConnType
<1>3. CASE Known(s)
  <2>1. m.kind = "connected" /\ m.recent = ListItems(s, SnapshotLimit)
    BY <1>3 DEF Connected
  <2>2. QED
    BY <1>1, <1>2, <1>3, <2>1, SnapshotIsCurrent DEF ShownTo
<1>4. CASE ~Known(s)
  <2>1. m.kind = "error" /\ emitted[s] = 0
    BY <1>1, <1>4 DEF Known
  <2>2. QED
    BY <1>2, <2>1 DEF ShownTo
<1>5. QED
  BY <1>2, <1>3, <1>4

LEMMA AcceptIsFeedStep ==
    ASSUME ListInv, ConnInv, ConnType', NEW c \in Conn, Accept(c)
    PROVE  Feed!Next
<1> USE DEF ConnInv
<1>1. /\ pc[c] = "accepting" /\ UNCHANGED <<sid, link, emitted>>
      /\ \A d \in Conn : d # c => /\ registered'[d] = registered[d]
                                  /\ pc'[d] = pc[d] /\ wire'[d] = wire[d]
      /\ registered'[c]
      /\ link[c] # "open" => wire'[c] = wire[c]
  BY DEF Accept, Register, Goto, Written, ConnType, timelineVars, Proc
<1>2. ~registered[c] /\ sid[c] \in Sim /\ wire[c] = <<>>
  BY <1>1 DEF OutsideInv, PlaceInv, GreetInv
<1>3. FeedOf(c)' \in {<<>>, <<Feed!Snapshot(emitted[sid[c]])>>}
  <2>1. CASE link[c] = "open"
    <3>1. /\ Len(wire'[c]) = 1 /\ wire'[c] # <<>>
          /\ ShownTo(c)' = emitted[sid[c]]
      BY <2>1, AcceptShowsAll
    <3> DEFINE e == [kind |-> "snapshot", n |-> ShownTo(c)']
    <3>2. FeedOf(c)' = [i \in 1 .. Len(wire'[c]) |->
                            IF i = 1 THEN e ELSE ItemOf(wire'[c][i])]
      BY DEF FeedOf, ItemOf
    <3> HIDE DEF e
    <3>3. FeedOf(c)' = <<e>>
      BY <3>1, <3>2
    <3>4. QED
      BY <3>1, <3>3 DEF e, Feed!Snapshot
  <2>2. CASE link[c] # "open"
    BY <1>1, <1>2, <2>2, FeedFacts
  <2>3. QED
    BY <2>1, <2>2
<1>4. Feed!Joins(c)
  <2>1. PhaseOf(c) = "new" /\ PhaseOf(c)' = "following"
    BY <1>1, <1>2 DEF PhaseOf
  <2>2. QED
    BY <1>1, <1>2, <1>3, <2>1 DEF Feed!Joins
<1>5. ASSUME NEW d \in Conn, d # c PROVE Feed!Same(d)
  BY <1>1, <1>5, NothingHeard
<1>6. QED
  BY <1>1, <1>4, <1>5 DEF Feed!Next, Feed!Emits

\* Who asks has asked for nothing before; who ends leaves; nothing else is seen.
LEMMA SilentStepIsFeedStep ==
    ASSUME ConnInv,
           \/ \E c \in Conn : \/ Connect(c) \/ AcceptRaises(c) \/ Closed(c)
                              \/ ReceiveCommand(c) \/ Hangup(c) \/ LoseLink(c)
           \/ ShutDown \/ CloseNext \/ DestroyNext
           \/ UNCHANGED vars
    PROVE  Feed!Next
<1> USE DEF ConnInv
<1>1. UNCHANGED <<wire, emitted>>
  BY DEF Connect, AcceptRaises, Closed, ReceiveCommand, Hangup, LoseLink, ShutDown,
         CloseNext, DestroyNext, vars, timelineVars
<1>2. ASSUME NEW d \in Conn, sid'[d] = sid[d], registered'[d] => registered[d],
             pc[d] \notin {"off", "accepting"} => pc'[d] \notin {"off", "accepting"},
             pc[d] \in {"off", "accepting"} /\ pc'[d] \notin {"off", "accepting"}
                => pc'[d] = "done",
             pc'[d] = "done" => ~registered'[d]
      PROVE  Feed!Same(d) \/ Feed!Leaves(d)
  <2>1. registered[d] => pc[d] \notin {"off", "accepting"}
    BY DEF OutsideInv
  <2>2. CASE registered'[d] <=> registered[d]
    <3>1. CASE pc'[d] \in {"off", "accepting"} <=> pc[d] \in {"off", "accepting"}
      BY <1>1, <1>2, <2>2, <3>1, NothingHeard
    <3>2. CASE pc[d] \in {"off", "accepting"} /\ pc'[d] \notin {"off", "accepting"}
      BY <1>1, <1>2, <2>2, <3>2, NothingMore
    <3>3. QED
      BY <1>2, <3>1, <3>2
  <2>3. CASE registered[d] /\ ~registered'[d]
    BY <1>1, <1>2, <2>1, <2>3, NothingMore
  <2>4. QED
    BY <1>2, <2>2, <2>3
<1>3. ASSUME NEW c \in Conn, Connect(c) PROVE Feed!Next
  <2>1. /\ pc[c] = "off" /\ pc' = [pc EXCEPT ![c] = "accepting"]
        /\ registered' = registered /\ sid'[c] \in Sim
        /\ \A d \in Conn : d # c => sid'[d] = sid[d]
    BY <1>3 DEF Connect, Goto, registryVars, ConnType
  <2>2. /\ sid[c] = None /\ ~registered[c] /\ pc'[c] = "accepting"
        /\ \A d \in Conn : d # c => pc'[d] = pc[d]
    BY <2>1 DEF PlaceInv, OutsideInv, ConnType, Proc
  <2>3. Feed!Asks(c)
    <3>1. FeedOf(c)' = FeedOf(c)
      BY <1>1, FeedFacts
    <3>2. PhaseOf(c) = "new" /\ PhaseOf(c)' = "new"
      BY <2>1, <2>2 DEF PhaseOf
    <3>3. QED
      BY <2>1, <2>2, <3>1, <3>2 DEF Feed!Asks
  <2>4. ASSUME NEW d \in Conn, d # c PROVE Feed!Same(d)
    BY <1>1, <2>1, <2>2, <2>4, NothingHeard
  <2>5. QED
    BY <1>1, <2>3, <2>4 DEF Feed!Next, Feed!Emits
<1>4. ASSUME \/ \E c \in Conn : \/ AcceptRaises(c) \/ Closed(c)
                                \/ ReceiveCommand(c) \/ Hangup(c) \/ LoseLink(c)
             \/ ShutDown \/ CloseNext \/ DestroyNext
             \/ UNCHANGED vars
      PROVE  Feed!Next
  <2>1. ASSUME NEW d \in Conn
        PROVE  /\ sid'[d] = sid[d] /\ (registered'[d] => registered[d])
               /\ pc'[d] = pc[d] \/ pc'[d] = "working"
                    \/ (pc'[d] = "done" /\ ~registered'[d])
               /\ pc'[d] = "working" => pc[d] \notin {"off", "accepting"}
    BY <1>4
    DEF AcceptRaises, Closed, ReceiveCommand, Receives, Hangup, LoseLink, ShutDown,
        CloseNext, DestroyNext, vars, ConnType, Goto, Proc, registryVars, Unregister,
        OutsideInv
  <2>2. ASSUME NEW d \in Conn PROVE Feed!Same(d) \/ Feed!Leaves(d)
    BY <1>2, <2>1 DEF OutsideInv
  <2>3. QED
    BY <1>1, <2>2 DEF Feed!Next, Feed!Emits
<1>5. QED
  BY <1>3, <1>4

\* A cancelled broadcast takes nothing back; what it still owed is missed.
LEMMA CancelKeepsStory ==
    ASSUME ListInv, ConnInv, BookInv, StoryInv, NEW l \in Loop, Cancel(l)
    PROVE  StoryInv' /\ Feed!Next
<1> USE DEF ConnInv
<1>1. /\ Sending(l) /\ pc' = [pc EXCEPT ![l] = "idle"]
      /\ todo' = [todo EXCEPT ![l] = <<>>] /\ out' = [out EXCEPT ![l] = None]
      /\ missed' = [c \in Conn |->
                        missed[c] \cup {n \in Happened : Owes(l, c, n)}]
      /\ UNCHANGED <<emitted, registered, sid, state, link, wire>>
  BY DEF Cancel, Goto, timelineVars, registryVars
<1>2. l \in Proc /\ l \notin Conn
  BY ObserverAssumption DEF Proc
<1>3. /\ out'[l] = None /\ \A c \in Conn : pc'[c] = pc[c]
      /\ \A q \in Proc : q # l => todo'[q] = todo[q] /\ out'[q] = out[q]
  BY <1>1, <1>2 DEF BookInv, SendInv, ConnType, Proc
<1>4. ASSUME NEW q \in Proc, Sending(q)
      PROVE  /\ UnderWay(q) /\ Members(todo[q]) \subseteq Conn
             /\ Members(Tail(todo[q])) \subseteq Members(todo[q])
  <2>1. UnderWay(q) /\ todo[q] \in Seq(Conn) /\ todo[q] # <<>>
    BY <1>4 DEF StoryInv, OrderInv, BookInv, SendInv
  <2>2. QED
    BY <2>1, TailOfList DEF UnderWay
<1>5. OrderInv'
  <2>1. ASSUME NEW q \in Proc, Sending(q)' PROVE UnderWay(q)'
    <3>1. q # l /\ Sending(q) /\ todo'[q] = todo[q] /\ out'[q] = out[q]
      BY <1>3, <2>1 DEF Sending
    <3>2. /\ UnderWay(q) /\ Members(todo[q]) \subseteq Conn
          /\ Members(Tail(todo[q])) \subseteq Members(todo[q])
      BY <1>4, <3>1
    <3>3. QED
      BY <1>1, <1>3, <3>1, <3>2 DEF UnderWay, IsFresh
  <2>2. EachSourceInOrder'
    BY <1>1 DEF StoryInv, OrderInv, EachSourceInOrder
  <2>3. QED
    BY <1>1, <2>1, <2>2 DEF StoryInv, OrderInv
<1>6. NewsInv'
  <2> SUFFICES ASSUME NEW c \in Conn, Hears(c)'
               PROVE  /\ Shown(c)' \in Nat /\ Shown(c)' <= emitted'[sid'[c]]
                      /\ \A n \in 1 .. emitted'[sid'[c]] : NewsOf(c, n)'
    BY DEF NewsInv
  <2>1. Hears(c) /\ sid[c] \in Sim /\ Shown(c)' = Shown(c)
    BY <1>1 DEF Hears, Shown, ShownTo, OutsideInv, PlaceInv
  <2>2. /\ Shown(c) \in Nat /\ Shown(c) <= emitted[sid[c]]
        /\ \A n \in 1 .. emitted[sid[c]] : NewsOf(c, n)
    BY <2>1 DEF StoryInv, NewsInv
  <2>3. ASSUME NEW n \in 1 .. emitted[sid[c]] PROVE NewsOf(c, n)'
    <3>1. n \in Happened
      BY <2>1, HappenedFacts
    <3>2. IsNews(c, n)' <=> IsNews(c, n) /\ ~Owes(l, c, n)
      BY <1>1, <2>1, <3>1 DEF IsNews, BookInv, SendInv
    <3>3. Told(c, n)' = Told(c, n)
      BY <1>1 DEF Told
    <3>4. Owing(c, n)' = Owing(c, n) \ {l}
      BY <1>3 DEF Owing, Owes, Sending
    <3>5. l \in Owing(c, n) <=> Owes(l, c, n)
      BY <1>2 DEF Owing
    <3>6. NewsOf(c, n)
      BY <2>2
    <3>7. CASE Owes(l, c, n)
      <4>1. Told(c, n) = {} /\ Owing(c, n) = {l}
        BY <3>5, <3>6, <3>7 DEF NewsOf, IsOnce
      <4>2. QED
        BY <3>2, <3>3, <3>4, <3>7, <4>1 DEF NewsOf
    <3>8. CASE ~Owes(l, c, n)
      <4>1. Owing(c, n)' = Owing(c, n)
        BY <3>4, <3>5, <3>8
      <4>2. QED
        BY <3>2, <3>3, <3>6, <3>8, <4>1 DEF NewsOf
    <3>9. QED
      BY <3>7, <3>8
  <2>4. QED
    BY <1>1, <2>1, <2>2, <2>3
<1>7. MissedInv'
  <2> SUFFICES ASSUME NEW c \in Conn, NEW n \in missed'[c]
               PROVE  pc'[c] \notin {"off", "accepting"} /\ n <= emitted'[sid'[c]]
    BY DEF MissedInv
  <2>1. CASE n \in missed[c]
    BY <1>1, <1>3, <2>1 DEF StoryInv, MissedInv
  <2>2. CASE Owes(l, c, n)
    <3>1. /\ c \in Members(Tail(todo[l])) /\ IsTale(out[l]) /\ Tells(out[l]) = n
      BY <2>2 DEF Owes, IsEvent, IsTale, Tells
    <3>2. UnderWay(l) /\ Members(Tail(todo[l])) \subseteq Members(todo[l])
      BY <1>1, <1>2, <1>4
    <3>3. QED
      BY <1>1, <1>3, <3>1, <3>2 DEF UnderWay
  <2>3. QED
    BY <1>1, <2>1, <2>2
<1>8. Feed!Next
  <2>1. ASSUME NEW d \in Conn PROVE Feed!Same(d)
    BY <1>1, <1>3, NothingHeard
  <2>2. QED
    BY <1>1, <2>1 DEF Feed!Next, Feed!Emits
<1>9. QED
  BY <1>5, <1>6, <1>7, <1>8 DEF StoryInv

LEMMA InitHasStory == Init => StoryInv
<1> SUFFICES ASSUME Init PROVE StoryInv
  OBVIOUS
<1>1. /\ \A c \in Conn : wire[c] = <<>> /\ ~registered[c]
      /\ \A p \in Proc : ~Sending(p)
  BY DEF Init, Sending
<1>2. OrderInv
  BY <1>1 DEF OrderInv, EachSourceInOrder
<1>3. NewsInv
  BY <1>1 DEF NewsInv, Hears
<1>4. MissedInv
  BY DEF Init, MissedInv
<1>5. QED
  BY <1>2, <1>3, <1>4 DEF StoryInv

LEMMA StepKeepsStory ==
    ObserverInv /\ BookInv /\ StoryInv /\ [Next]_vars => StoryInv' /\ Feed!Next
<1> SUFFICES ASSUME ObserverInv, BookInv, StoryInv, [Next]_vars PROVE StoryInv' /\ Feed!Next
  OBVIOUS
<1>1. ListInv /\ ConnInv
  BY DEF ObserverInv, ConnInv
<1>2. ASSUME NEW p \in Proc, SendReturns(p) \/ SendRaises(p) PROVE StoryInv' /\ Feed!Next
  BY <1>1, <1>2, SendsKeepStory
<1>3. ASSUME NEW t \in Task, Emit(t) PROVE StoryInv' /\ Feed!Next
  BY <1>1, <1>3, EmitsKeepStory DEF Proc
<1>4. ASSUME NEW c \in Conn, Accept(c) PROVE StoryInv' /\ Feed!Next
  BY <1>1, <1>4, AcceptKeepsStory, AcceptIsFeedStep, StepKeepsInv DEF ObserverInv
<1>5. ASSUME NEW c \in Conn, ReceiveInvalid(c) \/ ReceiveQuery(c) \/ CommandReturns(c)
      PROVE  StoryInv' /\ Feed!Next
  BY <1>1, <1>5, AnswersKeepStory
<1>6. ASSUME NEW c \in Conn, CommandEmits(c) PROVE StoryInv' /\ Feed!Next
  BY <1>1, <1>6, EmitsKeepStory DEF Proc
<1>7. ASSUME \/ \E c \in Conn : \/ Connect(c) \/ AcceptRaises(c) \/ Closed(c)
                                \/ ReceiveCommand(c) \/ Hangup(c) \/ LoseLink(c)
             \/ ShutDown \/ CloseNext \/ DestroyNext
             \/ UNCHANGED vars
      PROVE  StoryInv' /\ Feed!Next
  BY <1>1, <1>7, SilentStepsKeepStory, SilentStepIsFeedStep
<1>8. ASSUME NEW l \in Loop, Cancel(l) PROVE StoryInv' /\ Feed!Next
  BY <1>1, <1>8, CancelKeepsStory
<1>9. QED
  BY <1>2, <1>3, <1>4, <1>5, <1>6, <1>7, <1>8 DEF Next

LEMMA StoryIsKept == Spec => [](ObserverInv /\ BookInv /\ StoryInv)
<1>1. ObserverInv /\ [Next]_vars => ObserverInv'
  BY StepKeepsInv
<1>2. QED
  BY <1>1, InitHasInv, InitHasBooks, InitHasStory, StepKeepsBooks, StepKeepsStory,
     PTL DEF Spec

-----------------------------------------------------------------------------
(* What follows from it *)

\* Whatever broadcasts interleave, each observer gets what one coroutine sends
\* in the order it sent it.
THEOREM SourcesStayInOrder == Spec => []EachSourceInOrder
<1>1. StoryInv => EachSourceInOrder
  BY DEF StoryInv, OrderInv
<1>2. QED
  BY <1>1, StoryIsKept, PTL

\* An observer gets every event after its snapshot exactly once, however its
\* arrival, the emits and the broadcasts under way interleave, but for those
\* that a cancelled broadcast had not yet brought to it.
THEOREM NewsArrivesUnlessCancelled == Spec => []NewsOnceUnlessCancelled
<1>1. ASSUME NewsInv, NEW c \in Conn, Hears(c), NEW n \in 1 .. emitted[sid[c]]
      PROVE  Cardinality(Told(c, n)) + Cardinality(Owing(c, n))
                = IF IsNews(c, n) THEN 1 ELSE 0
  <2>1. /\ IsNews(c, n) => IsOnce(Told(c, n), Owing(c, n))
        /\ ~IsNews(c, n) => Told(c, n) = {} /\ Owing(c, n) = {}
    BY <1>1 DEF NewsInv, NewsOf
  <2>2. CASE IsNews(c, n)
    <3> DEFINE told == Told(c, n)
               owing == Owing(c, n)
    <3>1. IsOnce(told, owing)
      BY <2>1, <2>2
    <3> HIDE DEF told, owing
    <3>2. CASE (\E i : told = {i}) /\ owing = {}
      <4>1. Cardinality(told) = 1 /\ Cardinality(owing) = 0
        BY <3>2, FS_EmptySet, FS_Singleton
      <4>2. QED
        BY <2>2, <4>1 DEF told, owing
    <3>3. CASE told = {} /\ \E p : owing = {p}
      <4>1. Cardinality(told) = 0 /\ Cardinality(owing) = 1
        BY <3>3, FS_EmptySet, FS_Singleton
      <4>2. QED
        BY <2>2, <4>1 DEF told, owing
    <3>4. QED
      BY <3>1, <3>2, <3>3 DEF IsOnce
  <2>3. CASE ~IsNews(c, n)
    BY <2>1, <2>3, FS_EmptySet
  <2>4. QED
    BY <2>2, <2>3
<1>2. StoryInv => NewsOnceUnlessCancelled
  BY <1>1 DEF StoryInv, NewsOnceUnlessCancelled, Hears, Told, Owing, IsNews, Shown
<1>3. QED
  BY <1>2, StoryIsKept, PTL

\* The handler keeps the promise of a feed to every observer: it is greeted
\* with all there is, then hears news only, each event once, each source in its
\* order, and nothing once it has been destroyed.
THEOREM EveryoneHasAFeed == Spec => ImplementsFeed
<1>1. Init => Feed!Init
  <2> SUFFICES ASSUME Init PROVE Feed!Init
    OBVIOUS
  <2>1. ASSUME NEW c \in Conn PROVE FeedOf(c) = <<>> /\ PhaseOf(c) = "new"
    <3>1. c \in Proc /\ c \notin Task
      BY ObserverAssumption DEF Proc
    <3>2. wire[c] = <<>> /\ ~registered[c] /\ pc[c] = "off"
      BY <3>1 DEF Init
    <3>3. FeedOf(c) = <<>>
      BY <3>2 DEF FeedOf
    <3>4. QED
      BY <3>2, <3>3 DEF PhaseOf
  <2>2. /\ emitted = [s \in Sim |-> 0] /\ sid = [c \in Conn |-> None]
    BY DEF Init, TimelineInit
  <2>3. QED
    BY <2>1, <2>2 DEF Feed!Init
<1>2. ObserverInv /\ BookInv /\ StoryInv /\ [Next]_vars => [Feed!Next]_(Feed!vars)
  BY StepKeepsStory
<1>3. QED
  BY <1>1, <1>2, StoryIsKept, PTL DEF Spec, ImplementsFeed, Feed!Spec
=============================================================================
