------------------------ MODULE BrokerChannelProofs ------------------------
(***************************************************************************)
(* The channel cache is well typed, a process never holds two connections, *)
(* and picks are lost or refused only for a cause, for any processes,      *)
(* requests and faults.                                                    *)
(***************************************************************************)
EXTENDS BrokerChannel, TLAPS

(* What OneConnection needs to be inductive: a socket goes with every dial *)
(* that may still succeed and every live connection, and with no other.    *)
SocketInv ==
    \A p \in Processes :
      sockets[p] = IF conn[p] \in {"dialing", "open"} THEN 1 ELSE 0

(* What LossNeedsCause needs: what a worker has declared in this process,  *)
(* the broker has.                                                         *)
DeclaredInv == \A w \in Workers : step[w] <= declared

Inv == TypeOK /\ SocketInv /\ DeclaredInv

(* The inventory queue is the second of three declarations.                *)
LEMMA TopologyFacts ==
    /\ Len(Topology) = 3
    /\ \A d \in Nat : d >= 2 /\ d <= 3 =>
         \E i \in 1..d : Topology[i] = "picks.inventory"
<1>1. Len(Topology) = 3 /\ Topology[2] = "picks.inventory"
  BY DEF Topology
<1>2. QED
  BY <1>1

LEMMA InvInit == Init => Inv
<1>1. Len(Topology) = 3
  BY TopologyFacts
<1>2. QED
  BY <1>1, ChannelAssumption
     DEF Init, Inv, TypeOK, SocketInv, DeclaredInv, CacheStates, Processes

(* The end of the connections P, of which Q closes without 'error' and     *)
(* holds no worker, with the loss of some queued picks.                    *)
LEMMA EndsPreserves ==
    ASSUME Inv, NEW P \in SUBSET Processes, NEW Q \in SUBSET P,
           Q \subseteq Apis, NEW gone \in SUBSET queued, Ends(P, Q, gone), up' \in BOOLEAN,
           declared' = declared \/ (declared' = 0 /\ Connected \subseteq P),
           faults' \in 0..MaxFaults
    PROVE  Inv'
<1>1. Len(Topology) = 3
  BY TopologyFacts
<1>2. Apis \cap Workers = {} /\ Apis \subseteq Processes /\ Workers \subseteq Processes
  BY ChannelAssumption DEF Processes
<1>3. declared' \in 0..Len(Topology)
  BY <1>1 DEF Inv, TypeOK
<1>4. /\ conn' \in [Processes -> {"none", "dialing", "open", "closed"}]
      /\ chan' \in [Processes -> {"none", "waiting", "opening", "open", "closed"}]
      /\ \A p \in Processes : <<conn'[p], chan'[p]>> \in CacheStates
  BY <1>2 DEF Inv, TypeOK, Ends, CacheStates
<1>5. sockets' \in [Processes -> Nat] /\ SocketInv'
  BY <1>2 DEF Inv, TypeOK, Ends, SocketInv
<1>6. step' \in [Workers -> 0..Len(Topology)]
  BY <1>1, <1>2 DEF Inv, TypeOK, Ends
<1>7. \A w \in Workers : step'[w] > 0 => chan'[w] = "open" /\ w \notin P
  BY <1>2 DEF Inv, TypeOK, Ends
<1>8. DeclaredInv'
  <2> SUFFICES ASSUME NEW w \in Workers PROVE step'[w] <= declared'
    BY DEF DeclaredInv
  <2>1. CASE w \in P
    BY <2>1, <1>3, <1>1 DEF Ends
  <2>2. CASE w \notin P /\ declared' = declared
    BY <2>2 DEF Ends, Inv, DeclaredInv
  <2>3. CASE w \notin P /\ declared' = 0 /\ Connected \subseteq P
    <3>1. conn[w] # "open"
      BY <2>3, <1>2 DEF Connected
    <3>2. step[w] = 0
      BY <3>1, <1>1, <1>2 DEF Inv, TypeOK, CacheStates
    <3>3. QED
      BY <3>2, <2>3 DEF Ends
  <2>4. QED
    BY <2>1, <2>2, <2>3
<1>9. req' \in [Requests -> {"new", "waiting", "accepted", "refused", "dropped"}]
  BY DEF Inv, TypeOK, Ends
<1>10. home' \in [Requests -> Apis \cup {NoApi}]
  BY DEF Inv, TypeOK, Ends
<1>11. \A r \in Requests :
         req'[r] = "waiting" => home'[r] \in Apis /\ chan'[home'[r]] \in {"waiting", "opening"}
  BY <1>2 DEF Inv, TypeOK, Ends
<1>12. /\ wire' \in [Apis -> SUBSET Requests]
       /\ queued' \subseteq Requests /\ lost' \subseteq Requests
  BY DEF Inv, TypeOK, Ends
<1>13. \A r \in queued' \cup lost' \cup UNION {wire'[a] : a \in Apis} : req'[r] = "accepted"
  <2>1. \A r \in queued \cup lost \cup UNION {wire[a] : a \in Apis} :
          r \in Requests /\ req[r] = "accepted"
    BY DEF Inv, TypeOK
  <2>2. queued' \cup lost' \cup UNION {wire'[a] : a \in Apis}
          \subseteq queued \cup lost \cup UNION {wire[a] : a \in Apis}
    BY DEF Inv, TypeOK, Ends
  <2>3. \A r \in Requests : req[r] = "accepted" => req'[r] = "accepted"
    BY DEF Inv, TypeOK, Ends
  <2>4. QED
    BY <2>1, <2>2, <2>3
<1>14. probe' \in [Apis -> {"none", "waiting", "ok", "error"}]
  BY DEF Inv, TypeOK, Ends
<1>15. \A a \in Apis : probe'[a] = "waiting" => chan'[a] \in {"waiting", "opening"}
  BY <1>2 DEF Inv, TypeOK, Ends
<1>16. QED
  BY <1>3, <1>4, <1>5, <1>6, <1>7, <1>8, <1>9, <1>10, <1>11, <1>12, <1>13,
     <1>14, <1>15 DEF Inv, TypeOK

(* The part of Inv that getChannel touches.                                *)
CacheInv ==
    /\ conn \in [Processes -> {"none", "dialing", "open", "closed"}]
    /\ chan \in [Processes -> {"none", "waiting", "opening", "open", "closed"}]
    /\ \A p \in Processes : <<conn[p], chan[p]>> \in CacheStates
    /\ sockets \in [Processes -> Nat]
    /\ SocketInv

(* Dialling opens the one socket and disturbs no open or pending channel.  *)
LEMMA DialsKeepsCaches ==
    ASSUME Inv, NEW p \in Processes, Dials(p)
    PROVE  /\ CacheInv'
           /\ \A q \in Processes : chan[q] = "open" => chan'[q] = "open"
           /\ \A q \in Processes : chan[q] \in {"waiting", "opening"} =>
                chan'[q] \in {"waiting", "opening"}
           /\ chan'[p] = "waiting"
<1>1. \A q \in Processes : /\ q # p => conn'[q] = conn[q] /\ chan'[q] = chan[q]
                                         /\ sockets'[q] = sockets[q]
                           /\ q = p => conn'[q] = "dialing" /\ chan'[q] = "waiting"
                                         /\ sockets'[q] = sockets[q] + 1
  BY DEF Dials, Inv, TypeOK
<1>2. conn[p] = "none" /\ chan[p] = "none" /\ sockets[p] = 0
  BY DEF Dials, Inv, SocketInv
<1>3. /\ conn' \in [Processes -> {"none", "dialing", "open", "closed"}]
      /\ chan' \in [Processes -> {"none", "waiting", "opening", "open", "closed"}]
      /\ sockets' \in [Processes -> Nat]
  BY DEF Dials, Inv, TypeOK
<1>4. \A q \in Processes : <<conn'[q], chan'[q]>> \in CacheStates
  BY <1>1, <1>2 DEF Inv, TypeOK, CacheStates
<1>5. SocketInv'
  BY <1>1, <1>2 DEF Inv, SocketInv
<1>6. QED
  BY <1>1, <1>2, <1>3, <1>4, <1>5 DEF CacheInv

LEMMA UnchangedKeepsCaches ==
    ASSUME Inv, UNCHANGED caches
    PROVE  /\ CacheInv'
           /\ \A q \in Processes : chan'[q] = chan[q]
  BY DEF CacheInv, SocketInv, Inv, TypeOK, caches

(* Each action keeps the caches typed and the topology in order.           *)
LEMMA InvStep == Inv /\ [Next]_vars => Inv'
<1> SUFFICES ASSUME Inv, [Next]_vars PROVE Inv'
  OBVIOUS
<1>1. /\ Len(Topology) = 3
      /\ Apis \cap Workers = {} /\ Apis \subseteq Processes /\ Workers \subseteq Processes
      /\ NoApi \notin Apis
  BY TopologyFacts, ChannelAssumption DEF Processes
<1>2. Fault => faults' \in 0..MaxFaults
  BY ChannelAssumption DEF Fault, Inv, TypeOK
<1>3. faults' = faults => faults' \in 0..MaxFaults
  BY DEF Inv, TypeOK
<1>4. CASE Outage
  <2>1. Connected \subseteq Processes /\ Connected \cap Apis \subseteq Connected
    BY DEF Connected
  <2>2. up' \in BOOLEAN /\ faults' \in 0..MaxFaults
        /\ (declared' = declared \/ (declared' = 0 /\ Connected \subseteq Connected))
    BY <1>4, <1>2 DEF Outage
  <2>3. PICK gone \in SUBSET queued : Stops(gone)
    BY <1>4 DEF Outage
  <2>4. CASE Ends(Connected, {}, gone)
    BY <2>1, <2>2, <2>4, EndsPreserves
  <2>5. CASE Ends(Connected, Connected \cap Apis, gone)
    BY <2>1, <2>2, <2>5, EndsPreserves
  <2>6. QED
    BY <2>3, <2>4, <2>5 DEF Stops
<1>5. CASE Recovers
  BY <1>5, <1>1 DEF Recovers, caches, clients, picks, Inv, TypeOK, SocketInv, DeclaredInv
<1>6. ASSUME NEW p \in Processes, Dies(p) PROVE Inv'
  <2>1. up' \in BOOLEAN /\ faults' \in 0..MaxFaults /\ declared' = declared
    BY <1>6, <1>2 DEF Dies, Inv, TypeOK
  <2>2. QED
    BY <1>6, <2>1, EndsPreserves DEF Dies
<1>7. ASSUME NEW a \in Apis, ClosedQuietly(a) PROVE Inv'
  <2>1. up' \in BOOLEAN /\ faults' \in 0..MaxFaults /\ declared' = declared
    BY <1>7, <1>2 DEF ClosedQuietly, Inv, TypeOK
  <2>2. QED
    BY <1>1, <1>7, <2>1, EndsPreserves DEF ClosedQuietly
<1>8. ASSUME NEW p \in Processes, Connects(p) PROVE Inv'
  <2>1. CacheInv'
    BY <1>8, <1>1 DEF Connects, CacheInv, Inv, TypeOK, SocketInv, CacheStates
  <2>2. /\ step' = step /\ declared' = declared /\ DeclaredInv'
        /\ \A v \in Workers : step'[v] > 0 => chan'[v] = "open"
    BY <1>8, <1>1 DEF Connects, clients, picks, Inv, TypeOK, DeclaredInv, CacheStates
  <2>3. \A q \in Processes : chan[q] \in {"waiting", "opening"}
          => chan'[q] \in {"waiting", "opening"}
    BY <1>8 DEF Connects, Inv, TypeOK
  <2>4. QED
    BY <1>8, <1>1, <2>1, <2>2, <2>3
       DEF Connects, clients, picks, CacheInv, Inv, TypeOK
<1>9. ASSUME NEW p \in Processes, DialFails(p) PROVE Inv'
  <2>1. faults' \in 0..MaxFaults
    BY <1>9, <1>2, <1>3 DEF DialFails
  <2>2. chan[p] = "waiting" /\ sockets[p] = 1
    BY <1>9 DEF DialFails, Inv, TypeOK, SocketInv, CacheStates
  <2>3. \A w \in Workers : step'[w] > 0 => w # p
    BY <1>1, <2>2, <1>9 DEF DialFails, Inv, TypeOK
  <2>4. CacheInv'
    BY <1>9, <2>2 DEF DialFails, CacheInv, Inv, TypeOK, SocketInv, CacheStates
  <2>5. /\ step' = step /\ declared' = declared /\ DeclaredInv'
        /\ \A v \in Workers : step'[v] > 0 => chan'[v] = "open"
    BY <1>9, <1>1, <2>3 DEF DialFails, Inv, TypeOK, DeclaredInv
  <2>6. /\ req' \in [Requests -> {"new", "waiting", "accepted", "refused", "dropped"}]
        /\ home' = home
        /\ \A r \in Requests : req'[r] = "waiting" => req[r] = "waiting" /\ home[r] # p
        /\ \A r \in Requests : req[r] = "accepted" => req'[r] = "accepted"
    BY <1>9 DEF DialFails, Awaiting, Answered, Inv, TypeOK
  <2>7. /\ probe' \in [Apis -> {"none", "waiting", "ok", "error"}]
        /\ \A a \in Apis : probe'[a] = "waiting" => probe[a] = "waiting" /\ a # p
    BY <1>9 DEF DialFails, Checked, Inv, TypeOK
  <2>8. \A q \in Processes : q # p => chan'[q] = chan[q]
    BY <1>9 DEF DialFails, Inv, TypeOK
  <2>9. \A r \in Requests : req'[r] = "waiting" =>
          home'[r] \in Apis /\ chan'[home'[r]] \in {"waiting", "opening"}
    BY <1>1, <2>6, <2>8 DEF Inv, TypeOK
  <2>10. \A a \in Apis : probe'[a] = "waiting" => chan'[a] \in {"waiting", "opening"}
    BY <1>1, <2>7, <2>8 DEF Inv, TypeOK
  <2>11. picks' = picks /\ up' = up
    BY <1>9 DEF DialFails
  <2>12. QED
    BY <1>1, <2>1, <2>4, <2>5, <2>6, <2>7, <2>9, <2>10, <2>11
       DEF picks, CacheInv, Inv, TypeOK
<1>10. ASSUME NEW p \in Processes, Opens(p) PROVE Inv'
  <2>1. conn[p] = "open"
    BY <1>10 DEF Opens, Inv, TypeOK, CacheStates
  <2>2. QED
    BY <1>10, <1>1, <2>1
       DEF Opens, Awaiting, Answered, Checked, Inv, TypeOK, SocketInv, DeclaredInv,
           CacheStates
<1>11. ASSUME NEW a \in Apis, Probes(a) PROVE Inv'
  <2>1. Dials(a) \/ UNCHANGED caches
    BY <1>11 DEF Probes, Joins
  <2>2. CacheInv' /\ \A v \in Workers : chan[v] = "open" => chan'[v] = "open"
    BY <2>1, <1>1, DialsKeepsCaches, UnchangedKeepsCaches
  <2>3. \A q \in Processes : chan[q] \in {"waiting", "opening"} =>
          chan'[q] \in {"waiting", "opening"}
    BY <2>1, <1>1, DialsKeepsCaches, UnchangedKeepsCaches
  <2>4. /\ probe' \in [Apis -> {"none", "waiting", "ok", "error"}]
        /\ \A b \in Apis : probe'[b] = "waiting" => chan'[b] \in {"waiting", "opening"}
    <3>1. \A b \in Apis : b # a => probe'[b] = probe[b]
      BY <1>11 DEF Probes, Inv, TypeOK
    <3>2. probe'[a] = "waiting" => chan'[a] \in {"waiting", "opening"}
      <4>1. CASE Dials(a)
        BY <4>1, <1>1, DialsKeepsCaches
      <4>2. CASE Joins(a)
        BY <4>2 DEF Joins, caches
      <4>3. CASE probe' = [probe EXCEPT ![a] = "ok"] \/ probe' = [probe EXCEPT ![a] = "error"]
        BY <4>3 DEF Inv, TypeOK
      <4>4. QED
        BY <1>11, <4>1, <4>2, <4>3 DEF Probes
    <3>3. probe' \in [Apis -> {"none", "waiting", "ok", "error"}]
      <4>1. PICK v \in {"waiting", "ok", "error"} : probe' = [probe EXCEPT ![a] = v]
        BY <1>11, Zenon DEF Probes
      <4>2. QED
        BY <4>1 DEF Inv, TypeOK
    <3>4. QED
      BY <3>1, <3>2, <3>3, <2>3, <1>1 DEF Inv, TypeOK
  <2>5. UNCHANGED <<up, declared, step, req, home, picks, faults>>
    BY <1>11 DEF Probes
  <2>6. QED
    BY <1>1, <2>2, <2>3, <2>4, <2>5 DEF picks, CacheInv, Inv, TypeOK, SocketInv, DeclaredInv
<1>12. ASSUME NEW a \in Apis, ProbeTimesOut(a) PROVE Inv'
  BY <1>12, <1>1 DEF ProbeTimesOut, caches, picks, Inv, TypeOK, SocketInv, DeclaredInv
<1>13. ASSUME NEW w \in Workers, Starts(w) PROVE Inv'
  <2>1. /\ CacheInv' /\ \A v \in Workers : chan[v] = "open" => chan'[v] = "open"
        /\ \A q \in Processes : chan[q] \in {"waiting", "opening"} =>
             chan'[q] \in {"waiting", "opening"}
    BY <1>13, <1>1, DialsKeepsCaches DEF Starts
  <2>2. UNCHANGED <<up, declared, step, clients, picks, faults>>
    BY <1>13 DEF Starts
  <2>3. QED
    BY <1>1, <2>1, <2>2 DEF clients, picks, CacheInv, Inv, TypeOK, SocketInv, DeclaredInv
<1>14. ASSUME NEW w \in Workers, Declares(w) PROVE Inv'
  BY <1>14, <1>1
     DEF Declares, Consuming, caches, clients, picks, Inv, TypeOK, SocketInv, DeclaredInv
<1>15. ASSUME NEW r \in Requests, NEW a \in Apis, Publishes(r, a) PROVE Inv'
  BY <1>15, <1>1 DEF Publishes, Sends, caches, Inv, TypeOK, SocketInv, DeclaredInv
<1>16. ASSUME NEW r \in Requests, NEW a \in Apis, Refuses(r, a) PROVE Inv'
  BY <1>16, <1>1 DEF Refuses, Sends, caches, Inv, TypeOK, SocketInv, DeclaredInv
<1>17. ASSUME NEW r \in Requests, NEW a \in Apis, Waits(r, a) PROVE Inv'
  <2>1. Dials(a) \/ (UNCHANGED caches /\ Joins(a))
    BY <1>17 DEF Waits, Joins
  <2>2. /\ CacheInv' /\ \A v \in Workers : chan[v] = "open" => chan'[v] = "open"
        /\ \A q \in Processes : chan[q] \in {"waiting", "opening"} =>
             chan'[q] \in {"waiting", "opening"}
    BY <2>1, <1>1, DialsKeepsCaches, UnchangedKeepsCaches
  <2>3. chan'[a] \in {"waiting", "opening"}
    BY <2>1, <1>1, DialsKeepsCaches DEF Joins, caches
  <2>4. /\ req' \in [Requests -> {"new", "waiting", "accepted", "refused", "dropped"}]
        /\ home' \in [Requests -> Apis \cup {NoApi}]
        /\ \A s \in Requests : s # r => req'[s] = req[s] /\ home'[s] = home[s]
        /\ home'[r] = a /\ req[r] # "accepted"
    BY <1>17 DEF Waits, Sends, Inv, TypeOK
  <2>5. \A s \in Requests : req'[s] = "waiting" =>
          home'[s] \in Apis /\ chan'[home'[s]] \in {"waiting", "opening"}
    BY <1>1, <2>2, <2>3, <2>4 DEF Inv, TypeOK
  <2>6. UNCHANGED <<up, declared, step, queued, lost, wire, probe, faults>>
    BY <1>17 DEF Waits, Sends
  <2>7. \A s \in queued' \cup lost' \cup UNION {wire'[b] : b \in Apis} : req'[s] = "accepted"
    BY <2>4, <2>6 DEF Inv, TypeOK
  <2>8. QED
    BY <1>1, <2>2, <2>4, <2>5, <2>6, <2>7
       DEF CacheInv, Inv, TypeOK, SocketInv, DeclaredInv
<1>18. ASSUME NEW r \in Requests, NEW a \in Apis, Routes(r, a) PROVE Inv'
  <2>1. CASE declared = 0
    <3>1. up' \in BOOLEAN /\ faults' \in 0..MaxFaults /\ declared' = declared
      BY <1>18, <1>3 DEF Routes, Inv, TypeOK
    <3>2. Ends({a}, {}, {})
      BY <1>18, <2>1 DEF Routes
    <3>3. QED
      BY <1>1, <3>1, <3>2, EndsPreserves
  <2>2. CASE declared # 0
    BY <1>18, <1>1, <2>2
       DEF Routes, caches, clients, Inv, TypeOK, SocketInv, DeclaredInv
  <2>3. QED
    BY <2>1, <2>2
<1>19. CASE UNCHANGED vars
  BY <1>19 DEF vars, caches, clients, picks, Inv, TypeOK, SocketInv, DeclaredInv
<1>20. QED
  BY <1>4, <1>5, <1>6, <1>7, <1>8, <1>9, <1>10, <1>11, <1>12, <1>13, <1>14, <1>15,
     <1>16, <1>17, <1>18, <1>19 DEF Next

LEMMA InvHolds == Spec => []Inv
  BY InvInit, InvStep, PTL DEF Spec

(* Every reachable state of the cached promises is one of the six pairs,   *)
(* and whoever waits, waits for a pending one.                             *)
THEOREM TypeCorrect == Spec => []TypeOK
<1>1. Inv => TypeOK
  BY DEF Inv
<1>2. QED
  BY <1>1, InvHolds, PTL

(* However many publishes and probes ask for a channel at once, a process  *)
(* never holds two connections to the broker.                              *)
THEOREM ConnectionsAreShared == Spec => []OneConnection
<1>1. Inv => OneConnection
  BY DEF Inv, SocketInv, OneConnection
<1>2. QED
  BY <1>1, InvHolds, PTL

(* A step that loses a pick is a fault, or finds no worker past            *)
(* setupTopology: the broker has whatever a consuming worker declared.     *)
LEMMA LossStep ==
    ASSUME Inv, [Next]_vars, lost' # lost
    PROVE  faults' # faults \/ \A w \in Workers : ~Consuming(w)
<1>1. Len(Topology) = 3 /\ faults \in Nat /\ declared \in 0..3
  BY TopologyFacts DEF Inv, TypeOK
<1>2. ASSUME NEW r \in Requests, NEW a \in Apis, Routes(r, a)
      PROVE  \A w \in Workers : ~Consuming(w)
  <2>1. ~(declared >= 2)
    <3> SUFFICES ASSUME declared >= 2 PROVE FALSE
      OBVIOUS
    <3>1. declared \in Nat /\ declared <= 3
      BY <1>1
    <3>2. Exists("picks.inventory")
      BY <3>1, TopologyFacts DEF Exists
    <3>3. QED
      BY <1>1, <1>2, <3>2 DEF Routes
  <2>2. QED
    BY <1>1, <2>1 DEF Inv, DeclaredInv, Consuming, TypeOK
<1>3. CASE Fault
  BY <1>1, <1>3 DEF Fault
<1>4. QED
  BY <1>2, <1>3
     DEF Next, Outage, Recovers, Dies, ClosedQuietly, Connects, DialFails, Opens,
         Probes, ProbeTimesOut, Starts, Declares, Publishes, Refuses, Waits, Sends,
         picks, vars

(* An accepted pick is lost without a fault only while no worker consumes. *)
THEOREM LossHasCause == Spec => LossNeedsCause
<1>1. Inv /\ [Next]_vars =>
        [lost' # lost => faults' # faults \/ \A w \in Workers : ~Consuming(w)]_vars
  BY LossStep
<1>2. QED
  BY <1>1, InvHolds, PTL DEF Spec, LossNeedsCause

(* A step that refuses a pick has a cause at hand.                         *)
LEMMA RefusalStep ==
    ASSUME Inv, [Next]_vars, NEW r \in Requests,
           req'[r] = "refused", req[r] # "refused"
    PROVE  ~up \/ faults' # faults \/ conn[home'[r]] = "closed"
<1>1. faults \in Nat /\ Apis \subseteq Processes
  BY DEF Inv, TypeOK, Processes
<1>2. ASSUME Fault PROVE faults' # faults
  BY <1>1, <1>2 DEF Fault
<1>3. ASSUME NEW p \in Processes, DialFails(p) PROVE ~up \/ faults' # faults
  BY <1>2, <1>3 DEF DialFails
<1>4. ASSUME NEW s \in Requests, NEW a \in Apis, Refuses(s, a)
      PROVE  conn[home'[r]] = "closed"
  <2>1. s = r /\ home'[r] = a
    BY <1>4 DEF Refuses, Sends, Inv, TypeOK
  <2>2. QED
    BY <1>1, <1>4, <2>1 DEF Refuses, Rejects, Inv, TypeOK, CacheStates
<1>5. ASSUME NEW s \in Requests, NEW a \in Apis, Routes(s, a) PROVE FALSE
  BY <1>5 DEF Routes, Ends, clients, Inv, TypeOK
<1>6. ASSUME NEW p \in Processes, Opens(p) PROVE FALSE
  BY <1>6 DEF Opens, Answered, Inv, TypeOK
<1>7. ASSUME NEW s \in Requests, NEW a \in Apis, Publishes(s, a) \/ Waits(s, a)
      PROVE  FALSE
  BY <1>7 DEF Publishes, Waits, Inv, TypeOK
<1>8. QED
  BY <1>2, <1>3, <1>4, <1>5, <1>6, <1>7
     DEF Next, Outage, Recovers, Dies, ClosedQuietly, Connects, Probes,
         ProbeTimesOut, Starts, Declares, clients, vars

(* A 503 has a cause: an outage, a failure then, or a dead connection that *)
(* is still cached; never a dial that failed earlier.                      *)
THEOREM RefusalHasCause == Spec => RefusedForCause
<1>1. Inv /\ [Next]_vars =>
        [\A r \in Requests :
           req'[r] = "refused" /\ req[r] # "refused"
             => ~up \/ faults' # faults \/ conn[home'[r]] = "closed"]_vars
  BY RefusalStep
<1>2. QED
  BY <1>1, InvHolds, PTL DEF Spec, RefusedForCause
=============================================================================
