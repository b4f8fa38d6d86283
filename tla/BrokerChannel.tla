---------------------------- MODULE BrokerChannel ----------------------------
(***************************************************************************)
(* RabbitMQ as the processes reach it: the cached connection and channel   *)
(* promises of connection.ts, POST /picks requests and readiness probes    *)
(* that share them in an api process, the workers that declare the         *)
(* topology through theirs, and a broker that stops, comes back (perhaps   *)
(* as a new container without the topology) and closes connections.        *)
(*                                                                         *)
(* What runs between two awaits is one step: a caller of getChannel goes   *)
(* on to publish in the same turn in which the promise resolves.           *)
(***************************************************************************)
EXTENDS Naturals, Sequences

CONSTANTS
    Apis,       \* api processes
    Workers,    \* inventory-worker and audit-worker processes
    Requests,   \* POST /picks requests of clients that retry until accepted
    NoApi,      \* a request not sent yet
    MaxFaults   \* bound on outages, lost connections, failed dials and deaths

Processes == Apis \cup Workers

ASSUME ChannelAssumption ==
    /\ Apis \cap Workers = {}
    /\ NoApi \notin Apis
    /\ MaxFaults \in Nat

(* What setupTopology declares, in its order, as far as a publish can tell *)
(* it apart; every queue comes with its binding, and all of it is durable. *)
Topology == <<"picks.events", "picks.inventory", "the other queues">>

VARIABLES
    up,         \* the broker accepts connections
    declared,   \* how many entries of Topology exist on it
    conn,       \* conn[p]: connectionPromise: null, pending, resolved and alive,
                \* or resolved to a connection that has closed
    chan,       \* chan[p]: channelPromise, pending first on the connection and
                \* then on channel.open
    sockets,    \* sockets[p]: connections p has dialled and not ended
    step,       \* step[w]: how much of setupTopology worker w has run
    req,        \* req[r]: what the client of r knows
    home,       \* home[r]: the api process r was last sent to
    wire,       \* wire[a]: picks published by a that the broker has not read
    queued,     \* the picks routed to picks.inventory and not lost since
    lost,       \* the picks accepted and gone
    probe,      \* probe[a]: the rabbitmq check of GET /health/ready
    faults      \* how many faults happened

caches == <<conn, chan, sockets>>
clients == <<req, home, probe>>
picks == <<wire, queued, lost>>
vars == <<up, declared, caches, step, clients, picks, faults>>

Init ==
    /\ up \in BOOLEAN
    /\ declared = 0
    /\ conn = [p \in Processes |-> "none"]
    /\ chan = [p \in Processes |-> "none"]
    /\ sockets = [p \in Processes |-> 0]
    /\ step = [w \in Workers |-> 0]
    /\ req = [r \in Requests |-> "new"]
    /\ home = [r \in Requests |-> NoApi]
    /\ wire = [a \in Apis |-> {}]
    /\ queued = {} /\ lost = {}
    /\ probe = [a \in Apis |-> "none"]
    /\ faults = 0

Fault == faults < MaxFaults /\ faults' = faults + 1

Consuming(w) == step[w] = Len(Topology)

Exists(queue) == \E i \in 1..declared : Topology[i] = queue

Awaiting(p) == {r \in Requests : req[r] = "waiting" /\ home[r] = p}

Answered(R, answer) == [r \in Requests |-> IF r \in R THEN answer ELSE req[r]]

(* The result of the readiness check that awaits the same promise, if any. *)
Checked(p, result) ==
    [a \in Apis |-> IF a = p /\ probe[a] = "waiting" THEN result ELSE probe[a]]

-----------------------------------------------------------------------------
(* getChannel.                                                             *)

(* Mutant: the connection is cached once it is established, not the promise. *)
DialsAlways(p) ==
    /\ chan[p] # "open" /\ conn[p] \in {"none", "dialing"}
    /\ conn' = [conn EXCEPT ![p] = "dialing"]
    /\ chan' = [chan EXCEPT ![p] = "waiting"]
    /\ sockets' = [sockets EXCEPT ![p] = @ + 1]

(* Neither promise is cached: dial.                                        *)
Dials(p) ==
    /\ chan[p] = "none" /\ conn[p] = "none"
    /\ conn' = [conn EXCEPT ![p] = "dialing"]
    /\ chan' = [chan EXCEPT ![p] = "waiting"]
    /\ sockets' = [sockets EXCEPT ![p] = @ + 1]

(* A pending channelPromise is shared by all who ask for it.               *)
Joins(p) == chan[p] \in {"waiting", "opening"} /\ UNCHANGED caches

(* The promise resolves at once, even to a channel that has closed.        *)
Cached(p) == chan[p] \in {"open", "closed"}

(* createChannel on a cached connection that has closed throws; the        *)
(* channelPromise is cleared, the connectionPromise is not.                *)
Rejects(p) == chan[p] = "none" /\ conn[p] = "closed"

-----------------------------------------------------------------------------
(* The end of connections, and of the processes that do not survive it.    *)

(* The connections of P end.  An 'error' event exits the process and the   *)
(* container restarts it with empty caches.  A close without 'error', as   *)
(* when the broker shuts down, is noticed by nobody: an api process, Q,    *)
(* keeps the dead connection; a worker has nothing left to wait for and    *)
(* ends too.  What was published and not read is lost, and so are the      *)
(* picks gone from the queue.                                              *)
Ends(P, Q, gone) ==
    /\ conn' = [p \in Processes |-> IF p \in Q THEN "closed"
                                    ELSE IF p \in P THEN "none" ELSE conn[p]]
    /\ chan' = [p \in Processes |->
                  IF p \in Q /\ chan[p] = "open" THEN "closed"
                  ELSE IF p \in P THEN "none" ELSE chan[p]]
    /\ sockets' = [p \in Processes |-> IF p \in P THEN 0 ELSE sockets[p]]
    /\ step' = [w \in Workers |-> IF w \in P THEN 0 ELSE step[w]]
    /\ req' = [r \in Requests |->
                 IF req[r] = "waiting" /\ home[r] \in P
                   THEN IF home[r] \in Q THEN "refused" ELSE "dropped"
                   ELSE req[r]]
    /\ probe' = [a \in Apis |->
                   IF probe[a] = "waiting" /\ a \in P
                     THEN IF a \in Q THEN "error" ELSE "none"
                     ELSE probe[a]]
    /\ wire' = [a \in Apis |-> IF a \in P THEN {} ELSE wire[a]]
    /\ queued' = queued \ gone
    /\ lost' = lost \cup gone \cup UNION {wire[a] : a \in Apis \cap P}
    /\ UNCHANGED home

Connected == {p \in Processes : conn[p] = "open"}

(* The broker stops: cleanly, or not.                                      *)
Stops(gone) ==
    Ends(Connected, {}, gone) \/ Ends(Connected, Connected \cap Apis, gone)

(* Its container has no volume: one that is recreated has lost the         *)
(* topology and every pick that no worker has handled by then.             *)
Outage ==
    /\ Fault
    /\ up
    /\ up' = FALSE
    /\ \/ declared' = declared /\ Stops({})
       \/ declared' = 0 /\ \E gone \in SUBSET queued : Stops(gone)

Recovers ==
    /\ ~up
    /\ up' = TRUE
    /\ UNCHANGED <<declared, caches, step, clients, picks, faults>>

(* One process dies, or its connection does.                               *)
Dies(p) == Fault /\ Ends({p}, {}, {}) /\ UNCHANGED <<up, declared>>

ClosedQuietly(a) ==
    /\ Fault
    /\ conn[a] = "open"
    /\ Ends({a}, {a}, {})
    /\ UNCHANGED <<up, declared>>

-----------------------------------------------------------------------------
(* The promises settle.                                                    *)

Connects(p) ==
    /\ up /\ conn[p] = "dialing"
    /\ conn' = [conn EXCEPT ![p] = "open"]
    /\ chan' = [chan EXCEPT ![p] = "opening"]
    /\ UNCHANGED <<up, declared, sockets, step, clients, picks, faults>>

(* Mutant: a failed attempt leaves the rejected promise in channelPromise. *)
DialFailsForGood(p) ==
    /\ conn[p] = "dialing"
    /\ (~up /\ UNCHANGED faults) \/ Fault
    /\ conn' = [conn EXCEPT ![p] = "none"]
    /\ chan' = [chan EXCEPT ![p] = "closed"]
    /\ sockets' = [sockets EXCEPT ![p] = @ - 1]
    /\ req' = Answered(Awaiting(p), "refused")
    /\ probe' = Checked(p, "error")
    /\ UNCHANGED <<up, declared, step, home, picks>>

(* Both caches are cleared and every caller is told.  A worker's rejection *)
(* is unhandled: it exits, to start over with the caches just as empty.    *)
DialFails(p) ==
    /\ conn[p] = "dialing"
    /\ (~up /\ UNCHANGED faults) \/ Fault
    /\ conn' = [conn EXCEPT ![p] = "none"]
    /\ chan' = [chan EXCEPT ![p] = "none"]
    /\ sockets' = [sockets EXCEPT ![p] = @ - 1]
    /\ req' = Answered(Awaiting(p), "refused")
    /\ probe' = Checked(p, "error")
    /\ UNCHANGED <<up, declared, step, home, picks>>

(* channel.open-ok: those who wait publish, and are answered 202.          *)
Opens(p) ==
    /\ chan[p] = "opening"
    /\ chan' = [chan EXCEPT ![p] = "open"]
    /\ req' = Answered(Awaiting(p), "accepted")
    /\ wire' = [a \in Apis |-> IF a = p THEN wire[a] \cup Awaiting(p)
                                        ELSE wire[a]]
    /\ probe' = Checked(p, "ok")
    /\ UNCHANGED <<up, declared, conn, sockets, step, home, queued, lost, faults>>

-----------------------------------------------------------------------------
(* RabbitMQPickQueue.publish, from getChannel to the answer.               *)

(* The client of r sends it, for the first time or again, to process a.    *)
Sends(r, a) ==
    /\ req[r] \in {"new", "refused", "dropped"}
    /\ home' = [home EXCEPT ![r] = a]
    /\ UNCHANGED <<up, declared, step, queued, lost, probe, faults>>

(* channel.publish returns as soon as the pick is written to the socket.   *)
Publishes(r, a) ==
    /\ Sends(r, a)
    /\ chan[a] = "open"
    /\ req' = [req EXCEPT ![r] = "accepted"]
    /\ wire' = [wire EXCEPT ![a] = @ \cup {r}]
    /\ UNCHANGED caches

(* publish throws on a closed channel, createChannel on a closed           *)
(* connection: 503.                                                        *)
Refuses(r, a) ==
    /\ Sends(r, a)
    /\ chan[a] = "closed" \/ Rejects(a)
    /\ req' = [req EXCEPT ![r] = "refused"]
    /\ UNCHANGED <<caches, wire>>

Waits(r, a) ==
    /\ Sends(r, a)
    /\ Dials(a) \/ Joins(a)
    /\ req' = [req EXCEPT ![r] = "waiting"]
    /\ UNCHANGED wire

(* The broker reads a published pick.  With the exchange but not the queue *)
(* declared it drops it; without the exchange it closes the channel with   *)
(* an error no one listens for, and the process exits.                     *)
Routes(r, a) ==
    /\ r \in wire[a]
    /\ conn[a] = "open"
    /\ IF declared = 0
         THEN Ends({a}, {}, {})
         ELSE /\ wire' = [wire EXCEPT ![a] = @ \ {r}]
              /\ queued' = IF Exists("picks.inventory") THEN queued \cup {r}
                                                         ELSE queued
              /\ lost' = IF Exists("picks.inventory") THEN lost
                                                       ELSE lost \cup {r}
              /\ UNCHANGED <<caches, step, clients>>
    /\ UNCHANGED <<up, declared, faults>>

-----------------------------------------------------------------------------
(* The workers: getChannel, setupTopology, and only then consume.          *)

Starts(w) ==
    /\ Dials(w)
    /\ UNCHANGED <<up, declared, step, clients, picks, faults>>

(* Mutant: main consumes without awaiting setupTopology.                   *)
ConsumesFirst(w) ==
    /\ chan[w] = "open"
    /\ ~Consuming(w)
    /\ step' = [step EXCEPT ![w] = Len(Topology)]
    /\ UNCHANGED <<up, declared, caches, clients, picks, faults>>

(* One declaration; repeating one that exists changes nothing.             *)
Declares(w) ==
    /\ chan[w] = "open"
    /\ ~Consuming(w)
    /\ step' = [step EXCEPT ![w] = @ + 1]
    /\ declared' = IF declared <= step[w] THEN step[w] + 1 ELSE declared
    /\ UNCHANGED <<up, caches, clients, picks, faults>>

-----------------------------------------------------------------------------
(* checkRabbitMQ: getChannel raced with a timeout.                         *)

Probes(a) ==
    /\ probe[a] # "waiting"
    /\ \/ Cached(a) /\ UNCHANGED caches /\ probe' = [probe EXCEPT ![a] = "ok"]
       \/ Rejects(a) /\ UNCHANGED caches /\ probe' = [probe EXCEPT ![a] = "error"]
       \/ (Dials(a) \/ Joins(a)) /\ probe' = [probe EXCEPT ![a] = "waiting"]
    /\ UNCHANGED <<up, declared, step, req, home, picks, faults>>

(* Mutant: the check waits for the promise alone.                          *)
ProbeNeverTimesOut(a) == FALSE /\ UNCHANGED vars

ProbeTimesOut(a) ==
    /\ probe[a] = "waiting"
    /\ probe' = [probe EXCEPT ![a] = "error"]
    /\ UNCHANGED <<up, declared, caches, step, req, home, picks, faults>>

-----------------------------------------------------------------------------
Next ==
    \/ Outage
    \/ Recovers
    \/ \E p \in Processes : Dies(p) \/ Connects(p) \/ DialFails(p) \/ Opens(p)
    \/ \E a \in Apis : ClosedQuietly(a) \/ Probes(a) \/ ProbeTimesOut(a)
    \/ \E w \in Workers : Starts(w) \/ Declares(w)
    \/ \E r \in Requests, a \in Apis :
          Publishes(r, a) \/ Refuses(r, a) \/ Waits(r, a) \/ Routes(r, a)

Spec == Init /\ [][Next]_vars

(* The broker answers what reaches it, timers fire, clients retry and      *)
(* workers start.  Nothing says that the broker comes back, nor that a     *)
(* dial that is not answered ever fails: amqplib has no timeout of its own. *)
Fairness ==
    /\ \A p \in Processes : WF_vars(Connects(p)) /\ WF_vars(Opens(p))
    /\ \A a \in Apis : WF_vars(ProbeTimesOut(a))
    /\ \A w \in Workers : WF_vars(Starts(w)) /\ WF_vars(Declares(w))
    /\ \A r \in Requests :
         /\ WF_vars(\E a \in Apis : Publishes(r, a) \/ Refuses(r, a) \/ Waits(r, a))
         /\ \A a \in Apis : WF_vars(Routes(r, a))

FairSpec == Spec /\ Fairness

-----------------------------------------------------------------------------
CacheStates == {<<"none", "none">>, <<"dialing", "waiting">>,
                <<"open", "opening">>, <<"open", "open">>,
                <<"closed", "none">>, <<"closed", "closed">>}

(* The two cached promises only ever stand in these six pairs; a worker    *)
(* declares on an open channel only; who waits, waits for a pending        *)
(* promise; a pick is on one wire, queued or lost only once accepted.      *)
TypeOK ==
    /\ up \in BOOLEAN
    /\ declared \in 0..Len(Topology)
    /\ conn \in [Processes -> {"none", "dialing", "open", "closed"}]
    /\ chan \in [Processes -> {"none", "waiting", "opening", "open", "closed"}]
    /\ \A p \in Processes : <<conn[p], chan[p]>> \in CacheStates
    /\ sockets \in [Processes -> Nat]
    /\ step \in [Workers -> 0..Len(Topology)]
    /\ \A w \in Workers : step[w] > 0 => chan[w] = "open"
    /\ req \in [Requests -> {"new", "waiting", "accepted", "refused", "dropped"}]
    /\ home \in [Requests -> Apis \cup {NoApi}]
    /\ \A r \in Requests :
         req[r] = "waiting" => home[r] \in Apis /\ chan[home[r]] \in {"waiting", "opening"}
    /\ wire \in [Apis -> SUBSET Requests]
    /\ queued \subseteq Requests /\ lost \subseteq Requests
    /\ \A r \in queued \cup lost \cup UNION {wire[a] : a \in Apis} : req[r] = "accepted"
    /\ probe \in [Apis -> {"none", "waiting", "ok", "error"}]
    /\ \A a \in Apis : probe[a] = "waiting" => chan[a] \in {"waiting", "opening"}
    /\ faults \in 0..MaxFaults

(* A process never holds two connections to the broker, however many       *)
(* publishes and probes ask for a channel while the first one is being     *)
(* opened: the promise is cached, not its result.                          *)
OneConnection == \A p \in Processes : sockets[p] <= 1

(* A pick answered 202 is lost without a fault only while no worker has    *)
(* finished setupTopology since the broker lost or never had its queues.   *)
LossNeedsCause ==
    [][lost' # lost => faults' # faults \/ \A w \in Workers : ~Consuming(w)]_vars

(* A pick is refused with 503 only while the broker is down, by a failure  *)
(* at that moment, or by a process whose cached connection closed without  *)
(* 'error': a dial that failed earlier is never held against a request.    *)
RefusedForCause ==
    [][\A r \in Requests :
         req'[r] = "refused" /\ req[r] # "refused"
           => ~up \/ faults' # faults \/ conn[home'[r]] = "closed"]_vars

(* GET /health/ready answers even while a dial hangs.                      *)
ProbesAnswered == \A a \in Apis : probe[a] = "waiting" ~> probe[a] # "waiting"

(* Once the broker stays up, a client that retries is accepted, provided   *)
(* that no api process keeps a connection that closed without 'error' (it  *)
(* would refuse for ever: nothing clears the resolved promises).           *)
AcceptedInTheEnd ==
    <>[]up /\ <>[](\A a \in Apis : conn[a] # "closed")
      => \A r \in Requests : <>(req[r] = "accepted")
=============================================================================
