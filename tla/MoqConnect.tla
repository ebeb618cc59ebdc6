------------------------------ MODULE MoqConnect ------------------------------
(***************************************************************************)
(* MoqClientContext::connect_to, called by the virtual clients of one      *)
(* instance. They share a cache from endpoint keys to resolved addresses   *)
(* and QUIC clients. The mutex of the cache is held only to read it and to *)
(* register: names are resolved, and addresses dialled, without it, so two *)
(* clients may build the state of one endpoint at the same time. A client  *)
(* may be dropped (its token cancelled) wherever it awaits.                *)
(*                                                                         *)
(* Time is counted in units of the short timeouts (5 s). Computation takes *)
(* none of it: a unit passes only when every client waits for a name, for  *)
(* an address, or for a mutex whose holder waits.                          *)
(***************************************************************************)
EXTENDS Integers, Sequences, FiniteSets, FiniteSetsExt

CONSTANTS
  Clients,           (* virtual clients of the instance                     *)
  Hosts,             (* host and port of the relays, ignoring case          *)
  Home,              (* the host the instance was given                     *)
  Paths,             (* authority and path, which the cache does not use    *)
  Missing,           (* no client, no state                                *)
  ResolveTimeout,    (* RESOLVE_TIMEOUT                                     *)
  AttemptTimeout,    (* CONNECT_ATTEMPT_TIMEOUT                             *)
  FinalTimeout,      (* CONNECT_FINAL_ATTEMPT_TIMEOUT                       *)
  MaxAddrs,          (* bound: addresses a name resolves to                 *)
  MaxConnects        (* bound: calls of connect_to by one client            *)

ASSUME ConnectAssumption ==
  /\ ResolveTimeout \in Nat /\ AttemptTimeout \in Nat /\ FinalTimeout \in Nat
  /\ AttemptTimeout <= FinalTimeout
  /\ MaxAddrs \in Nat \ {0} /\ MaxConnects \in Nat
  /\ Home \in Hosts /\ Missing \notin Clients

VARIABLES
  endpoints,         (* the cache: EndpointKey to EndpointState             *)
  lock,              (* who holds the mutex of the cache                    *)
  pc,                (* where each client's call is                         *)
  target,            (* the endpoint it was called with                     *)
  resolved,          (* the EndpointState it built or took from the cache   *)
  index,             (* the candidate it dials                              *)
  left,              (* what remains of the timeout it waits under          *)
  connects,          (* calls of connect_to so far                          *)
  elapsed,           (* history: time since the call                        *)
  tried              (* history: candidates that failed in this call        *)

client == <<target, resolved, index, left, connects, elapsed, tried>>
connectVars == <<endpoints, lock, pc, client>>

Families == {4, 6}
Endpoints == [host: Hosts, uppercase: BOOLEAN, path: Paths]

(* EndpointKey::new: the host in lower case and the port; not the path.     *)
EndpointKey(e) == e.host

(* What resolve() returns: at least one address, of either family.          *)
Resolutions == UNION {[1 .. n -> Families] : n \in 1 .. MaxAddrs}

(* EndpointState: addrs, and a client (a UDP socket) for each family that   *)
(* occurs in them. "by" tells apart the states built for one key.           *)
EndpointState(c, addrs) ==
  [by |-> <<c, connects[c]>>, addrs |-> addrs,
   clients |-> {addrs[i] : i \in DOMAIN addrs}]

States == [by: (Clients \cup {Missing}) \X (0 .. MaxConnects), addrs: Resolutions,
           clients: SUBSET Families]

ASSUME MissingAssumption == Missing \notin States

ConnectInit ==
  /\ \E addrs \in Resolutions :
       endpoints = [k \in Hosts \cup {Missing} |->
                      IF k = Home THEN [by |-> <<Missing, 0>>, addrs |-> addrs,
                                        clients |-> {addrs[i] : i \in DOMAIN addrs}]
                      ELSE Missing]
  /\ lock = Missing
  /\ pc = [c \in Clients |-> "idle"]
  /\ target \in [Clients -> {[host |-> Home, uppercase |-> FALSE, path |-> p] : p \in Paths}]
  /\ resolved = [c \in Clients |-> Missing]
  /\ index = [c \in Clients |-> 0]
  /\ left = [c \in Clients |-> 0]
  /\ connects = [c \in Clients |-> 0]
  /\ elapsed = [c \in Clients |-> 0]
  /\ tried = [c \in Clients |-> {}]

Goto(c, where) == pc' = [pc EXCEPT ![c] = where]

-----------------------------------------------------------------------------
(* The cache.                                                               *)

(* The first call is for the endpoint the instance was given; later ones    *)
(* retry, repeat, or follow the New Session URI of a GOAWAY.                *)
Call(c, e) ==
  /\ pc[c] \in {"idle", "connected", "failed"} /\ connects[c] < MaxConnects
  /\ pc[c] = "idle" => e = target[c]
  /\ Goto(c, "looking")
  /\ target' = [target EXCEPT ![c] = e]
  /\ connects' = [connects EXCEPT ![c] = @ + 1]
  /\ resolved' = [resolved EXCEPT ![c] = Missing]
  /\ elapsed' = [elapsed EXCEPT ![c] = 0]
  /\ tried' = [tried EXCEPT ![c] = {}]
  /\ UNCHANGED <<endpoints, lock, index, left>>

(* endpoints.lock().await                                                   *)
Lock(c) ==
  /\ lock = Missing
  /\ lock' = c
  /\ \/ pc[c] = "looking" /\ Goto(c, "reading")
     \/ pc[c] = "registering" /\ Goto(c, "writing")
  /\ UNCHANGED <<endpoints, client>>

(* The first candidate a client exists for; past the end if there is none.  *)
NextCandidate(state, i) ==
  Min({j \in i .. Len(state.addrs) : state.addrs[j] \in state.clients}
        \cup {Len(state.addrs) + 1})

(* The last candidate is given longer than the others.                      *)
TimeoutOf(state, i) == IF i = Len(state.addrs) THEN FinalTimeout ELSE AttemptTimeout

(* Dial candidate i, or give up when there is none.                         *)
Dial(c, state, i) ==
  /\ index' = [index EXCEPT ![c] = i]
  /\ IF i > Len(state.addrs)
     THEN Goto(c, "failed") /\ UNCHANGED left
     ELSE Goto(c, "dialing") /\ left' = [left EXCEPT ![c] = TimeoutOf(state, i)]

Dialing(c, state) == Dial(c, state, NextCandidate(state, 1))

(* MUTANT: the guard lives until the endpoint is registered.                *)
LookUpHolding(c) ==
  /\ pc[c] = "reading"
  /\ LET cached == endpoints[EndpointKey(target[c])]
     IN  IF cached # Missing
         THEN lock' = Missing /\ resolved' = [resolved EXCEPT ![c] = cached] /\ Dialing(c, cached)
         ELSE /\ UNCHANGED lock
              /\ Goto(c, "building")
              /\ left' = [left EXCEPT ![c] = ResolveTimeout]
              /\ UNCHANGED <<resolved, index>>
  /\ UNCHANGED <<endpoints, target, connects, elapsed, tried>>

(* The guard is dropped at the end of the block that reads the cache.       *)
LookUp(c) ==
  /\ pc[c] = "reading"
  /\ lock' = Missing
  /\ LET cached == endpoints[EndpointKey(target[c])]
     IN  IF cached # Missing
         THEN resolved' = [resolved EXCEPT ![c] = cached] /\ Dialing(c, cached)
         ELSE /\ Goto(c, "building")
              /\ left' = [left EXCEPT ![c] = ResolveTimeout]
              /\ UNCHANGED <<resolved, index>>
  /\ UNCHANGED <<endpoints, target, connects, elapsed, tried>>

(* build_endpoint_state: the name resolved and the sockets bound.           *)
Built(c) ==
  /\ pc[c] = "building"
  /\ Goto(c, "registering")
  /\ \E addrs \in Resolutions : resolved' = [resolved EXCEPT ![c] = EndpointState(c, addrs)]
  /\ UNCHANGED <<endpoints, lock, target, index, left, connects, elapsed, tried>>

(* No address, an error of the resolver, its timeout, or a bind that fails. *)
BuildFails(c) ==
  /\ pc[c] = "building"
  /\ Goto(c, "failed")
  /\ UNCHANGED <<endpoints, lock, client>>

RegisterOver(c) ==                                                  \* MUTANT
  /\ pc[c] = "writing"
  /\ lock' = Missing
  /\ endpoints' = [endpoints EXCEPT ![EndpointKey(target[c])] = resolved[c]]
  /\ Dialing(c, resolved[c])
  /\ UNCHANGED <<target, resolved, connects, elapsed, tried>>

(* entry(key).or_insert(built): the first to register wins, and the state a *)
(* later client built is dropped with its sockets.                          *)
Register(c) ==
  /\ pc[c] = "writing"
  /\ lock' = Missing
  /\ LET key == EndpointKey(target[c])
         state == IF endpoints[key] = Missing THEN resolved[c] ELSE endpoints[key]
     IN  /\ endpoints' = [endpoints EXCEPT ![key] = state]
         /\ resolved' = [resolved EXCEPT ![c] = state]
         /\ Dialing(c, state)
  /\ UNCHANGED <<target, connects, elapsed, tried>>

-----------------------------------------------------------------------------
(* Dialling the candidates in order.                                        *)

Connected(c) ==
  /\ pc[c] = "dialing"
  /\ Goto(c, "connected")
  /\ UNCHANGED <<endpoints, lock, client>>

(* Refused, or the timeout of this candidate: go on to the next.            *)
CandidateFails(c) ==
  /\ pc[c] = "dialing"
  /\ tried' = [tried EXCEPT ![c] = @ \cup {index[c]}]
  /\ Dial(c, resolved[c], NextCandidate(resolved[c], index[c] + 1))
  /\ UNCHANGED <<endpoints, lock, target, resolved, connects, elapsed>>

(* The client's token drops the call at an await.                           *)
Dropped(c) ==
  /\ pc[c] \in {"looking", "building", "registering", "dialing"}
  /\ Goto(c, "dropped")
  /\ resolved' = [resolved EXCEPT ![c] = Missing]
  /\ UNCHANGED <<endpoints, lock, target, index, left, connects, elapsed, tried>>

-----------------------------------------------------------------------------
(* Time.                                                                    *)

InCall(c) == pc[c] \in {"looking", "building", "registering", "dialing"}
CanRun(c) ==
  \/ pc[c] \in {"reading", "writing"}
  \/ pc[c] \in {"looking", "registering"} /\ lock = Missing

Tick ==
  /\ \A c \in Clients : ~CanRun(c)
  /\ \A c \in Clients : pc[c] \in {"building", "dialing"} => left[c] > 0
  /\ \E c \in Clients : InCall(c)
  /\ left' = [c \in Clients |->
                IF pc[c] \in {"building", "dialing"} THEN left[c] - 1 ELSE left[c]]
  /\ elapsed' = [c \in Clients |-> IF InCall(c) THEN elapsed[c] + 1 ELSE elapsed[c]]
  /\ UNCHANGED <<endpoints, lock, pc, target, resolved, index, connects, tried>>

ConnectNext ==
  \/ \E c \in Clients :
       \/ \E e \in Endpoints : Call(c, e)
       \/ Lock(c) \/ LookUp(c) \/ Built(c) \/ BuildFails(c) \/ Register(c)
       \/ Connected(c) \/ CandidateFails(c) \/ Dropped(c)
  \/ Tick

ConnectSpec == ConnectInit /\ [][ConnectNext]_connectVars

-----------------------------------------------------------------------------
(* Properties.                                                              *)

TypeOK ==
  /\ endpoints \in [Hosts \cup {Missing} -> States \cup {Missing}]
  /\ lock \in Clients \cup {Missing}
  /\ pc \in [Clients -> {"idle", "looking", "reading", "building", "registering",
                         "writing", "dialing", "connected", "failed", "dropped"}]
  /\ target \in [Clients -> Endpoints]
  /\ resolved \in [Clients -> States \cup {Missing}]
  /\ index \in [Clients -> 0 .. MaxAddrs + 1]
  /\ left \in [Clients -> Nat]
  /\ connects \in [Clients -> 0 .. MaxConnects]
  /\ elapsed \in [Clients -> Nat]
  /\ tried \in [Clients -> SUBSET (1 .. MaxAddrs)]

(* All clients that use a relay use the same resolved state and the same    *)
(* sockets, however they race to build it and however they spell its name.  *)
SharedState ==
  \A c, d \in Clients :
    (/\ pc[c] \in {"dialing", "connected"} /\ pc[d] \in {"dialing", "connected"}
     /\ target[c].host = target[d].host) => resolved[c] = resolved[d]

(* A call ends within the sum of its own timeouts, whatever the others wait *)
(* for: no client queues behind the resolution or the handshake of another. *)
ConnectBounded ==
  \A c \in Clients : pc[c] # "dropped" =>
    elapsed[c] <= ResolveTimeout +
      (IF resolved[c] = Missing THEN 0
       ELSE (Len(resolved[c].addrs) - 1) * AttemptTimeout + FinalTimeout)

(* A call that got as far as dialling fails only after every address of the *)
(* relay was tried.                                                         *)
FailsOnlyAfterAll ==
  \A c \in Clients :
    pc[c] = "failed" /\ resolved[c] # Missing => tried[c] = DOMAIN resolved[c].addrs

(* A call tries all there is to try, and takes no longer than that.         *)
ConnectEnds == ConnectBounded /\ FailsOnlyAfterAll

(* Why they hold.  Who reads or writes the cache holds its mutex, and so    *)
(* nobody waits for the mutex while time passes ...                         *)
HoldsLock(c) == pc[c] \in {"reading", "writing"} <=> lock = c

(* ... a state has a client for every address, those that dial use the one  *)
(* in the cache, and what is there stays ...                                *)
Complete == {state \in States : state.clients = {state.addrs[i] : i \in DOMAIN state.addrs}}

CacheInv == \A k \in Hosts : endpoints[k] # Missing => endpoints[k] \in Complete

UsesCached(c) ==
  /\ pc[c] \in {"registering", "writing", "dialing", "connected"} => resolved[c] # Missing
  /\ pc[c] \in {"idle", "looking", "reading", "building", "dropped"} => resolved[c] = Missing
  /\ resolved[c] # Missing => resolved[c] \in Complete
  /\ pc[c] \in {"dialing", "connected"} => resolved[c] = endpoints[target[c].host]

(* ... candidates are dialled one after the other, none left out ...        *)
InOrder(c) ==
  /\ pc[c] \in {"looking", "reading", "building", "registering", "writing"} => tried[c] = {}
  /\ pc[c] = "dialing" =>
       index[c] \in 1 .. Len(resolved[c].addrs) /\ tried[c] = 1 .. (index[c] - 1)
  /\ pc[c] = "failed" /\ resolved[c] # Missing => tried[c] = 1 .. Len(resolved[c].addrs)

(* ... and each wait is within what the timeouts so far add up to.          *)
InTime(c) ==
  /\ pc[c] \in {"idle", "looking", "reading"} => elapsed[c] = 0
  /\ pc[c] = "building" => elapsed[c] + left[c] <= ResolveTimeout
  /\ pc[c] \in {"registering", "writing"} => elapsed[c] <= ResolveTimeout
  /\ pc[c] = "dialing" =>
       elapsed[c] + left[c] <= ResolveTimeout + (index[c] - 1) * AttemptTimeout
                                 + TimeoutOf(resolved[c], index[c])
  /\ pc[c] \in {"connected", "failed"} =>
       elapsed[c] <= ResolveTimeout +
         (IF resolved[c] = Missing THEN 0
          ELSE (Len(resolved[c].addrs) - 1) * AttemptTimeout + FinalTimeout)

ConnectInv ==
  /\ TypeOK /\ CacheInv
  /\ \A c \in Clients : HoldsLock(c) /\ UsesCached(c) /\ InOrder(c) /\ InTime(c)

===============================================================================
